---------------------------- MODULE VaultProofs -----------------------------
(***************************************************************************)
(* The safety of the vault, for any entries and any number of requests,    *)
(* crashes, failing file operations and failing reads.                     *)
(***************************************************************************)
EXTENDS Vault, TLAPS

BootPCs == {"boot_key", "boot_token", "boot_enc"}
WipePCs == {"wipe_key", "wipe_token", "wipe_enc", "wipe_marker", "wipe_log"}

(* The owner's token may be refused: token.bin could not be read, or was   *)
(* drawn again because it could not be looked for.                         *)
Doubted == mistaken \cap {"ask", "token"} # {}

(* Where the door stands tells which request it is in; only an append that *)
(* carries an entry gets past dispatch, and only a stranger's request or a *)
(* doubted one becomes a wipe.                                             *)
Control ==
    /\ pc["door"] \in {"down", "idle"} => op = "none"
    /\ pc["door"] \in BootPCs => op = "ensure"
    /\ pc["door"] \in {"append_write", "append_log"} => op = "append"
    /\ pc["door"] = "read" => op = "read"
    /\ pc["door"] = "health" => op = "health"
    /\ pc["door"] \in WipePCs => op = "wipe"
    /\ op = "append" => arg \in Entry
    /\ op = "wipe" => stranger \/ Doubted

(* No draw of rand32() repeats, so a key made later opens nothing older. *)
Material ==
    /\ key <= minted /\ token <= minted
    /\ enc.kind = "sealed" => enc.by # 0 /\ enc.by <= minted
    /\ pc["door"] \in {"boot_token", "boot_enc"} => key # 0

(* While nobody has knocked without it, and no read of it has failed, the  *)
(* token of the birth opens.                                               *)
Owner == held # 0 /\ ~stranger /\ ~Doubted => token = held

(* A destroyed journal has its file, and the key that cut it is off the    *)
(* disk for good, unless a boot took that file for missing.                *)
Gone ==
    /\ wiped => (stranger \/ Doubted) /\ enc.kind # "absent"
    /\ GoneForGood
    /\ enc.kind = "nul" => wiped

(* Until it is destroyed a journal that is there opens, unless a boot took *)
(* its key for missing.                                                    *)
Standing == ~wiped /\ enc.kind = "sealed" /\ "key" \notin mistaken => Loadable

(* Acknowledged appends have their places in the file. *)
InPlace ==
    ~wiped /\ "enc" \notin mistaken =>
        \A a \in acked : a.n \in 1..Len(enc.entries) /\ enc.entries[a.n] = a.entry

(* They are in place, and one that is past its write and not yet answered  *)
(* is the last line.                                                       *)
Kept ==
    /\ InPlace
    /\ enc.kind = "absent" => acked = {}
    /\ op = "append" /\ pc["door"] \in {"append_log"} \cup StatusPCs
         => /\ enc.kind = "sealed"
            /\ enc.entries # <<>>
            /\ enc.entries[Len(enc.entries)] = arg

(* Only a failing operation is a mistaken read. *)
Blame == faults = 0 => mistaken = {}

(* A read that is past its log line has not been counted as words yet. *)
Logged ==
    /\ ReadIsLogged
    /\ op = "read" /\ pc["door"] \in StatusPCs => words < log.read

Inv == Control /\ Material /\ Owner /\ Gone /\ Standing /\ Kept /\ Blame /\ Logged

-----------------------------------------------------------------------------
(* Every step of Next is one of these. *)
LEMMA Steps ==
    ASSUME Next
    PROVE  \/ Restart \/ BootKey \/ BootToken \/ BootEnc \/ AskNoEntry
           \/ (\E cmd \in {"append", "read", "health"}, presented \in {0, held},
                  e \in Entry \cup {NoEntry} :
                  (cmd = "append" => e \in Entry) /\ Ask(cmd, presented, e))
           \/ AppendWrite \/ AppendGone \/ AppendLog \/ Read \/ Health
           \/ WipeKey \/ WipeToken \/ WipeEnc \/ WipeMarker \/ WipeLog \/ Age
           \/ PowerStart \/ PowerTick \/ PowerSend \/ Crash \/ Misread
           \/ (\E w \in Threads :
                  \/ StatusRead(w) \/ StatusCount(w) \/ StatusOpen(w)
                  \/ StatusWrite(w) \/ StatusRename(w) \/ StatusRenameLost(w)
                  \/ Fault(w))
  <1>1. CASE Request
    <2>1. CASE \E presented \in {0, held}, e \in Entry : Ask("append", presented, e)
      BY <2>1
    <2>2. CASE \E presented \in {0, held} : Ask("read", presented, NoEntry)
      BY <2>2
    <2>3. CASE Ask("health", 0, NoEntry)
      BY <2>3
    <2>4. QED
      BY <1>1, <2>1, <2>2, <2>3 DEF Request
  <1>2. CASE DoorStep
    BY <1>2, Zenon DEF DoorStep, Ensure, Wipe, WriteStatus, Threads
  <1>3. CASE PowerStep
    BY <1>3, Zenon DEF PowerStep, WriteStatus, Threads
  <1>4. QED
    BY <1>1, <1>2, <1>3, Zenon DEF Next

(* Which steps touch the files of the vault proper. *)
LEMMA DiskFrame ==
    ASSUME [Next]_vars
    PROVE  \/ UNCHANGED diskVars
           \/ Ensure \/ AppendWrite \/ AppendLog \/ Read \/ Wipe \/ Misread
  <1>1. CASE UNCHANGED vars
    BY <1>1 DEF vars
  <1>2. CASE Restart \/ AskNoEntry \/ AppendGone \/ Health \/ Age \/ Crash
    BY <1>2 DEF Restart, AskNoEntry, AppendGone, Health, Age, Crash
  <1>3. CASE PowerStart \/ PowerTick \/ PowerSend
    BY <1>3 DEF PowerStart, PowerTick, PowerSend
  <1>4. ASSUME NEW cmd, NEW presented, NEW e, Ask(cmd, presented, e)
        PROVE  UNCHANGED diskVars
    BY <1>4 DEF Ask
  <1>5. ASSUME NEW w, StatusRead(w) \/ StatusCount(w) \/ StatusOpen(w)
                      \/ StatusWrite(w)
        PROVE  UNCHANGED diskVars
    BY <1>5 DEF StatusRead, StatusCount, StatusOpen, StatusWrite
  <1>6. ASSUME NEW w, StatusRename(w) \/ StatusRenameLost(w) \/ Fault(w)
        PROVE  UNCHANGED diskVars
    BY <1>6 DEF StatusRename, StatusRenameLost, Fault
  <1>7. QED
    BY <1>1, <1>2, <1>3, <1>4, <1>5, <1>6, Steps, Zenon DEF Ensure, Wipe

(* Which steps touch the public status and the feed. *)
LEMMA StatusFrame ==
    ASSUME [Next]_vars
    PROVE  \/ UNCHANGED statusVars
           \/ Age \/ PowerStart \/ PowerTick \/ PowerSend \/ Crash \/ Misread
           \/ \E w \in Threads : WriteStatus(w) \/ Fault(w)
  <1>1. CASE UNCHANGED vars
    BY <1>1 DEF vars
  <1>2. CASE Restart \/ AskNoEntry \/ BootKey \/ BootToken \/ BootEnc
    BY <1>2 DEF Restart, AskNoEntry, BootKey, BootToken, BootEnc
  <1>3. CASE AppendWrite \/ AppendGone \/ AppendLog \/ Read \/ Health
    BY <1>3 DEF AppendWrite, AppendGone, AppendLog, Read, Health
  <1>4. CASE WipeKey \/ WipeToken \/ WipeEnc \/ WipeMarker \/ WipeLog
    BY <1>4 DEF WipeKey, WipeToken, WipeEnc, WipeMarker, WipeLog
  <1>5. ASSUME NEW cmd, NEW presented, NEW e, Ask(cmd, presented, e)
        PROVE  UNCHANGED statusVars
    BY <1>5 DEF Ask
  <1>6. QED
    BY <1>1, <1>2, <1>3, <1>4, <1>5, Steps, Zenon DEF WriteStatus

(* What the clients have seen changes when they ask, when they are answered, *)
(* when the token is cut and when the journal is destroyed.                  *)
LEMMA HistoryFrame ==
    ASSUME [Next]_vars
    PROVE  \/ UNCHANGED historyVars
           \/ BootToken \/ Request \/ WipeKey \/ WipeEnc \/ Misread
           \/ \E ok \in BOOLEAN : Return(ok)
  <1>1. CASE UNCHANGED vars
    BY <1>1 DEF vars
  <1>2. CASE Restart \/ BootKey \/ BootEnc \/ AppendWrite \/ AppendLog
    BY <1>2 DEF Restart, BootKey, BootEnc, AppendWrite, AppendLog
  <1>3. CASE AppendGone \/ Read \/ Health
    BY <1>3, Zenon DEF AppendGone, Read, Health
  <1>4. CASE WipeToken \/ WipeMarker \/ WipeLog \/ Age \/ Crash
    BY <1>4 DEF WipeToken, WipeMarker, WipeLog, Age, Crash
  <1>5. CASE PowerStart \/ PowerTick \/ PowerSend
    BY <1>5 DEF PowerStart, PowerTick, PowerSend
  <1>6. ASSUME NEW w, StatusRead(w) \/ StatusCount(w) \/ StatusOpen(w)
                      \/ StatusWrite(w)
        PROVE  UNCHANGED historyVars
    BY <1>6 DEF StatusRead, StatusCount, StatusOpen, StatusWrite
  <1>7. ASSUME NEW w, StatusRename(w) \/ StatusRenameLost(w) \/ Fault(w)
        PROVE  UNCHANGED historyVars \/ \E ok \in BOOLEAN : Return(ok)
    BY <1>7, Zenon DEF StatusRename, StatusRenameLost, Fault, StatusReturn
  <1>8. QED
    BY <1>1, <1>2, <1>3, <1>4, <1>5, <1>6, <1>7, Zenon
       DEF Next, DoorStep, PowerStep, Ensure, Wipe, WriteStatus
-----------------------------------------------------------------------------
(* A read that failed is one of these. *)
LEMMA Misreads ==
    ASSUME Misread
    PROVE  \/ BootUnread \/ AskUnread \/ ReadUnread \/ SealUnread
           \/ \E w \in Threads : StatusUnread(w)
  BY DEF Misread

(* ... and is counted. *)
LEMMA MisreadCounts ==
    ASSUME TypeOK, Misread
    PROVE  faults' = faults + 1 /\ faults' # 0 /\ faults' \in Nat
  <1>1. faults' = faults + 1
    BY DEF Misread, BootUnread, ReadUnread, SealUnread, AskUnread, StatusUnread
  <1>2. QED
    BY <1>1 DEF TypeOK, TypeThreads

(* The files of the vault keep their types. *)
LEMMA TypeDiskStep ==
    ASSUME TypeOK, Control, [Next]_vars
    PROVE  TypeDisk'
  <1> USE DEF TypeDisk
  <1>1. CASE UNCHANGED diskVars
    BY <1>1 DEF TypeOK, diskVars
  <1>2. CASE Ensure
    <2>1. CASE BootKey
      BY <2>1 DEF TypeOK, BootKey
    <2>2. CASE BootToken
      BY <2>2 DEF TypeOK, BootToken
    <2>3. CASE BootEnc
      BY <2>3 DEF TypeOK, BootEnc
    <2>4. QED
      BY <1>2, <2>1, <2>2, <2>3 DEF Ensure
  <1>3. CASE AppendWrite
    <2>1. arg \in Entry
      BY <1>3 DEF AppendWrite, At, Control
    <2>2. Append(enc.entries, arg) \in Seq(Entry)
      BY <2>1 DEF TypeOK
    <2>3. QED
      BY <1>3, <2>2 DEF TypeOK, AppendWrite
  <1>4. CASE AppendLog
    BY <1>4 DEF TypeOK, AppendLog
  <1>5. CASE Read
    BY <1>5 DEF TypeOK, Read
  <1>6. CASE Wipe
    <2>1. CASE WipeKey
      BY <2>1 DEF TypeOK, WipeKey
    <2>2. CASE WipeToken
      BY <2>2 DEF TypeOK, WipeToken
    <2>3. CASE WipeEnc
      BY <2>3 DEF TypeOK, WipeEnc
    <2>4. CASE WipeMarker
      BY <2>4 DEF TypeOK, WipeMarker
    <2>5. CASE WipeLog
      BY <2>5 DEF TypeOK, WipeLog
    <2>6. QED
      BY <1>6, <2>1, <2>2, <2>3, <2>4, <2>5 DEF Wipe
  <1>7. CASE Misread
    <2>1. CASE BootUnread
      <3>1. /\ key' \in Nat /\ token' \in Nat /\ minted' \in Nat /\ UNCHANGED <<marker, log>>
        <4>1. minted + 1 \in Nat /\ key \in Nat /\ token \in Nat /\ minted \in Nat
          BY DEF TypeOK
        <4> HIDE DEF TypeDisk
        <4>2. UNCHANGED <<marker, log>> /\ key' \in {key, minted + 1}
              /\ token' \in {token, minted + 1} /\ minted' \in {minted, minted + 1}
          BY <2>1 DEF BootUnread
        <4>3. QED
          BY <4>1, <4>2
      <3>2. <<>> \in Seq(Entry)
        OBVIOUS
      <3>3. CASE enc' = enc
        BY <3>1, <3>3 DEF TypeOK
      <3>4. CASE enc' = [kind |-> "sealed", by |-> key, entries |-> <<>>]
        <4>1. enc' \in [kind : {"absent", "sealed", "nul"}, by : Nat, entries : Seq(Entry)]
          BY <3>2, <3>4 DEF TypeOK
        <4>2. marker' \in BOOLEAN /\ log' \in [append : Nat, read : Nat, wiped : Nat]
          BY <3>1 DEF TypeOK
        <4>3. QED
          BY <3>1, <4>1, <4>2
      <3>5. QED
        BY <2>1, <3>3, <3>4 DEF BootUnread
    <2>2. CASE ReadUnread
      BY <2>2 DEF TypeOK, ReadUnread
    <2>3. CASE SealUnread
      BY <1>1, <2>3 DEF SealUnread
    <2>4. ASSUME AskUnread
          PROVE  TypeDisk'
      BY <1>1, <2>4 DEF AskUnread
    <2>5. ASSUME NEW w, StatusUnread(w)
          PROVE  TypeDisk'
      BY <1>1, <2>5 DEF StatusUnread
    <2>6. QED
      BY <1>7, <2>1, <2>2, <2>3, <2>4, <2>5, Misreads
  <1>8. QED
    BY <1>1, <1>2, <1>3, <1>4, <1>5, <1>6, <1>7, DiskFrame, Zenon

(* A journal has a length. *)
LEMMA LenNat ==
    ASSUME TypeDisk
    PROVE  Len(enc.entries) \in Nat
  BY DEF TypeDisk

(* The public status and the feed keep their types. *)
LEMMA TypeStatusStep ==
    ASSUME TypeOK, [Next]_vars
    PROVE  TypeStatus'
  <1> USE DEF TypeOK, TypeStatus
  <1>1. CASE UNCHANGED statusVars
    BY <1>1 DEF statusVars
  <1>2. CASE Age \/ PowerStart \/ PowerTick \/ PowerSend
    <2>1. SealText \in [said : {"nothing", "status", "no vault"}, sealed : BOOLEAN]
      BY DEF SealText, Content, Status
    <2>2. CASE Age
      BY <2>2 DEF Age
    <2>3. CASE PowerStart
      BY <2>3 DEF PowerStart
    <2>4. CASE PowerTick
      BY <2>1, <2>4 DEF PowerTick
    <2>5. CASE PowerSend
      BY <2>1, <2>5 DEF PowerSend
    <2>6. QED
      BY <1>2, <2>2, <2>3, <2>4, <2>5
  <1>3. CASE Crash
    BY <1>3 DEF Crash, NoStatus, Status
  <1>4. ASSUME NEW w \in Threads, StatusRead(w) \/ StatusCount(w)
        PROVE  TypeStatus'
    <2>1. Loadable \in BOOLEAN /\ (IF Loadable THEN Len(enc.entries) ELSE 0) \in Nat
      <3>1. Loadable \in BOOLEAN
        BY Zenon DEF Loadable
      <3>2. Len(enc.entries) \in Nat
        BY LenNat
      <3>3. QED
        BY <3>1, <3>2
    <2>2. CASE StatusRead(w)
      <3>1. [snap[w] EXCEPT !.sealed = Loadable] \in Status
        <4>1. \A s \in Status, b \in BOOLEAN : [s EXCEPT !.sealed = b] \in Status
          BY DEF Status
        <4>2. QED
          BY <2>1, <4>1
      <3>2. QED
        BY <2>2, <3>1 DEF StatusRead
    <2>3. CASE StatusCount(w)
      <3>1. [snap[w] EXCEPT !.entries = IF Loadable THEN Len(enc.entries) ELSE 0] \in Status
        <4>1. \A s \in Status, n \in Nat : [s EXCEPT !.entries = n] \in Status
          BY DEF Status
        <4>2. QED
          BY <2>1, <4>1
      <3>2. QED
        BY <2>3, <3>1 DEF StatusCount
    <2>4. QED
      BY <1>4, <2>2, <2>3
  <1>5. ASSUME NEW w \in Threads, StatusOpen(w) \/ StatusWrite(w)
        PROVE  TypeStatus'
    <2>1. ASSUME NEW old \in Content, NEW s \in Status
          PROVE  Overwritten(old, s) \subseteq Content
      <3>1. Whole(s) \in Content /\ Torn \in Content
        BY DEF Content, Whole, Torn, NoStatus, Status
      <3>2. QED
        BY <3>1 DEF Overwritten
    <2>2. [text |-> "empty", s |-> NoStatus] \in Content
      BY DEF Content, NoStatus, Status
    <2>3. CASE StatusOpen(w)
      BY <2>2, <2>3 DEF StatusOpen
    <2>4. CASE StatusWrite(w)
      <3>1. Overwritten(tmp, snap[w]) \subseteq Content /\ Overwritten(json, snap[w]) \subseteq Content
        BY <2>1
      <3>2. QED
        BY <2>4, <3>1 DEF StatusWrite
    <2>5. QED
      BY <1>5, <2>3, <2>4
  <1>6. ASSUME NEW w \in Threads, StatusRename(w) \/ StatusRenameLost(w) \/ Fault(w)
        PROVE  TypeStatus'
    <2>1. NoStatus \in Status /\ NoFile \in Content /\ Torn \in Content
      BY DEF NoStatus, Status, NoFile, Torn, Content
    <2>2. snap' \in [Threads -> Status]
      BY <1>6, <2>1 DEF StatusRename, StatusRenameLost, Fault, StatusReturn
    <2>3. fd' \in [Threads -> {"none", "tmp", "json", "unlinked"}]
      BY <1>6 DEF StatusRename, StatusRenameLost, Fault, Moved
    <2>4. json' \in Content /\ tmp' \in Content
      BY <1>6, <2>1 DEF StatusRename, StatusRenameLost, Fault
    <2>5. UNCHANGED last_seal /\ fresh' \in BOOLEAN
      BY <1>6 DEF StatusRename, StatusRenameLost, Fault
    <2>6. QED
      BY <2>2, <2>3, <2>4, <2>5
  <1>7. CASE Misread
    <2>1. CASE BootUnread \/ ReadUnread
      BY <1>1, <2>1 DEF BootUnread, ReadUnread
    <2>2. CASE SealUnread
      <3>1. UNCHANGED <<json, tmp, fd, fresh, snap>>
        BY <2>2 DEF SealUnread
      <3>2. last_seal' \in [said : {"nothing", "status", "no vault"}, sealed : BOOLEAN]
        <4>1. CASE last_seal' = [said |-> "no vault", sealed |-> FALSE]
          BY <4>1
        <4>2. CASE last_seal' = last_seal
          BY <4>2
        <4>3. QED
          BY <2>2, <4>1, <4>2 DEF SealUnread
      <3>3. QED
        BY <3>1, <3>2
    <2>3. ASSUME AskUnread
          PROVE  TypeStatus'
      BY <1>1, <2>3 DEF AskUnread
    <2>4. ASSUME NEW w \in Threads, StatusUnread(w)
          PROVE  TypeStatus'
      <3>1. \A s \in Status : /\ [s EXCEPT !.sealed = FALSE] \in Status
                              /\ [s EXCEPT !.entries = 0] \in Status
        BY DEF Status
      <3>2. /\ [snap[w] EXCEPT !.sealed = FALSE] \in Status
            /\ [snap[w] EXCEPT !.entries = 0] \in Status
        BY <3>1
      <3>3. snap' \in [Threads -> Status]
        BY <2>4, <3>2 DEF StatusUnread
      <3>4. QED
        BY <2>4, <3>3 DEF StatusUnread
    <2>5. QED
      BY <1>7, <2>1, <2>2, <2>3, <2>4, Misreads
  <1>8. QED
    BY <1>1, <1>2, <1>3, <1>4, <1>5, <1>6, <1>7, StatusFrame, Zenon DEF WriteStatus

(* The two threads keep theirs. *)
LEMMA TypeThreadsStep ==
    ASSUME TypeOK, [Next]_vars
    PROVE  TypeThreads'
  <1> USE DEF TypeOK, TypeThreads, DoorPCs, PowerPCs, Threads
  <1>1. CASE UNCHANGED vars
    BY <1>1 DEF vars
  <1>2. ASSUME NEW ok \in BOOLEAN, Return(ok)
        PROVE  /\ pc' \in [Threads -> DoorPCs \cup PowerPCs]
               /\ pc'["door"] \in DoorPCs /\ pc'["power"] \in PowerPCs
               /\ op' \in Ops /\ arg' \in Entry \cup {NoEntry}
    BY <1>2 DEF Return, Answer, Goto, Ops
  <1>3. CASE Restart
    BY <1>3 DEF Restart, Goto, Ops
  <1>4. CASE BootKey
    BY <1>4 DEF BootKey, Goto
  <1>5. CASE BootToken
    BY <1>5 DEF BootToken, Goto
  <1>6. CASE BootEnc
    BY <1>6 DEF BootEnc, Goto, StatusPCs
  <1>7. CASE AppendWrite
    BY <1>7 DEF AppendWrite, Goto
  <1>8. CASE AppendLog
    BY <1>8 DEF AppendLog, Goto, StatusPCs
  <1>9. CASE WipeKey
    BY <1>9 DEF WipeKey, Goto
  <1>10. CASE WipeToken
    BY <1>10 DEF WipeToken, Goto
  <1>11. CASE WipeEnc
    BY <1>11 DEF WipeEnc, Goto
  <1>12. CASE WipeMarker
    BY <1>12 DEF WipeMarker, Goto
  <1>13. CASE WipeLog
    BY <1>13 DEF WipeLog, Goto, StatusPCs
  <1>14. CASE Age
    BY <1>14 DEF Age
  <1>15. CASE PowerStart
    BY <1>15 DEF PowerStart, Goto
  <1>16. CASE PowerTick
    BY <1>16 DEF PowerTick, Goto, StatusPCs
  <1>17. CASE PowerSend
    BY <1>17 DEF PowerSend, Goto
  <1>18. CASE Crash
    BY <1>18 DEF Crash, Ops
  <1>19. CASE AskNoEntry
    BY <1>19 DEF AskNoEntry
  <1>20. CASE AppendGone
    BY <1>20, <1>2 DEF AppendGone
  <1>21. CASE Read
    BY <1>21, <1>2 DEF Read, Goto, StatusPCs
  <1>22. CASE Health
    BY <1>22, <1>2 DEF Health, Goto, StatusPCs
  <1>23. ASSUME NEW cmd \in {"append", "read", "health"}, NEW presented \in {0, held},
               NEW e \in Entry \cup {NoEntry}, Ask(cmd, presented, e)
        PROVE  TypeThreads'
    BY <1>23 DEF Ask, Goto, Ops
  <1>24. ASSUME NEW w \in Threads, StatusRead(w)
        PROVE  TypeThreads'
    BY <1>24 DEF StatusRead, Goto, StatusPCs
  <1>25. ASSUME NEW w \in Threads, StatusCount(w)
        PROVE  TypeThreads'
    BY <1>25 DEF StatusCount, Goto, StatusPCs
  <1>26. ASSUME NEW w \in Threads, StatusOpen(w)
        PROVE  TypeThreads'
    BY <1>26 DEF StatusOpen, Goto, StatusPCs
  <1>27. ASSUME NEW w \in Threads, StatusWrite(w)
        PROVE  TypeThreads'
    BY <1>27 DEF StatusWrite, Goto, StatusPCs
  <1>28. ASSUME NEW w \in Threads, StatusRename(w)
        PROVE  TypeThreads'
    <2>1. UNCHANGED <<crashes, faults>>
      BY <1>28 DEF StatusRename
    <2>2. CASE w = "door"
      BY <1>28, <1>2, <2>1, <2>2 DEF StatusRename, StatusReturn
    <2>3. CASE w = "power"
      BY <1>28, <2>1, <2>3 DEF StatusRename, StatusReturn, Goto
    <2>4. QED
      BY <2>2, <2>3
  <1>29. ASSUME NEW w \in Threads, StatusRenameLost(w)
        PROVE  TypeThreads'
    <2>1. UNCHANGED <<crashes, faults>>
      BY <1>29 DEF StatusRenameLost
    <2>2. CASE w = "door"
      BY <1>29, <1>2, <2>1, <2>2 DEF StatusRenameLost, StatusReturn
    <2>3. CASE w = "power"
      BY <1>29, <2>1, <2>3 DEF StatusRenameLost, StatusReturn, Goto
    <2>4. QED
      BY <2>2, <2>3
  <1>30. ASSUME NEW w \in Threads, Fault(w)
        PROVE  TypeThreads'
    <2>1. faults' \in Nat /\ crashes' \in Nat
      BY <1>30 DEF Fault
    <2>2. CASE w = "door"
      BY <1>30, <1>2, <2>1, <2>2 DEF Fault, StatusReturn
    <2>3. CASE w = "power"
      BY <1>30, <2>1, <2>3 DEF Fault, StatusReturn, Goto
    <2>4. QED
      BY <2>2, <2>3
  <1>31. CASE Misread
    <2>1. faults' \in Nat /\ crashes' \in Nat
      BY <1>31, MisreadCounts DEF Misread, BootUnread, ReadUnread, SealUnread, AskUnread,
         StatusUnread
    <2>2. CASE BootUnread
      BY <2>1, <2>2 DEF BootUnread, Goto, StatusPCs
    <2>3. CASE ReadUnread
      BY <1>2, <2>1, <2>3 DEF ReadUnread
    <2>4. CASE SealUnread
      <3>1. UNCHANGED <<op, arg>>
        BY <2>4 DEF SealUnread
      <3>2. \/ pc' = [pc EXCEPT !["door"] = "status_read"]
            \/ pc' = [pc EXCEPT !["power"] = "status_read"]
            \/ pc' = [pc EXCEPT !["power"] = "sleep"]
        BY <2>4 DEF SealUnread, Goto
      <3>3. QED
        BY <2>1, <3>1, <3>2 DEF StatusPCs
    <2>5. ASSUME AskUnread
          PROVE  TypeThreads'
      BY <2>1, <2>5 DEF AskUnread, Goto, Ops
    <2>6. ASSUME NEW w \in Threads, StatusUnread(w)
          PROVE  TypeThreads'
      BY <2>1, <2>6 DEF StatusUnread, Goto, StatusPCs
    <2>7. QED
      BY <1>31, <2>2, <2>3, <2>4, <2>5, <2>6, Misreads
  <1>32. QED
    BY <1>1, <1>3, <1>4, <1>5, <1>6, <1>7, <1>8, <1>9, <1>10, <1>11, <1>12, <1>13, <1>14, <1>15, <1>16, <1>17, <1>18, <1>19, <1>20, <1>21, <1>22, <1>23, <1>24, <1>25, <1>26, <1>27, <1>28, <1>29, <1>30, <1>31, Steps, Zenon

(* What the clients have seen keeps its types. *)
LEMMA TypeHistoryStep ==
    ASSUME TypeOK, Control, [Next]_vars
    PROVE  TypeHistory'
  <1> USE DEF TypeOK, TypeHistory
  <1>1. CASE UNCHANGED historyVars
    BY <1>1 DEF historyVars
  <1>2. CASE BootToken
    BY <1>2 DEF BootToken, TypeDisk
  <1>3. CASE Request
    <2>1. ASSUME NEW cmd \in {"append", "read", "health"}, NEW presented, NEW e,
                 Ask(cmd, presented, e)
          PROVE  TypeHistory'
      <3>1. stranger' \in BOOLEAN /\ reply' \in Codes
        BY <2>1, Zenon DEF Ask, Codes
      <3>2. QED
        BY <2>1, <3>1 DEF Ask
    <2>2. CASE AskNoEntry
      BY <2>2 DEF AskNoEntry, Codes
    <2>3. QED
      BY <1>3, <2>1, <2>2 DEF Request
  <1>4. CASE WipeKey
    <2>1. wiped' \in BOOLEAN
      BY <1>4, Zenon DEF WipeKey
    <2>2. QED
      BY <1>4, <2>1 DEF WipeKey
  <1>5. CASE WipeEnc
    BY <1>5 DEF WipeEnc
  <1>6. ASSUME NEW ok \in BOOLEAN, Return(ok)
        PROVE  TypeHistory'
    <2>1. op = "append" => [n |-> Len(enc.entries), entry |-> arg] \in [n : Nat, entry : Entry]
      BY DEF Control, TypeDisk
    <2>2. mistaken' = mistaken
      BY <1>6 DEF Return, Answer, historyVars
    <2>3. /\ UNCHANGED <<held, stranger, wiped>>
          /\ words' \in Nat /\ answered' \in Nat /\ reply' \in Codes
          /\ acked' \in SUBSET [n : Nat, entry : Entry]
      BY <1>6, <2>1 DEF Return, Answer, Codes, historyVars
    <2>4. QED
      BY <2>2, <2>3
  <1>7. CASE Misread
    <2>1. CASE BootUnread \/ SealUnread
      BY <1>1, <2>1 DEF BootUnread, SealUnread
    <2>2. CASE ReadUnread
      BY <1>6, <2>2 DEF ReadUnread
    <2>3. ASSUME AskUnread
          PROVE  TypeHistory'
      BY <2>3 DEF AskUnread, Codes
    <2>4. ASSUME NEW w, StatusUnread(w)
          PROVE  TypeHistory'
      BY <1>1, <2>4 DEF StatusUnread
    <2>5. QED
      BY <1>7, <2>1, <2>2, <2>3, <2>4, Misreads
  <1>8. QED
    BY <1>1, <1>2, <1>3, <1>4, <1>5, <1>6, <1>7, HistoryFrame, Zenon

(* A step keeps the types: the files, both threads, the history. *)
LEMMA TypeStep ==
    ASSUME TypeOK, Control, [Next]_vars
    PROVE  TypeOK'
  BY TypeDiskStep, TypeStatusStep, TypeThreadsStep, TypeHistoryStep DEF TypeOK
-----------------------------------------------------------------------------
(* The journal is destroyed for good, and only by the wipe; a mistake is    *)
(* remembered, and only a failed read is one.                               *)
LEMMA WipedStays ==
    ASSUME [Next]_vars
    PROVE  /\ wiped => wiped'
           /\ mistaken \subseteq mistaken'
           /\ mistaken' = mistaken \/ Misread
  <1>1. CASE UNCHANGED historyVars
    BY <1>1 DEF historyVars
  <1>2. CASE BootToken \/ WipeKey \/ WipeEnc
    <2>1. mistaken' = mistaken
      BY <1>2 DEF BootToken, WipeKey, WipeEnc
    <2>2. wiped => wiped'
      BY <1>2 DEF BootToken, WipeKey, WipeEnc
    <2>3. QED
      BY <2>1, <2>2
  <1>3. CASE Request
    BY <1>3 DEF Request, Ask, AskNoEntry
  <1>4. ASSUME NEW ok \in BOOLEAN, Return(ok)
        PROVE  (wiped => wiped') /\ mistaken' = mistaken
    BY <1>4 DEF Return, Answer, historyVars
  <1>5. CASE Misread
    <2>1. CASE BootUnread \/ SealUnread
      <3>1. wiped' = wiped
        BY <2>1 DEF BootUnread, SealUnread, historyVars
      <3>2. mistaken \subseteq mistaken'
        BY <2>1 DEF BootUnread, SealUnread, historyVars
      <3>3. QED
        BY <1>5, <3>1, <3>2
    <2>2. CASE ReadUnread
      BY <2>2, <1>4 DEF ReadUnread
    <2>3. ASSUME AskUnread
          PROVE  (wiped => wiped') /\ mistaken \subseteq mistaken'
      BY <2>3 DEF AskUnread
    <2>4. ASSUME NEW w, StatusUnread(w)
          PROVE  (wiped => wiped') /\ mistaken \subseteq mistaken'
      BY <2>4 DEF StatusUnread, historyVars
    <2>5. QED
      BY <1>5, <2>1, <2>2, <2>3, <2>4, Misreads
  <1>6. QED
    BY <1>1, <1>2, <1>3, <1>4, <1>5, HistoryFrame

(* Failing file operations are counted. *)
LEMMA FaultsStay ==
    ASSUME TypeOK, [Next]_vars
    PROVE  /\ faults' = 0 => faults = 0
           /\ faults' = faults \/ Misread \/ \E w \in Threads : Fault(w)
  <1> USE DEF TypeOK, TypeThreads
  <1>1. ASSUME NEW w \in Threads, Fault(w)
        PROVE  faults' = 0 => faults = 0
    BY <1>1 DEF Fault
  <1>2. faults' = faults \/ Misread \/ \E w \in Threads : Fault(w)
    <2>1. CASE UNCHANGED vars
      BY <2>1 DEF vars
    <2>2. CASE Restart \/ BootKey \/ BootToken \/ BootEnc \/ AskNoEntry
      BY <2>2 DEF Restart, BootKey, BootToken, BootEnc, AskNoEntry
    <2>3. CASE AppendWrite \/ AppendGone \/ AppendLog \/ Read \/ Health
      BY <2>3 DEF AppendWrite, AppendGone, AppendLog, Read, Health
    <2>4. CASE WipeKey \/ WipeToken \/ WipeEnc \/ WipeMarker \/ WipeLog
      BY <2>4 DEF WipeKey, WipeToken, WipeEnc, WipeMarker, WipeLog
    <2>5. CASE Age \/ PowerStart \/ PowerTick \/ PowerSend \/ Crash
      BY <2>5 DEF Age, PowerStart, PowerTick, PowerSend, Crash
    <2>6. ASSUME NEW cmd, NEW presented, NEW e, Ask(cmd, presented, e)
          PROVE  faults' = faults
      BY <2>6 DEF Ask
    <2>7. ASSUME NEW w, StatusRead(w) \/ StatusCount(w) \/ StatusOpen(w)
                        \/ StatusWrite(w) \/ StatusRename(w) \/ StatusRenameLost(w)
          PROVE  faults' = faults
      BY <2>7 DEF StatusRead, StatusCount, StatusOpen, StatusWrite, StatusRename,
         StatusRenameLost
    <2>8. QED
      BY <2>1, <2>2, <2>3, <2>4, <2>5, <2>6, <2>7, Steps, Zenon
  <1>3. QED
    BY <1>1, <1>2, MisreadCounts, Zenon

(* A key is cut only where there is none, or none was seen, a journal only  *)
(* with the key at hand.                                                    *)
LEMMA StandingStep ==
    ASSUME TypeOK, Inv, [Next]_vars
    PROVE  Standing'
  <1> USE DEF Standing, Loadable
  <1>1. /\ ~wiped /\ enc.kind = "sealed" /\ "key" \notin mistaken => Loadable
        /\ (wiped => wiped') /\ mistaken \subseteq mistaken'
    BY WipedStays DEF Inv
  <1>2. CASE UNCHANGED <<key, enc>>
    BY <1>1, <1>2
  <1>3. CASE BootKey
    BY <1>1, <1>3 DEF BootKey
  <1>4. CASE BootEnc
    BY <1>1, <1>4 DEF BootEnc, At, Inv, Material
  <1>5. CASE AppendWrite
    BY <1>1, <1>5 DEF AppendWrite
  <1>6. CASE WipeKey
    BY <1>6 DEF WipeKey
  <1>7. CASE WipeEnc
    BY <1>7 DEF WipeEnc
  <1>8. CASE BootToken \/ AppendLog \/ Read \/ WipeToken \/ WipeMarker \/ WipeLog
    BY <1>2, <1>8 DEF BootToken, AppendLog, Read, WipeToken, WipeMarker, WipeLog
  <1>9. CASE Misread
    <2>1. CASE BootUnread
      BY <1>1, <2>1 DEF BootUnread, At, Inv, Material
    <2>2. CASE ReadUnread \/ SealUnread
      BY <1>2, <2>2 DEF ReadUnread, SealUnread, diskVars
    <2>3. ASSUME AskUnread
          PROVE  Standing'
      BY <1>2, <2>3 DEF AskUnread, diskVars
    <2>4. ASSUME NEW w, StatusUnread(w)
          PROVE  Standing'
      BY <1>2, <2>4 DEF StatusUnread, diskVars
    <2>5. QED
      BY <1>9, <2>1, <2>2, <2>3, <2>4, Misreads
  <1>10. UNCHANGED diskVars => UNCHANGED <<key, enc>>
    BY DEF diskVars
  <1>11. QED
    BY <1>2, <1>3, <1>4, <1>5, <1>6, <1>7, <1>8, <1>9, <1>10, DiskFrame, Zenon
       DEF Ensure, Wipe

(* Nothing is mistaken while no operation has failed. *)
LEMMA BlameStep ==
    ASSUME TypeOK, Inv, [Next]_vars
    PROVE  Blame'
  BY WipedStays, FaultsStay, MisreadCounts DEF Inv, Blame

(* A step that changes no file of the vault, no request and no history, and *)
(* moves the door at most inside write_status.                              *)
Quiet ==
    /\ UNCHANGED <<diskVars, op, arg, historyVars>>
    /\ \/ pc'["door"] = pc["door"]
       \/ pc["door"] \in StatusPCs /\ pc'["door"] \in StatusPCs

(* Such a step keeps the invariant. *)
LEMMA QuietStep ==
    ASSUME Inv, Quiet, Standing', Blame'
    PROVE  Inv'
  <1> USE DEF Quiet, diskVars, historyVars, Doubted
  <1>1. Control'
    BY DEF Inv, Control, StatusPCs, BootPCs, WipePCs
  <1>2. Material'
    BY DEF Inv, Material, StatusPCs
  <1>3. Owner' /\ Gone'
    BY DEF Inv, Owner, Gone, GoneForGood, Loadable
  <1>4. Kept'
    BY DEF Inv, Kept, InPlace
  <1>5. Logged'
    BY DEF Inv, Logged, ReadIsLogged
  <1>6. QED
    BY <1>1, <1>2, <1>3, <1>4, <1>5 DEF Inv

(* The door is done with a request or with ensure(): in Ok only from the    *)
(* end of write_status or from health().                                    *)
LEMMA ReturnStep ==
    ASSUME TypeOK, TypeOK', Inv, NEW ok \in BOOLEAN, Return(ok),
           UNCHANGED <<key, token, enc, minted>>, log'.read >= log.read,
           ok => pc["door"] \in StatusPCs \cup {"health"},
           Standing', Blame'
    PROVE  Inv'
  <1>1. op # "none" /\ pc'["door"] = "idle" /\ op' = "none"
    BY DEF Return, Answer, Goto, TypeOK, TypeThreads, Threads
  <1> USE DEF Doubted
  <1>2. UNCHANGED <<held, stranger, wiped, mistaken>>
    BY DEF Return, Answer, historyVars
  <1>3. Control' /\ Material' /\ Owner' /\ Gone'
    BY <1>1, <1>2 DEF Inv, Control, Material, Owner, Gone, GoneForGood, Loadable, BootPCs, WipePCs
  <1>4. Kept'
    <2>1. CASE acked' = acked
      BY <1>1, <1>2, <2>1 DEF Inv, Kept, InPlace
    <2>2. CASE acked' # acked
      <3>1. /\ op = "append" /\ ok
            /\ acked' = acked \cup {[n |-> Len(enc.entries), entry |-> arg]}
        BY <2>2 DEF Return, Answer, historyVars
      <3>2. pc["door"] \in StatusPCs
        BY <3>1 DEF Inv, Control
      <3>3. /\ enc.kind = "sealed"
            /\ enc.entries # <<>>
            /\ enc.entries[Len(enc.entries)] = arg
        BY <3>1, <3>2 DEF Inv, Kept
      <3>4. Len(enc.entries) \in 1..Len(enc.entries)
        <4>1. enc.entries \in Seq(Entry)
          BY DEF TypeOK, TypeDisk
        <4>2. QED
          BY <3>3, <4>1
      <3>5. QED
        BY <1>1, <1>2, <3>1, <3>3, <3>4 DEF Inv, Kept, InPlace
    <2>3. QED
      BY <2>1, <2>2
  <1>5. Logged'
    <2>1. CASE words' = words
      BY <1>1, <2>1 DEF Inv, Logged, ReadIsLogged, TypeOK, TypeDisk, TypeHistory
    <2>2. CASE words' # words
      <3>1. op = "read" /\ ok /\ words' = words + 1
        BY <2>2 DEF Return, Answer, historyVars
      <3>2. pc["door"] \in StatusPCs
        BY <3>1 DEF Inv, Control
      <3>3. words < log.read
        BY <3>1, <3>2 DEF Inv, Logged
      <3>4. QED
        BY <1>1, <3>1, <3>3 DEF Logged, ReadIsLogged, TypeOK, TypeDisk, TypeHistory
    <2>3. QED
      BY <2>1, <2>2
  <1>6. QED
    BY <1>3, <1>4, <1>5 DEF Inv

(* A read past its log line, or a health() with nothing cached, goes on     *)
(* into write_status.                                                       *)
LEMMA OnwardStep ==
    ASSUME TypeOK, TypeOK', Inv, Standing', Blame',
           UNCHANGED <<key, token, enc, minted, op, arg, historyVars>>,
           log'.read >= log.read,
           pc["door"] \in {"read", "health"}, pc'["door"] = "status_read",
           pc["door"] = "read" => log'.read = log.read + 1
    PROVE  Inv'
  <1>1. UNCHANGED <<held, stranger, wiped, mistaken, acked, words>>
    BY DEF historyVars
  <1>2. op \in {"read", "health"}
    BY DEF Inv, Control
  <1>3. Control'
    BY <1>1, <1>2 DEF Inv, Control, BootPCs, WipePCs
  <1>4. Material' /\ Owner' /\ Gone'
    BY <1>1 DEF Inv, Material, Owner, Doubted, Gone, GoneForGood, Loadable
  <1>5. Kept'
    BY <1>1, <1>2 DEF Inv, Kept, InPlace
  <1>6. Logged'
    <2>1. words \in Nat /\ log.read \in Nat /\ log'.read \in Nat
      BY DEF TypeOK, TypeDisk, TypeHistory
    <2>2. op = "read" => pc["door"] = "read"
      BY DEF Inv, Control
    <2>3. QED
      BY <1>1, <2>1, <2>2 DEF Inv, Logged, ReadIsLogged
  <1>7. QED
    BY <1>3, <1>4, <1>5, <1>6 DEF Inv

(* A failed read keeps the invariant: the door's and the boot's are         *)
(* remembered, the others only change what is said.                         *)
LEMMA MisreadStep ==
    ASSUME TypeOK, TypeOK', Inv, Standing', Blame', Misread
    PROVE  Inv'
  <1> USE DEF Doubted, Inv, TypeOK, TypeDisk, TypeThreads, Threads, At, Goto
  <1>1. CASE BootUnread
    <2>1. Control'
      BY <1>1 DEF BootUnread, Control, BootPCs, WipePCs, StatusPCs
    <2>2. Material'
      <3>1. CASE At("door", "boot_key")
        BY <1>1, <3>1 DEF BootUnread, Material
      <3>2. CASE At("door", "boot_token")
        BY <1>1, <3>2 DEF BootUnread, Material
      <3>3. CASE At("door", "boot_enc")
        BY <1>1, <3>3 DEF BootUnread, Material
      <3>4. QED
        BY <1>1, <3>1, <3>2, <3>3 DEF BootUnread
    <2>3. Owner'
      BY <1>1 DEF BootUnread, Owner
    <2>4. Gone'
      BY <1>1 DEF BootUnread, Gone, GoneForGood, Loadable, Material
    <2>5. Kept'
      BY <1>1 DEF BootUnread, Kept, InPlace, StatusPCs, Control, BootPCs
    <2>6. Logged'
      BY <1>1 DEF BootUnread, Logged, ReadIsLogged, StatusPCs, Control, BootPCs
    <2>7. QED
      BY <2>1, <2>2, <2>3, <2>4, <2>5, <2>6
  <1>2. CASE ReadUnread
    <2>1. Return(FALSE) /\ UNCHANGED <<key, token, enc, minted>>
      BY <1>2 DEF ReadUnread
    <2>2. log'.read >= log.read
      BY <1>2 DEF ReadUnread
    <2>3. QED
      BY <2>1, <2>2, ReturnStep
  <1>3. CASE SealUnread
    <2>1. CASE pc'["door"] = pc["door"]
      <3>1. Quiet
        BY <1>3, <2>1 DEF SealUnread, Quiet
      <3>2. QED
        BY <3>1, QuietStep
    <2>2. CASE pc'["door"] # pc["door"]
      <3>1. /\ UNCHANGED <<diskVars, op, arg, historyVars>>
            /\ pc["door"] = "health" /\ pc'["door"] = "status_read" /\ op = "health"
        BY <1>3, <2>2 DEF SealUnread, Control
      <3>2. /\ UNCHANGED <<key, token, enc, minted, op, arg, historyVars>>
            /\ log'.read >= log.read
        BY <3>1 DEF diskVars
      <3>3. QED
        BY <3>1, <3>2, OnwardStep
    <2>3. QED
      BY <2>1, <2>2
  <1>4. ASSUME AskUnread
        PROVE  Inv'
    <2>1. Control'
      BY <1>4 DEF AskUnread, Control, BootPCs, WipePCs, StatusPCs
    <2>2. Material'
      BY <1>4 DEF AskUnread, Material, Control, BootPCs, diskVars
    <2>3. Owner' /\ Gone'
      BY <1>4 DEF AskUnread, Owner, Gone, GoneForGood, Loadable, diskVars
    <2>4. Kept'
      BY <1>4 DEF AskUnread, Kept, InPlace, StatusPCs, diskVars
    <2>5. Logged'
      BY <1>4 DEF AskUnread, Logged, ReadIsLogged, StatusPCs, diskVars
    <2>6. QED
      BY <2>1, <2>2, <2>3, <2>4, <2>5
  <1>5. ASSUME NEW w \in Threads, StatusUnread(w)
        PROVE  Inv'
    <2>1. Quiet
      BY <1>5 DEF StatusUnread, Quiet, StatusPCs
    <2>2. QED
      BY <2>1, QuietStep
  <1>6. QED
    BY <1>1, <1>2, <1>3, <1>4, <1>5, Misreads

(* The invariant is inductive.  One step per action; write_status and the    *)
(* power thread are quiet, an answer is ReturnStep.                          *)
LEMMA InvStep ==
    ASSUME TypeOK, TypeOK', Inv, [Next]_vars
    PROVE  Inv'
  <1> USE DEF Doubted, Inv, TypeOK, TypeDisk, TypeThreads, Threads, At, Goto
  <1>0. Standing' /\ Blame'
    BY StandingStep, BlameStep
  <1>1. CASE UNCHANGED vars
    BY <1>1, QuietStep, <1>0 DEF vars, Quiet
  <1>2. CASE Age \/ PowerStart \/ PowerTick \/ PowerSend
    <2>1. Quiet
      BY <1>2 DEF Age, PowerStart, PowerTick, PowerSend, Quiet
    <2>2. QED
      BY <2>1, QuietStep, <1>0
  <1>3. ASSUME NEW w \in Threads, StatusRead(w) \/ StatusCount(w) \/ StatusOpen(w)
                                 \/ StatusWrite(w)
        PROVE  Inv'
    <2>1. Quiet
      BY <1>3 DEF StatusRead, StatusCount, StatusOpen, StatusWrite, Quiet, StatusPCs
    <2>2. QED
      BY <2>1, QuietStep, <1>0
  <1>4. ASSUME NEW w \in Threads, StatusRename(w) \/ StatusRenameLost(w) \/ Fault(w)
        PROVE  Inv'
    <2>1. CASE w = "power"
      <3>1. Quiet
        BY <1>4, <2>1 DEF StatusRename, StatusRenameLost, Fault, StatusReturn, Quiet
      <3>2. QED
        BY <3>1, QuietStep, <1>0
    <2>2. CASE w = "door"
      <3>1. UNCHANGED diskVars
        BY <1>4 DEF StatusRename, StatusRenameLost, Fault
      <3>2. PICK ok \in BOOLEAN : Return(ok) /\ (ok => pc["door"] \in StatusPCs)
        <4>1. CASE StatusRename(w)
          BY <2>2, <4>1 DEF StatusRename, StatusReturn, StatusPCs
        <4>2. CASE StatusRenameLost(w) \/ Fault(w)
          BY <2>2, <4>2 DEF StatusRenameLost, Fault, StatusReturn
        <4>3. QED
          BY <1>4, <4>1, <4>2
      <3>3. QED
        BY <3>1, <3>2, ReturnStep, <1>0 DEF diskVars
    <2>3. QED
      BY <2>1, <2>2
  <1>5. CASE AppendGone
    <2>1. Return(FALSE) /\ UNCHANGED diskVars
      BY <1>5 DEF AppendGone
    <2>2. UNCHANGED <<key, token, enc, minted>> /\ log'.read >= log.read
      BY <2>1 DEF diskVars
    <2>3. QED
      BY <2>1, <2>2, ReturnStep, <1>0
  <1>6. CASE Read
    <2>1. CASE Loadable
      <3>1. /\ UNCHANGED <<key, token, enc, minted, op, arg, historyVars>>
            /\ pc["door"] = "read" /\ pc'["door"] = "status_read"
            /\ log'.read = log.read + 1 /\ op = "read"
        BY <1>6, <2>1 DEF Read, Control
      <3>2. log'.read >= log.read
        BY <3>1
      <3>3. QED
        BY <3>1, <3>2, OnwardStep, <1>0
    <2>2. CASE ~Loadable
      <3>1. Return(FALSE) /\ UNCHANGED <<key, token, enc, minted>>
        BY <1>6, <2>2 DEF Read
      <3>2. log'.read >= log.read
        BY <1>6 DEF Read
      <3>3. QED
        BY <3>1, <3>2, ReturnStep, <1>0
    <2>3. QED
      BY <2>1, <2>2
  <1>7. CASE Health
    <2>1. CASE Return(TRUE)
      <3>1. UNCHANGED diskVars /\ pc["door"] = "health"
        BY <1>7 DEF Health
      <3>2. UNCHANGED <<key, token, enc, minted>> /\ log'.read >= log.read
        BY <3>1 DEF diskVars
      <3>3. QED
        BY <2>1, <3>1, <3>2, ReturnStep, <1>0
    <2>2. CASE ~Return(TRUE)
      <3>1. /\ UNCHANGED <<diskVars, op, arg, historyVars>>
            /\ pc["door"] = "health" /\ pc'["door"] = "status_read" /\ op = "health"
        BY <1>7, <2>2 DEF Health, Control
      <3>2. /\ UNCHANGED <<key, token, enc, minted, op, arg, historyVars>>
            /\ log'.read >= log.read
        BY <3>1 DEF diskVars
      <3>3. QED
        BY <3>1, <3>2, OnwardStep, <1>0
    <2>3. QED
      BY <2>1, <2>2
  <1>8. CASE Restart
    <2>1. Control'
      BY <1>8 DEF Restart, Control, BootPCs, WipePCs, StatusPCs, diskVars, historyVars
    <2>2. Material'
      BY <1>8 DEF Restart, Material, Control, BootPCs, diskVars, historyVars
    <2>3. Owner'
      BY <1>8 DEF Restart, Owner, diskVars, historyVars
    <2>4. Gone'
      BY <1>8 DEF Restart, Gone, GoneForGood, Loadable, diskVars, historyVars
    <2>5. Kept'
      BY <1>8 DEF Restart, Kept, InPlace, StatusPCs, diskVars, historyVars
    <2>6. Logged'
      BY <1>8 DEF Restart, Logged, ReadIsLogged, StatusPCs, diskVars, historyVars
    <2>7. QED
      BY <2>1, <2>2, <2>3, <2>4, <2>5, <2>6, <1>0
  <1>9. CASE Crash
    <2>1. Control'
      BY <1>9 DEF Crash, Control, BootPCs, WipePCs, StatusPCs, diskVars, historyVars
    <2>2. Material'
      BY <1>9 DEF Crash, Material, Control, BootPCs, diskVars, historyVars
    <2>3. Owner'
      BY <1>9 DEF Crash, Owner, diskVars, historyVars
    <2>4. Gone'
      BY <1>9 DEF Crash, Gone, GoneForGood, Loadable, diskVars, historyVars
    <2>5. Kept'
      BY <1>9 DEF Crash, Kept, InPlace, StatusPCs, diskVars, historyVars
    <2>6. Logged'
      BY <1>9 DEF Crash, Logged, ReadIsLogged, StatusPCs, diskVars, historyVars
    <2>7. QED
      BY <2>1, <2>2, <2>3, <2>4, <2>5, <2>6, <1>0
  <1>10. CASE AskNoEntry
    <2>1. Control'
      BY <1>10 DEF AskNoEntry, Control, BootPCs, WipePCs, StatusPCs, diskVars, historyVars
    <2>2. Material'
      BY <1>10 DEF AskNoEntry, Material, Control, BootPCs, diskVars, historyVars
    <2>3. Owner'
      BY <1>10 DEF AskNoEntry, Owner, diskVars, historyVars
    <2>4. Gone'
      BY <1>10 DEF AskNoEntry, Gone, GoneForGood, Loadable, diskVars, historyVars
    <2>5. Kept'
      BY <1>10 DEF AskNoEntry, Kept, InPlace, StatusPCs, diskVars, historyVars
    <2>6. Logged'
      BY <1>10 DEF AskNoEntry, Logged, ReadIsLogged, StatusPCs, diskVars, historyVars
    <2>7. QED
      BY <2>1, <2>2, <2>3, <2>4, <2>5, <2>6, <1>0
  <1>11. CASE BootKey
    <2>1. Control'
      BY <1>11 DEF BootKey, Control, BootPCs, WipePCs, StatusPCs, diskVars, historyVars
    <2>2. Material'
      BY <1>11 DEF BootKey, Material, Control, BootPCs, diskVars, historyVars
    <2>3. Owner'
      BY <1>11 DEF BootKey, Owner, diskVars, historyVars
    <2>4. Gone'
      BY <1>11 DEF BootKey, Gone, GoneForGood, Loadable, Material, diskVars, historyVars
    <2>5. Kept'
      BY <1>11 DEF BootKey, Kept, InPlace, StatusPCs, diskVars, historyVars
    <2>6. Logged'
      BY <1>11 DEF BootKey, Logged, ReadIsLogged, StatusPCs, diskVars, historyVars
    <2>7. QED
      BY <2>1, <2>2, <2>3, <2>4, <2>5, <2>6, <1>0
  <1>12. CASE BootToken
    <2>1. Control'
      BY <1>12 DEF BootToken, Control, BootPCs, WipePCs, StatusPCs, diskVars, historyVars
    <2>2. Material'
      BY <1>12 DEF BootToken, Material, Control, BootPCs, diskVars, historyVars
    <2>3. Owner'
      BY <1>12 DEF BootToken, Owner, Control, BootPCs, diskVars, historyVars
    <2>4. Gone'
      BY <1>12 DEF BootToken, Gone, GoneForGood, Loadable, diskVars, historyVars
    <2>5. Kept'
      BY <1>12 DEF BootToken, Kept, InPlace, StatusPCs, diskVars, historyVars
    <2>6. Logged'
      BY <1>12 DEF BootToken, Logged, ReadIsLogged, StatusPCs, diskVars, historyVars
    <2>7. QED
      BY <2>1, <2>2, <2>3, <2>4, <2>5, <2>6, <1>0
  <1>13. CASE BootEnc
    <2>1. Control'
      BY <1>13 DEF BootEnc, Control, BootPCs, WipePCs, StatusPCs, diskVars, historyVars
    <2>2. Material'
      BY <1>13 DEF BootEnc, Material, Control, BootPCs, diskVars, historyVars
    <2>3. Owner'
      BY <1>13 DEF BootEnc, Owner, diskVars, historyVars
    <2>4. Gone'
      BY <1>13 DEF BootEnc, Gone, GoneForGood, Loadable, Material, diskVars, historyVars
    <2>5. Kept'
      BY <1>13 DEF BootEnc, Kept, InPlace, StatusPCs, Control, BootPCs, diskVars, historyVars
    <2>6. Logged'
      BY <1>13 DEF BootEnc, Logged, ReadIsLogged, StatusPCs, Control, BootPCs, diskVars, historyVars
    <2>7. QED
      BY <2>1, <2>2, <2>3, <2>4, <2>5, <2>6, <1>0
  <1>14. CASE AppendWrite
    <2>1. Control'
      BY <1>14 DEF AppendWrite, Control, BootPCs, WipePCs, StatusPCs, diskVars, historyVars
    <2>2. Material'
      BY <1>14 DEF AppendWrite, Material, Control, BootPCs, diskVars, historyVars
    <2>3. Owner'
      BY <1>14 DEF AppendWrite, Owner, diskVars, historyVars
    <2>4. Gone'
      BY <1>14 DEF AppendWrite, Gone, GoneForGood, Loadable, diskVars, historyVars
    <2>5. Kept'
      <3> DEFINE longer == Append(enc.entries, arg)
      <3>1. /\ enc'.entries = longer /\ enc'.kind = enc.kind /\ enc.kind = "sealed"
            /\ UNCHANGED <<op, arg, historyVars>> /\ arg \in Entry
        BY <1>14 DEF AppendWrite, Loadable, Control
      <3>2. /\ longer # <<>> /\ Len(longer) = Len(enc.entries) + 1
            /\ longer[Len(longer)] = arg /\ Len(enc.entries) \in Nat
            /\ \A i \in 1..Len(enc.entries) : longer[i] = enc.entries[i]
        <4>1. enc.entries \in Seq(Entry)
          OBVIOUS
        <4> HIDE DEF Inv, TypeOK, TypeDisk
        <4>2. QED
          BY <3>1, <4>1
      <3> HIDE DEF longer
      <3>3. InPlace'
        <4>1. UNCHANGED <<wiped, acked, mistaken>>
          BY <3>1 DEF historyVars
        <4>2. InPlace
          BY DEF Kept
        <4> HIDE DEF Inv, TypeOK, TypeDisk
        <4>3. QED
          BY <3>1, <3>2, <4>1, <4>2 DEF InPlace
      <3>4. QED
        BY <3>1, <3>2, <3>3 DEF Kept
    <2>6. Logged'
      BY <1>14 DEF AppendWrite, Logged, ReadIsLogged, StatusPCs, diskVars, historyVars
    <2>7. QED
      BY <2>1, <2>2, <2>3, <2>4, <2>5, <2>6, <1>0
  <1>15. CASE AppendLog
    <2>1. Control'
      BY <1>15 DEF AppendLog, Control, BootPCs, WipePCs, StatusPCs, diskVars, historyVars
    <2>2. Material'
      BY <1>15 DEF AppendLog, Material, Control, BootPCs, diskVars, historyVars
    <2>3. Owner'
      BY <1>15 DEF AppendLog, Owner, diskVars, historyVars
    <2>4. Gone'
      BY <1>15 DEF AppendLog, Gone, GoneForGood, Loadable, diskVars, historyVars
    <2>5. Kept'
      BY <1>15 DEF AppendLog, Kept, InPlace, StatusPCs, Control, diskVars, historyVars
    <2>6. Logged'
      BY <1>15 DEF AppendLog, Logged, ReadIsLogged, StatusPCs, Control, TypeHistory, diskVars, historyVars
    <2>7. QED
      BY <2>1, <2>2, <2>3, <2>4, <2>5, <2>6, <1>0
  <1>16. CASE WipeKey
    <2>1. Control'
      BY <1>16 DEF WipeKey, Control, BootPCs, WipePCs, StatusPCs, diskVars, historyVars
    <2>2. Material'
      BY <1>16 DEF WipeKey, Material, Control, BootPCs, diskVars, historyVars
    <2>3. Owner'
      BY <1>16 DEF WipeKey, Owner, diskVars, historyVars
    <2>4. Gone'
      BY <1>16 DEF WipeKey, Gone, GoneForGood, Loadable, Control, WipePCs, diskVars, historyVars
    <2>5. Kept'
      BY <1>16 DEF WipeKey, Kept, InPlace, StatusPCs, diskVars, historyVars
    <2>6. Logged'
      BY <1>16 DEF WipeKey, Logged, ReadIsLogged, StatusPCs, diskVars, historyVars
    <2>7. QED
      BY <2>1, <2>2, <2>3, <2>4, <2>5, <2>6, <1>0
  <1>17. CASE WipeToken
    <2>1. Control'
      BY <1>17 DEF WipeToken, Control, BootPCs, WipePCs, StatusPCs, diskVars, historyVars
    <2>2. Material'
      BY <1>17 DEF WipeToken, Material, Control, BootPCs, diskVars, historyVars
    <2>3. Owner'
      BY <1>17 DEF WipeToken, Owner, Control, WipePCs, diskVars, historyVars
    <2>4. Gone'
      BY <1>17 DEF WipeToken, Gone, GoneForGood, Loadable, diskVars, historyVars
    <2>5. Kept'
      BY <1>17 DEF WipeToken, Kept, InPlace, StatusPCs, diskVars, historyVars
    <2>6. Logged'
      BY <1>17 DEF WipeToken, Logged, ReadIsLogged, StatusPCs, diskVars, historyVars
    <2>7. QED
      BY <2>1, <2>2, <2>3, <2>4, <2>5, <2>6, <1>0
  <1>18. CASE WipeEnc
    <2>1. Control'
      BY <1>18 DEF WipeEnc, Control, BootPCs, WipePCs, StatusPCs, diskVars, historyVars
    <2>2. Material'
      BY <1>18 DEF WipeEnc, Material, Control, BootPCs, diskVars, historyVars
    <2>3. Owner'
      BY <1>18 DEF WipeEnc, Owner, diskVars, historyVars
    <2>4. Gone'
      BY <1>18 DEF WipeEnc, Gone, GoneForGood, Loadable, Control, WipePCs, diskVars, historyVars
    <2>5. Kept'
      BY <1>18 DEF WipeEnc, Kept, InPlace, StatusPCs, diskVars, historyVars
    <2>6. Logged'
      BY <1>18 DEF WipeEnc, Logged, ReadIsLogged, StatusPCs, diskVars, historyVars
    <2>7. QED
      BY <2>1, <2>2, <2>3, <2>4, <2>5, <2>6, <1>0
  <1>19. CASE WipeMarker
    <2>1. Control'
      BY <1>19 DEF WipeMarker, Control, BootPCs, WipePCs, StatusPCs, diskVars, historyVars
    <2>2. Material'
      BY <1>19 DEF WipeMarker, Material, Control, BootPCs, diskVars, historyVars
    <2>3. Owner'
      BY <1>19 DEF WipeMarker, Owner, diskVars, historyVars
    <2>4. Gone'
      BY <1>19 DEF WipeMarker, Gone, GoneForGood, Loadable, diskVars, historyVars
    <2>5. Kept'
      BY <1>19 DEF WipeMarker, Kept, InPlace, StatusPCs, diskVars, historyVars
    <2>6. Logged'
      BY <1>19 DEF WipeMarker, Logged, ReadIsLogged, StatusPCs, diskVars, historyVars
    <2>7. QED
      BY <2>1, <2>2, <2>3, <2>4, <2>5, <2>6, <1>0
  <1>20. CASE WipeLog
    <2>1. Control'
      BY <1>20 DEF WipeLog, Control, BootPCs, WipePCs, StatusPCs, diskVars, historyVars
    <2>2. Material'
      BY <1>20 DEF WipeLog, Material, Control, BootPCs, diskVars, historyVars
    <2>3. Owner'
      BY <1>20 DEF WipeLog, Owner, diskVars, historyVars
    <2>4. Gone'
      BY <1>20 DEF WipeLog, Gone, GoneForGood, Loadable, diskVars, historyVars
    <2>5. Kept'
      BY <1>20 DEF WipeLog, Kept, InPlace, StatusPCs, Control, WipePCs, diskVars, historyVars
    <2>6. Logged'
      BY <1>20 DEF WipeLog, Logged, ReadIsLogged, StatusPCs, Control, WipePCs, TypeHistory, diskVars, historyVars
    <2>7. QED
      BY <2>1, <2>2, <2>3, <2>4, <2>5, <2>6, <1>0
  <1>21. ASSUME NEW cmd \in {"append", "read", "health"}, NEW presented \in {0, held},
                NEW e \in Entry \cup {NoEntry}, cmd = "append" => e \in Entry,
                Ask(cmd, presented, e)
        PROVE  Inv'
    <2>1. Control'
      BY <1>21 DEF Ask, Control, BootPCs, WipePCs, StatusPCs, check_token, Owner, diskVars
    <2>2. Material'
      BY <1>21 DEF Ask, Material, Control, BootPCs, diskVars
    <2>3. Owner'
      BY <1>21 DEF Ask, Owner, diskVars
    <2>4. Gone'
      BY <1>21 DEF Ask, Gone, GoneForGood, Loadable, diskVars
    <2>5. Kept'
      BY <1>21 DEF Ask, Kept, InPlace, StatusPCs, diskVars
    <2>6. Logged'
      BY <1>21 DEF Ask, Logged, ReadIsLogged, StatusPCs, diskVars
    <2>7. QED
      BY <2>1, <2>2, <2>3, <2>4, <2>5, <2>6, <1>0
  <1>22. CASE Misread
    BY <1>22, <1>0, MisreadStep
  <1>23. QED
    BY <1>1, <1>2, <1>3, <1>4, <1>5, <1>6, <1>7, <1>8, <1>9, <1>10, <1>11, <1>12, <1>13, <1>14, <1>15, <1>16, <1>17, <1>18, <1>19, <1>20, <1>21, <1>22, Steps, ZenonT(40)
-----------------------------------------------------------------------------
(* The first state. *)
LEMMA InitInv ==
    ASSUME Init
    PROVE  TypeOK /\ Inv
  <1> USE DEF Init, Threads, NoStatus, NoFile
  <1>1. TypeDisk
    <2>1. <<>> \in Seq(Entry)
      OBVIOUS
    <2>2. enc \in [kind : {"absent", "sealed", "nul"}, by : Nat, entries : Seq(Entry)]
      BY <2>1
    <2>3. QED
      BY <2>2 DEF TypeDisk
  <1>2. TypeStatus
    BY DEF TypeStatus, Content, Status
  <1>3. TypeThreads
    BY DEF TypeThreads, DoorPCs, PowerPCs, Ops
  <1>4. TypeHistory
    BY DEF TypeHistory, Codes
  <1>5. Control /\ Material /\ Owner /\ Gone
    BY DEF Control, Material, Owner, Gone, GoneForGood, Loadable, BootPCs, WipePCs
  <1>6. Kept /\ Logged
    BY DEF Kept, InPlace, Logged, ReadIsLogged, StatusPCs
  <1>7. Standing /\ Blame
    BY DEF Standing, Blame
  <1>8. QED
    BY <1>1, <1>2, <1>3, <1>4, <1>5, <1>6, <1>7 DEF TypeOK, Inv

(* The files, the two threads and what the clients know keep their types,   *)
(* and the inductive invariant holds, in every state the cortex can reach.  *)
THEOREM VaultInvariant == Spec => [](TypeOK /\ Inv)
  <1>1. Init => TypeOK /\ Inv
    BY InitInv
  <1>2. TypeOK /\ Inv /\ [Next]_vars => (TypeOK /\ Inv)'
    <2> SUFFICES ASSUME TypeOK, Inv, [Next]_vars
                 PROVE  (TypeOK /\ Inv)'
      OBVIOUS
    <2>1. TypeOK'
      BY TypeStep DEF Inv
    <2>2. QED
      BY <2>1, InvStep
  <1>3. QED
    BY <1>1, <1>2, PTL DEF Spec

(* vault.rs keeps its types: no file, thread or answer is ever ill-formed. *)
THEOREM VaultTypes == Spec => []TypeOK
  BY VaultInvariant, PTL

(* A wiped journal never opens again, however many crashes, failed writes, *)
(* failed reads and boots with new keys follow, unless a boot took the     *)
(* NULs for a missing file and cut an empty journal over them.             *)
THEOREM GoneForGoodHolds == Spec => []GoneForGood
  <1>1. Inv => GoneForGood
    BY DEF Inv, Gone
  <1>2. QED
    BY <1>1, VaultInvariant, PTL

(* What append_response acknowledged stays in the journal, and the journal *)
(* opens, until a wipe: while no boot has taken key.bin or vault.enc for   *)
(* missing because it could not look.                                      *)
THEOREM JournalKeptHolds == Spec => []JournalKept
  <1>1. TypeOK /\ Inv => JournalKept
    <2> SUFFICES ASSUME TypeOK, Inv, ~wiped, mistaken \cap {"key", "enc"} = {},
                        NEW a \in acked
                 PROVE  Loadable /\ a.n \in 1..Len(enc.entries)
                        /\ enc.entries[a.n] = a.entry
      BY DEF JournalKept
    <2>1. a.n \in 1..Len(enc.entries) /\ enc.entries[a.n] = a.entry
      BY DEF Inv, Kept, InPlace
    <2>2. enc.kind # "absent" /\ enc.kind # "nul"
      BY DEF Inv, Kept, Gone
    <2>3. enc.kind = "sealed"
      BY <2>2 DEF TypeOK, TypeDisk
    <2>4. QED
      BY <2>1, <2>3 DEF Inv, Standing
  <1>2. QED
    BY <1>1, VaultInvariant, PTL

(* Nobody who keeps presenting the token of the birth sets off the wipe,   *)
(* not even by restarting the cortex in the middle of ensure(), nor by any *)
(* file operation that fails, but for the two reads of token.bin itself:   *)
(* the door's, which makes a wipe of the request, and exists() in          *)
(* ensure(), after which the token of the birth is no longer the token.    *)
THEOREM OnlyAStrangerWipesHolds == Spec => []OnlyAStrangerWipes
  <1>1. Inv => OnlyAStrangerWipes
    BY DEF Inv, Gone, Doubted, OnlyAStrangerWipes
  <1>2. QED
    BY <1>1, VaultInvariant, PTL

(* No words leave without a READ line already in access.log. *)
THEOREM ReadIsLoggedHolds == Spec => []ReadIsLogged
  <1>1. Inv => ReadIsLogged
    BY DEF Inv, Logged
  <1>2. QED
    BY <1>1, VaultInvariant, PTL
-----------------------------------------------------------------------------
(* A step of the files is a step of the abstract seal, or none. *)
LEMMA SealStep ==
    ASSUME TypeOK, Inv, [Next]_vars
    PROVE  [S!Next]_(S!vars)
  <1> USE DEF S!Next, S!vars, S!Create, S!Write, S!Destroy, phase, journal, Alive, Loadable
  <1>1. CASE Misread
    <2>1. CASE BootUnread
      <3>1. CASE At("door", "boot_key")
        BY <2>1, <3>1 DEF BootUnread, At, Inv, Material, TypeOK, TypeDisk
      <3>2. CASE At("door", "boot_token")
        BY <2>1, <3>2 DEF BootUnread, At
      <3>3. CASE At("door", "boot_enc")
        BY <2>1, <3>3 DEF BootUnread, At
      <3>4. QED
        BY <2>1, <3>1, <3>2, <3>3 DEF BootUnread
    <2>2. CASE ReadUnread \/ SealUnread
      <3>1. UNCHANGED <<key, enc, mistaken>>
        BY <2>2 DEF ReadUnread, SealUnread, diskVars, historyVars, Return, Answer
      <3>2. QED
        BY <3>1
    <2>3. ASSUME AskUnread
          PROVE  UNCHANGED <<phase, journal>>
      <3>1. UNCHANGED <<key, enc>> /\ mistaken' = mistaken \cup {"ask"}
        BY <2>3 DEF AskUnread, diskVars
      <3>2. QED
        BY <3>1
    <2>4. ASSUME NEW w, StatusUnread(w)
          PROVE  UNCHANGED <<phase, journal>>
      <3>1. UNCHANGED <<key, enc, mistaken>>
        BY <2>4 DEF StatusUnread, diskVars, historyVars
      <3>2. QED
        BY <3>1
    <2>5. QED
      BY <1>1, <2>1, <2>2, <2>3, <2>4, Misreads
  <1>2. ~Misread => mistaken' = mistaken
    BY WipedStays
  <1>3. CASE UNCHANGED <<key, enc>> /\ ~Misread
    BY <1>2, <1>3
  <1>4. CASE BootKey /\ ~Misread
    BY <1>2, <1>4 DEF BootKey, Inv, Material, TypeOK, TypeDisk
  <1>5. CASE BootEnc /\ ~Misread
    BY <1>2, <1>5 DEF BootEnc, At, Inv, Material, Blame, TypeOK, TypeDisk
  <1>6. CASE AppendWrite /\ ~Misread
    <2>1. arg \in Entry
      BY <1>6 DEF AppendWrite, At, Inv, Control
    <2>2. QED
      BY <1>2, <1>6, <2>1 DEF AppendWrite, TypeOK, TypeDisk
  <1>7. CASE WipeKey
    BY <1>7 DEF WipeKey
  <1>8. CASE WipeEnc
    BY <1>8 DEF WipeEnc
  <1>9. CASE ~Misread /\ (BootToken \/ AppendLog \/ Read \/ WipeToken \/ WipeMarker \/ WipeLog)
    BY <1>3, <1>9 DEF BootToken, AppendLog, Read, WipeToken, WipeMarker, WipeLog
  <1>10. UNCHANGED diskVars => UNCHANGED <<key, enc>>
    BY DEF diskVars
  <1>11. QED
    BY <1>1, <1>3, <1>4, <1>5, <1>6, <1>7, <1>8, <1>9, <1>10, DiskFrame, Zenon
       DEF Ensure, Wipe

(* vault.rs implements the seal its header describes: born once, growing   *)
(* only by whole entries, and once destroyed, gone.                        *)
THEOREM VaultImplementsSeal == Spec => SealSpec
  <1>1. Init => S!Init
    BY DEF Init, S!Init, phase, journal, Alive, Loadable
  <1>2. TypeOK /\ Inv /\ [Next]_vars => [S!Next]_(S!vars)
    BY SealStep
  <1>3. QED
    BY <1>1, <1>2, VaultInvariant, PTL DEF Spec, SealSpec, S!Spec
-----------------------------------------------------------------------------
(* How far the wipe has come: the keys, the token, the journal and the     *)
(* marker go in this order, so a wipe that is answered has done all four.  *)
Wiping ==
    op = "wipe" =>
        /\ pc["door"] # "wipe_key" => key = 0
        /\ pc["door"] \notin {"wipe_key", "wipe_token"} => token = 0
        /\ pc["door"] \in {"wipe_marker", "wipe_log"} \cup StatusPCs => enc.kind = "nul"
        /\ pc["door"] \in {"wipe_log"} \cup StatusPCs => marker

(* The cortex is down, or main() is still in ensure(). *)
Booting == pc["door"] \in {"down"} \cup BootPCs \/ op = "ensure"

(* The thread has read the seal and has not yet left write_status. *)
Writing(w) == pc[w] \in StatusPCs \ {"status_read"}

SaysSealed(f) == f.text = "whole" /\ f.s.sealed
SaysBroken(f) == f.text = "whole" /\ ~f.s.sealed

(* The power thread starts after ensure(), and a status lives no longer    *)
(* than the call that reads it.                                            *)
Staged ==
    /\ Booting => pc["power"] = "off"
    /\ \A w \in Threads : ~Writing(w) => ~snap[w].sealed

(* With no failing disk, ensure() leaves a journal behind, and status.tmp   *)
(* is there only while a thread stands between its open and its rename.     *)
Filed ==
    faults = 0 =>
        /\ pc["door"] \notin {"down"} \cup BootPCs => enc.kind # "absent"
        /\ ~Booting /\ tmp.text # "none"
             => \E w \in Threads : pc[w] \in {"status_write", "status_rename"}

(* Before a wipe nothing says that the seal is broken. *)
Before ==
    faults = 0 /\ ~wiped =>
        /\ ~SaysBroken(json) /\ ~SaysBroken(tmp)
        /\ \A w \in Threads : Writing(w) => snap[w].sealed
        /\ pc["power"] # "off" /\ last_seal.said = "status" => last_seal.sealed

(* After a wipe only what the power thread read before it still says        *)
(* sealed; once the feed has shown the broken seal, nothing does.           *)
After ==
    faults = 0 /\ wiped =>
        /\ ~snap["door"].sealed
        /\ ~Booting /\ SaysSealed(tmp) => snap["power"].sealed
        /\ pc["power"] # "off" /\ last_seal.said = "status" /\ ~last_seal.sealed
             => ~SaysSealed(json) /\ ~snap["power"].sealed

Shown == Wiping /\ Staged /\ Filed /\ Before /\ After

(* A wipe moves through its steps in order and nothing undoes them on the way. *)
LEMMA WipingStep ==
    ASSUME TypeOK, Inv, Wiping, [Next]_vars
    PROVE  Wiping'
  <1> USE DEF Wiping, Inv, Control, BootPCs, WipePCs, StatusPCs, TypeOK, TypeThreads,
              Threads, At, Goto
  <1>1. CASE UNCHANGED vars
    BY <1>1 DEF vars, diskVars
  <1>2. CASE Restart \/ BootKey \/ BootToken \/ BootEnc \/ AskNoEntry
    BY <1>2 DEF Restart, BootKey, BootToken, BootEnc, AskNoEntry, diskVars
  <1>3. ASSUME NEW cmd \in {"append", "read", "health"}, NEW presented \in {0, held},
               NEW e \in Entry \cup {NoEntry}, Ask(cmd, presented, e)
        PROVE  Wiping'
    BY <1>3 DEF Ask
  <1>4. CASE AppendWrite \/ AppendLog \/ AppendGone \/ Read \/ Health
    BY <1>4 DEF AppendWrite, AppendLog, AppendGone, Read, Health, Return, Answer
  <1>5. CASE WipeKey \/ WipeToken \/ WipeEnc
    BY <1>5 DEF WipeKey, WipeToken, WipeEnc
  <1>6. CASE WipeMarker \/ WipeLog
    BY <1>6 DEF WipeMarker, WipeLog
  <1>7. CASE Age \/ PowerStart \/ PowerTick \/ PowerSend
    BY <1>7 DEF Age, PowerStart, PowerTick, PowerSend, diskVars
  <1>8. CASE Crash
    BY <1>8 DEF Crash
  <1>9. ASSUME NEW w \in Threads, StatusRead(w) \/ StatusCount(w) \/ StatusOpen(w)
                                 \/ StatusWrite(w)
        PROVE  Wiping'
    BY <1>9 DEF StatusRead, StatusCount, StatusOpen, StatusWrite, diskVars
  <1>10. ASSUME NEW w \in Threads, StatusRename(w) \/ StatusRenameLost(w) \/ Fault(w)
         PROVE  Wiping'
    <2>1. CASE w = "power"
      BY <1>10, <2>1 DEF StatusRename, StatusRenameLost, Fault, StatusReturn, diskVars
    <2>2. CASE w = "door"
      <3>1. op' = "none"
        BY <1>10, <2>2 DEF StatusRename, StatusRenameLost, Fault, StatusReturn, Return,
           Answer
      <3>2. QED
        BY <3>1
    <2>3. QED
      BY <2>1, <2>2
  <1>11. CASE Misread
    <2>1. CASE BootUnread
      BY <2>1 DEF BootUnread
    <2>2. CASE ReadUnread
      BY <2>2 DEF ReadUnread, Return, Answer
    <2>3. CASE SealUnread
      BY <2>3 DEF SealUnread, diskVars
    <2>4. ASSUME AskUnread
          PROVE  Wiping'
      BY <2>4 DEF AskUnread
    <2>5. ASSUME NEW w \in Threads, StatusUnread(w)
          PROVE  Wiping'
      BY <2>5 DEF StatusUnread, diskVars
    <2>6. QED
      BY <1>11, <2>1, <2>2, <2>3, <2>4, <2>5, Misreads
  <1>12. QED
    BY <1>1, <1>2, <1>3, <1>4, <1>5, <1>6, <1>7, <1>8, <1>9, <1>10, <1>11, Steps, Zenon

(* A step of the door outside write_status: the public status, the feed and *)
(* the power thread are as they were.                                       *)
DoorQuiet ==
    /\ UNCHANGED <<statusVars, faults>>
    /\ pc'["power"] = pc["power"]
    /\ ~Writing("door") /\ ~Writing("door")'
    /\ Booting' <=> Booting

(* Every step is one of these, as far as the status and the feed go. *)
LEMMA StatusSteps ==
    ASSUME TypeOK, Inv, [Next]_vars
    PROVE  \/ UNCHANGED vars
           \/ DoorQuiet
           \/ Age \/ PowerStart \/ PowerTick \/ PowerSend \/ Crash \/ Misread
           \/ \E w \in Threads :
                \/ StatusRead(w) \/ StatusCount(w) \/ StatusOpen(w)
                \/ StatusWrite(w) \/ StatusRename(w) \/ StatusRenameLost(w)
                \/ Fault(w)
  <1> USE DEF DoorQuiet, Writing, Booting, Inv, Control, BootPCs, WipePCs, StatusPCs,
              TypeOK, TypeThreads, Threads, At, Goto
  <1>1. CASE Restart \/ BootKey \/ BootToken \/ BootEnc \/ AskNoEntry
    BY <1>1 DEF Restart, BootKey, BootToken, BootEnc, AskNoEntry
  <1>2. ASSUME NEW cmd \in {"append", "read", "health"}, NEW presented \in {0, held},
               NEW e \in Entry \cup {NoEntry}, Ask(cmd, presented, e)
        PROVE  DoorQuiet
    BY <1>2 DEF Ask
  <1>3. CASE AppendWrite \/ AppendLog \/ AppendGone
    BY <1>3 DEF AppendWrite, AppendLog, AppendGone, Return, Answer
  <1>4. CASE Read \/ Health
    BY <1>4 DEF Read, Health, Return, Answer
  <1>5. CASE WipeKey \/ WipeToken \/ WipeEnc \/ WipeMarker \/ WipeLog
    BY <1>5 DEF WipeKey, WipeToken, WipeEnc, WipeMarker, WipeLog
  <1>6. QED
    BY <1>1, <1>2, <1>3, <1>4, <1>5, Steps, Zenon

(* What write_status leaves in a file is what it set out to write, or torn. *)
LEMMA WrittenOver ==
    ASSUME NEW old, NEW s, NEW f \in Overwritten(old, s)
    PROVE  (SaysSealed(f) => s.sealed) /\ (SaysBroken(f) => ~s.sealed)
  BY DEF Overwritten, SaysSealed, SaysBroken, Whole, Torn

(* The seal a thread reads is what the files say at that moment. *)
LEMMA SnapRead ==
    ASSUME TypeOK, NEW w \in Threads, StatusRead(w)
    PROVE  /\ snap'[w].sealed <=> Loadable
           /\ \A t \in Threads \ {w} : snap'[t] = snap[t]
  <1>1. snap' = [snap EXCEPT ![w].sealed = Loadable] /\ snap \in [Threads -> Status]
    BY DEF StatusRead, TypeOK, TypeStatus
  <1>2. snap'[w] = [snap[w] EXCEPT !.sealed = Loadable]
    BY <1>1
  <1>3. snap'[w].sealed = Loadable
    BY <1>1, <1>2 DEF Status
  <1>4. QED
    BY <1>1, <1>3

(* The other steps of write_status leave the seal that was read alone; the  *)
(* end of it forgets that seal.                                             *)
LEMMA SnapKept ==
    ASSUME TypeOK, NEW w \in Threads, StatusCount(w) \/ StatusOpen(w) \/ StatusWrite(w)
    PROVE  \A t \in Threads : snap'[t].sealed = snap[t].sealed
  <1>1. snap \in [Threads -> Status]
    BY DEF TypeOK, TypeStatus
  <1>2. CASE StatusCount(w)
    <2> DEFINE n == IF Loadable THEN Len(enc.entries) ELSE 0
    <2>1. snap' = [snap EXCEPT ![w].entries = n]
      BY <1>2 DEF StatusCount
    <2> HIDE DEF n
    <2>2. snap' = [snap EXCEPT ![w] = [snap[w] EXCEPT !.entries = n]]
      BY <2>1
    <2>3. [snap[w] EXCEPT !.entries = n].sealed = snap[w].sealed
      BY <1>1 DEF Status
    <2>4. QED
      BY <1>1, <2>2, <2>3
  <1>3. CASE StatusOpen(w) \/ StatusWrite(w)
    BY <1>3 DEF StatusOpen, StatusWrite
  <1>4. QED
    BY <1>2, <1>3

(* The end of write_status forgets the seal that was read. *)
LEMMA SnapGone ==
    ASSUME TypeOK, NEW w \in Threads, StatusRename(w) \/ StatusRenameLost(w) \/ Fault(w)
    PROVE  /\ ~snap'[w].sealed
           /\ \A t \in Threads \ {w} : snap'[t] = snap[t]
  <1>1. snap \in [Threads -> Status]
    BY DEF TypeOK, TypeStatus
  <1>2. snap' = [snap EXCEPT ![w] = NoStatus]
    BY DEF StatusRename, StatusRenameLost, Fault, StatusReturn
  <1>3. ~NoStatus.sealed
    BY DEF NoStatus
  <1>4. QED
    BY <1>1, <1>2, <1>3

(* Inside write_status a thread goes from one step to the next, the other   *)
(* stays where it is.                                                       *)
LEMMA WriterMoves ==
    ASSUME TypeOK, Inv, NEW w \in Threads
    PROVE  /\ StatusRead(w) => pc[w] = "status_read" /\ pc' = [pc EXCEPT ![w] = "status_count"]
           /\ StatusCount(w) => pc[w] = "status_count" /\ pc' = [pc EXCEPT ![w] = "status_open"]
           /\ StatusOpen(w) => pc[w] = "status_open" /\ pc' = [pc EXCEPT ![w] = "status_write"]
           /\ StatusWrite(w) => pc[w] = "status_write" /\ pc' = [pc EXCEPT ![w] = "status_rename"]
           /\ StatusRename(w) \/ StatusRenameLost(w)
                => /\ pc[w] = "status_rename"
                   /\ pc' = [pc EXCEPT ![w] = IF w = "door" THEN "idle" ELSE "seal_read"]
                   /\ op' = IF w = "door" THEN "none" ELSE op
           /\ Fault(w)
                => /\ pc' = [pc EXCEPT ![w] = IF w = "door" THEN "idle" ELSE "seal_read"]
                   /\ op' = IF w = "door" THEN "none" ELSE op
           /\ StatusRead(w) \/ StatusCount(w) \/ StatusOpen(w) \/ StatusWrite(w)
                => op' = op
  <1>1. ASSUME NEW ok \in BOOLEAN, StatusReturn(w, ok)
        PROVE  /\ pc' = [pc EXCEPT ![w] = IF w = "door" THEN "idle" ELSE "seal_read"]
               /\ op' = IF w = "door" THEN "none" ELSE op
    <2>1. CASE w = "door"
      BY <1>1, <2>1 DEF StatusReturn, Return, Answer, Goto
    <2>2. CASE w = "power"
      BY <1>1, <2>2 DEF StatusReturn, Goto
    <2>3. QED
      BY <2>1, <2>2 DEF Threads
  <1>2. StatusRename(w) => pc[w] = "status_rename" /\ StatusReturn(w, TRUE)
    BY DEF StatusRename, At
  <1>3. StatusRenameLost(w) => pc[w] = "status_rename" /\ StatusReturn(w, FALSE)
    BY DEF StatusRenameLost, At
  <1>4. Fault(w) => StatusReturn(w, FALSE)
    BY DEF Fault
  <1>5. QED
    BY <1>1, <1>2, <1>3, <1>4 DEF StatusRead, StatusCount, StatusOpen, StatusWrite, At, Goto

(* The power thread waits for ensure(), and nobody keeps a seal for later. *)
LEMMA StagedStep ==
    ASSUME TypeOK, Inv, Staged, [Next]_vars
    PROVE  Staged'
  <1> USE DEF Staged
  <1>1. CASE UNCHANGED vars
    BY <1>1 DEF vars, statusVars, Writing, Booting
  <1>2. CASE DoorQuiet
    <2>1. snap' = snap /\ \A w \in Threads : Writing(w)' <=> Writing(w)
      BY <1>2 DEF DoorQuiet, statusVars, Writing, Threads
    <2>2. QED
      BY <1>2, <2>1 DEF DoorQuiet
  <1>3. CASE Age
    BY <1>3 DEF Age, Writing, Booting
  <1>4. CASE PowerStart \/ PowerTick \/ PowerSend
    <2>1. /\ UNCHANGED <<snap, op>> /\ pc'["door"] = pc["door"]
          /\ ~Booting
          /\ ~Writing("power") /\ ~Writing("power")'
      BY <1>4 DEF PowerStart, PowerTick, PowerSend, Writing, Booting, Staged, StatusPCs,
         At, Goto, TypeOK, TypeThreads, Threads, BootPCs, Inv, Control, DoorPCs
    <2>2. QED
      BY <2>1 DEF Writing, Booting, Threads
  <1>5. CASE Crash
    BY <1>5 DEF Crash, Writing, StatusPCs, NoStatus, Threads
  <1>6. ASSUME NEW w \in Threads, StatusRead(w)
        PROVE  Staged'
    BY <1>6, WriterMoves, SnapRead DEF Writing, Booting, StatusPCs, BootPCs, TypeOK,
       TypeThreads, Threads
  <1>7. ASSUME NEW w \in Threads, StatusCount(w) \/ StatusOpen(w) \/ StatusWrite(w)
        PROVE  Staged'
    BY <1>7, WriterMoves, SnapKept DEF Writing, Booting, StatusPCs, BootPCs, TypeOK,
       TypeThreads, Threads
  <1>8. ASSUME NEW w \in Threads, StatusRename(w) \/ StatusRenameLost(w) \/ Fault(w)
        PROVE  Staged'
    <2>1. ~snap'[w].sealed /\ \A t \in Threads \ {w} : snap'[t] = snap[t] /\ pc'[t] = pc[t]
      BY <1>8, WriterMoves, SnapGone DEF TypeOK, TypeThreads
    <2>2. \A t \in Threads : ~Writing(t)' => ~snap'[t].sealed
      BY <2>1 DEF Writing
    <2>3. CASE w = "door"
      <3>1. ~Booting'
        BY <1>8, <2>3, WriterMoves DEF Booting, BootPCs, TypeOK, TypeThreads, Threads
      <3>2. QED
        BY <2>2, <3>1
    <2>4. CASE w = "power"
      <3>1. pc["power"] # "off" /\ (Booting' => Booting)
        BY <1>8, <2>4, WriterMoves DEF Booting, BootPCs, Fault, TypeOK, TypeThreads, Threads
      <3>2. QED
        BY <2>2, <3>1
    <2>5. QED
      BY <2>3, <2>4 DEF Threads
  <1>9. CASE Misread
    <2>1. ASSUME UNCHANGED statusVars, pc'["power"] = pc["power"], ~Writing("door")',
                 ~Writing("door"), Booting' <=> Booting
          PROVE  Staged'
      <3>1. snap' = snap /\ \A w \in Threads : Writing(w)' <=> Writing(w)
        BY <2>1 DEF statusVars, Writing, Threads
      <3>2. QED
        BY <2>1, <3>1
    <2>2. CASE BootUnread \/ ReadUnread
      BY <2>1, <2>2 DEF BootUnread, ReadUnread, Return, Answer, Writing, Booting, BootPCs,
         StatusPCs, Inv, Control, At, Goto, TypeOK, TypeThreads, Threads
    <2>3. ASSUME AskUnread
          PROVE  Staged'
      BY <2>1, <2>3 DEF AskUnread, Writing, Booting, BootPCs, StatusPCs, Inv, Control, At,
         Goto, TypeOK, TypeThreads, Threads
    <2>4. CASE SealUnread
      <3>1. /\ UNCHANGED <<snap, op>>
            /\ \A w \in Threads : ~Writing(w)' \/ (Writing(w) /\ pc'[w] = pc[w])
            /\ \A w \in Threads : Writing(w)' <=> Writing(w)
        BY <2>4 DEF SealUnread, Writing, StatusPCs, At, Goto, TypeOK, TypeThreads, Threads
      <3>2. (Booting' => Booting) /\ (pc["power"] = "off" => pc'["power"] = "off")
        BY <2>4 DEF SealUnread, Booting, BootPCs, At, Goto, TypeOK, TypeThreads, Threads
      <3>3. QED
        BY <3>1, <3>2
    <2>5. ASSUME NEW w \in Threads, StatusUnread(w)
          PROVE  Staged'
      <3>1. /\ pc[w] \in {"status_read", "status_count"} /\ Writing(w)'
            /\ \A t \in Threads \ {w} : pc'[t] = pc[t] /\ snap'[t] = snap[t]
        BY <2>5 DEF StatusUnread, Writing, StatusPCs, At, Goto, TypeOK, TypeThreads,
           TypeStatus, Threads
      <3>2. (Booting' => Booting) /\ (pc["power"] = "off" => pc'["power"] = "off")
        BY <2>5 DEF StatusUnread, Booting, BootPCs, At, Goto, TypeOK, TypeThreads, Threads
      <3>3. \A t \in Threads : ~Writing(t)' => ~snap'[t].sealed
        BY <3>1 DEF Writing
      <3>4. QED
        BY <3>2, <3>3
    <2>6. QED
      BY <1>9, <2>2, <2>3, <2>4, <2>5, Misreads
  <1>10. QED
    BY <1>1, <1>2, <1>3, <1>4, <1>5, <1>6, <1>7, <1>8, <1>9, StatusSteps, Zenon

(* The file status.tmp after each step that touches it. *)
LEMMA TmpMoves ==
    ASSUME TypeOK, NEW w \in Threads
    PROVE  /\ StatusRead(w) \/ StatusCount(w) => UNCHANGED <<json, tmp, last_seal>>
           /\ StatusOpen(w)
                => /\ UNCHANGED <<json, last_seal>>
                   /\ tmp'.text = "empty"
           /\ StatusWrite(w)
                => /\ UNCHANGED last_seal
                   /\ json' = json \/ json' \in Overwritten(json, snap[w])
                   /\ tmp' = tmp \/ tmp' \in Overwritten(tmp, snap[w])
           /\ StatusRename(w)
                => UNCHANGED last_seal /\ json' = tmp /\ tmp'.text = "none"
           /\ StatusRenameLost(w)
                => UNCHANGED <<json, tmp, last_seal>> /\ tmp.text = "none"
  <1>1. StatusRead(w) \/ StatusCount(w) => UNCHANGED <<json, tmp, last_seal>>
    BY DEF StatusRead, StatusCount
  <1>2. StatusOpen(w) => UNCHANGED <<json, last_seal>> /\ tmp'.text = "empty"
    BY DEF StatusOpen
  <1>3. StatusWrite(w)
          => /\ UNCHANGED last_seal
             /\ json' = json \/ json' \in Overwritten(json, snap[w])
             /\ tmp' = tmp \/ tmp' \in Overwritten(tmp, snap[w])
    BY DEF StatusWrite
  <1>4. StatusRename(w) => UNCHANGED last_seal /\ json' = tmp /\ tmp'.text = "none"
    BY DEF StatusRename, NoFile
  <1>5. StatusRenameLost(w) => UNCHANGED <<json, tmp, last_seal>> /\ tmp.text = "none"
    BY DEF StatusRenameLost
  <1>6. QED
    BY <1>1, <1>2, <1>3, <1>4, <1>5

(* The journal's file is there from the end of ensure() on. *)
LEMMA FileStays ==
    ASSUME TypeOK, Inv, [Next]_vars
    PROVE  enc.kind # "absent" => enc'.kind # "absent"
  <1>1. CASE UNCHANGED diskVars
    BY <1>1 DEF diskVars
  <1>2. CASE BootKey \/ BootToken \/ BootEnc
    BY <1>2 DEF BootKey, BootToken, BootEnc
  <1>3. CASE AppendWrite \/ AppendLog \/ Read
    BY <1>3 DEF AppendWrite, AppendLog, Read, TypeOK, TypeDisk
  <1>4. CASE Wipe
    BY <1>4 DEF Wipe, WipeKey, WipeToken, WipeEnc, WipeMarker, WipeLog
  <1>5. CASE Misread
    <2>1. CASE BootUnread
      BY <2>1 DEF BootUnread
    <2>2. CASE ReadUnread \/ SealUnread
      BY <1>1, <2>2 DEF ReadUnread, SealUnread
    <2>3. ASSUME AskUnread
          PROVE  UNCHANGED diskVars
      BY <2>3 DEF AskUnread
    <2>4. ASSUME NEW w, StatusUnread(w)
          PROVE  UNCHANGED diskVars
      BY <2>4 DEF StatusUnread
    <2>5. QED
      BY <1>1, <1>5, <2>1, <2>2, <2>3, <2>4, Misreads
  <1>6. QED
    BY <1>1, <1>2, <1>3, <1>4, <1>5, DiskFrame, Zenon DEF Ensure

(* While no operation has failed no step is a failure, and nothing is       *)
(* mistaken.                                                                *)
LEMMA NoFailure ==
    ASSUME TypeOK, Inv, [Next]_vars, faults' = 0
    PROVE  faults = 0 /\ mistaken = {} /\ ~Misread /\ ~(\E w \in Threads : Fault(w))
  <1>1. ASSUME NEW w \in Threads, Fault(w)
        PROVE  FALSE
    BY <1>1 DEF Fault, TypeOK, TypeThreads
  <1>2. ~Misread
    BY MisreadCounts
  <1>3. faults = 0
    BY FaultsStay
  <1>4. QED
    BY <1>1, <1>2, <1>3 DEF Inv, Blame

(* The journal's file outlives ensure(), status.tmp no write_status. *)
LEMMA FiledStep ==
    ASSUME TypeOK, Inv, Staged, Filed, [Next]_vars
    PROVE  Filed'
  <1> SUFFICES ASSUME faults' = 0
               PROVE  /\ pc'["door"] \notin {"down"} \cup BootPCs => enc'.kind # "absent"
                      /\ ~Booting' /\ tmp'.text # "none"
                           => \E w \in Threads : pc'[w] \in {"status_write", "status_rename"}
    BY DEF Filed
  <1>1. faults = 0 /\ mistaken = {} /\ ~Misread /\ ~(\E w \in Threads : Fault(w))
    BY NoFailure
  <1>2. /\ pc["door"] \notin {"down"} \cup BootPCs => enc.kind # "absent"
        /\ ~Booting /\ tmp.text # "none"
             => \E w \in Threads : pc[w] \in {"status_write", "status_rename"}
    BY <1>1 DEF Filed
  <1>3. pc'["door"] \notin {"down"} \cup BootPCs => enc'.kind # "absent"
    <2> SUFFICES ASSUME pc'["door"] \notin {"down"} \cup BootPCs
                 PROVE  enc'.kind # "absent"
      OBVIOUS
    <2>1. CASE pc["door"] \notin {"down"} \cup BootPCs
      BY <2>1, <1>2, FileStays
    <2>2. CASE BootEnc
      BY <2>2 DEF BootEnc
    <2>3. ASSUME pc["door"] \in {"down"} \cup BootPCs, ~BootEnc
          PROVE  FALSE
      <3> USE <2>3 DEF BootPCs, At, Goto, TypeOK, TypeThreads, Threads
      <3>1. CASE UNCHANGED vars
        BY <3>1 DEF vars
      <3>2. CASE Restart \/ BootKey \/ BootToken
        BY <3>2 DEF Restart, BootKey, BootToken
      <3>3. CASE AskNoEntry \/ AppendWrite \/ AppendGone \/ AppendLog \/ Read \/ Health
        BY <3>3 DEF AskNoEntry, AppendWrite, AppendGone, AppendLog, Read, Health
      <3>4. CASE WipeKey \/ WipeToken \/ WipeEnc \/ WipeMarker \/ WipeLog
        BY <3>4 DEF WipeKey, WipeToken, WipeEnc, WipeMarker, WipeLog
      <3>5. CASE Age \/ PowerStart \/ PowerTick \/ PowerSend \/ Crash
        BY <3>5 DEF Age, PowerStart, PowerTick, PowerSend, Crash
      <3>6. ASSUME NEW cmd, NEW presented, NEW e, Ask(cmd, presented, e)
            PROVE  FALSE
        BY <3>6 DEF Ask
      <3>7. ASSUME NEW w \in Threads, StatusRead(w) \/ StatusCount(w) \/ StatusOpen(w)
                                     \/ StatusWrite(w) \/ StatusRename(w)
                                     \/ StatusRenameLost(w)
            PROVE  FALSE
        BY <3>7, WriterMoves
      <3>8. QED
        BY <1>1, <3>1, <3>2, <3>3, <3>4, <3>5, <3>6, <3>7, Steps, Zenon
    <2>4. QED
      BY <2>1, <2>2, <2>3
  <1>4. ~Booting' /\ tmp'.text # "none"
          => \E w \in Threads : pc'[w] \in {"status_write", "status_rename"}
    <2> SUFFICES ASSUME ~Booting', tmp'.text # "none"
                 PROVE  \E w \in Threads : pc'[w] \in {"status_write", "status_rename"}
      OBVIOUS
    <2>1. CASE UNCHANGED vars
      BY <2>1, <1>2 DEF vars, statusVars, Booting
    <2>2. CASE DoorQuiet
      <3>1. ~Booting /\ tmp.text # "none" /\ ~Writing("door") /\ pc'["power"] = pc["power"]
        BY <2>2 DEF DoorQuiet, statusVars
      <3>2. QED
        BY <3>1, <1>2 DEF Writing, StatusPCs, Threads
    <2>3. CASE Age
      BY <2>3, <1>2 DEF Age, Booting
    <2>4. CASE PowerStart \/ PowerTick \/ PowerSend
      BY <2>4, <1>2 DEF PowerStart, PowerTick, PowerSend, Booting, At, Goto, TypeOK,
         TypeThreads, Threads
    <2>5. CASE Crash
      BY <2>5 DEF Crash, Booting, Threads
    <2>6. ASSUME NEW w \in Threads, StatusRead(w) \/ StatusCount(w)
          PROVE  \E t \in Threads : pc'[t] \in {"status_write", "status_rename"}
      <3>1. ~Booting /\ tmp.text # "none"
        BY <2>6, WriterMoves, TmpMoves DEF Booting, BootPCs, TypeOK, TypeThreads, Threads
      <3>2. QED
        BY <2>6, <3>1, <1>2, WriterMoves DEF TypeOK, TypeThreads, Threads
    <2>7. ASSUME NEW w \in Threads, StatusOpen(w) \/ StatusWrite(w)
          PROVE  \E t \in Threads : pc'[t] \in {"status_write", "status_rename"}
      <3>1. pc'[w] \in {"status_write", "status_rename"}
        BY <2>7, WriterMoves DEF TypeOK, TypeThreads
      <3>2. QED
        BY <3>1
    <2>8. ASSUME NEW w \in Threads, StatusRename(w) \/ StatusRenameLost(w)
          PROVE  FALSE
      BY <2>8, TmpMoves
    <2>9. QED
      BY <1>1, <2>1, <2>2, <2>3, <2>4, <2>5, <2>6, <2>7, <2>8, StatusSteps, Zenon
  <1>5. QED
    BY <1>3, <1>4

(* Before a wipe every text on the way to the feed was read from a journal   *)
(* that opens.                                                               *)
LEMMA BeforeStep ==
    ASSUME TypeOK, Inv, Staged, Filed, Before, [Next]_vars
    PROVE  Before'
  <1> SUFFICES ASSUME faults' = 0, ~wiped'
               PROVE  /\ ~SaysBroken(json') /\ ~SaysBroken(tmp')
                      /\ \A w \in Threads : Writing(w)' => snap'[w].sealed
                      /\ pc'["power"] # "off" /\ last_seal'.said = "status" => last_seal'.sealed
    BY DEF Before, SaysBroken
  <1>1. /\ faults = 0 /\ mistaken = {} /\ ~Misread /\ ~(\E w \in Threads : Fault(w))
        /\ ~wiped
    BY NoFailure, WipedStays
  <1>2. ~SaysBroken(json) /\ ~SaysBroken(tmp)
    BY <1>1 DEF Before
  <1>3. \A w \in Threads : Writing(w) => snap[w].sealed
    BY <1>1 DEF Before
  <1>4. pc["power"] # "off" /\ last_seal.said = "status" => last_seal.sealed
    BY <1>1 DEF Before
  <1>5. CASE UNCHANGED vars
    BY <1>2, <1>3, <1>4, <1>5 DEF vars, statusVars, Writing, SaysBroken
  <1>6. CASE DoorQuiet
    BY <1>2, <1>3, <1>4, <1>6 DEF DoorQuiet, statusVars, Writing, SaysBroken, Threads
  <1>7. CASE Age
    BY <1>2, <1>3, <1>4, <1>7 DEF Age, Writing, SaysBroken
  <1>8. CASE PowerStart \/ PowerTick \/ PowerSend
    <2>1. UNCHANGED <<json, tmp, snap>> /\ pc'["door"] = pc["door"] /\ ~Writing("power")'
      BY <1>8 DEF PowerStart, PowerTick, PowerSend, Writing, StatusPCs, At, Goto, TypeOK,
         TypeThreads, Threads
    <2>2. last_seal'.said = "status" => last_seal' = last_seal \/ last_seal' = SealText
      BY <1>8 DEF PowerStart, PowerTick, PowerSend
    <2>3. SealText.said = "status" => SealText.sealed
      BY <1>2 DEF SealText, SaysBroken
    <2>4. PowerStart => last_seal'.said = "nothing"
      BY DEF PowerStart
    <2>5. PowerTick \/ PowerSend => pc["power"] # "off"
      BY DEF PowerTick, PowerSend, At
    <2>6. pc'["power"] # "off" /\ last_seal'.said = "status" => last_seal'.sealed
      BY <1>4, <1>8, <2>2, <2>3, <2>4, <2>5
    <2>7. QED
      BY <1>2, <1>3, <2>1, <2>6 DEF SaysBroken, Writing, Threads
  <1>9. CASE Crash
    BY <1>2, <1>9 DEF Crash, Writing, StatusPCs, SaysBroken, Threads
  <1>10. ASSUME NEW w \in Threads, StatusRead(w)
         PROVE  Before'
    <2>1. Loadable
      <3>1. ~(pc["door"] \in {"down"} \cup BootPCs)
        BY <1>10, WriterMoves DEF Staged, Booting, BootPCs, Threads
      <3>2. enc.kind = "sealed"
        BY <1>1, <3>1 DEF Filed, Inv, Gone, TypeOK, TypeDisk
      <3>3. QED
        BY <1>1, <3>2 DEF Inv, Standing
    <2>2. snap'[w].sealed /\ \A t \in Threads \ {w} : snap'[t] = snap[t]
      BY <1>10, <2>1, SnapRead
    <2>3. \A t \in Threads \ {w} : pc'[t] = pc[t]
      BY <1>10, WriterMoves DEF TypeOK, TypeThreads
    <2>4. \A t \in Threads : Writing(t)' => snap'[t].sealed
      BY <1>3, <2>2, <2>3 DEF Writing
    <2>5. UNCHANGED <<json, tmp, last_seal>>
      BY <1>10, TmpMoves
    <2>6. pc'["power"] # "off" => pc["power"] # "off"
      BY <1>10, WriterMoves DEF TypeOK, TypeThreads, Threads
    <2>7. QED
      BY <1>2, <1>4, <2>4, <2>5, <2>6 DEF Before, SaysBroken
  <1>11. ASSUME NEW w \in Threads, StatusCount(w) \/ StatusOpen(w) \/ StatusWrite(w)
         PROVE  Before'
    <2>1. \A t \in Threads : snap'[t].sealed = snap[t].sealed
      BY <1>11, SnapKept
    <2>2. Writing(w) /\ \A t \in Threads \ {w} : pc'[t] = pc[t]
      BY <1>11, WriterMoves DEF TypeOK, TypeThreads, Writing, StatusPCs
    <2>3. \A t \in Threads : Writing(t)' => snap'[t].sealed
      BY <1>3, <2>1, <2>2 DEF Writing
    <2>4. ~SaysBroken(json')
      BY <1>2, <1>3, <1>11, <2>2, TmpMoves, WrittenOver
    <2>5. ~SaysBroken(tmp')
      BY <1>2, <1>3, <1>11, <2>2, TmpMoves, WrittenOver DEF SaysBroken
    <2>6. last_seal' = last_seal /\ (pc'["power"] # "off" => pc["power"] # "off")
      BY <1>11, WriterMoves, TmpMoves DEF TypeOK, TypeThreads, Threads
    <2>7. QED
      BY <1>4, <2>3, <2>4, <2>5, <2>6 DEF Before, SaysBroken
  <1>12. ASSUME NEW w \in Threads, StatusRename(w) \/ StatusRenameLost(w)
         PROVE  Before'
    <2>1. ~Writing(w)' /\ \A t \in Threads \ {w} : pc'[t] = pc[t]
      BY <1>12, WriterMoves DEF TypeOK, TypeThreads, Writing, StatusPCs
    <2>2. \A t \in Threads : Writing(t)' => snap'[t].sealed
      BY <1>3, <1>12, <2>1, SnapGone DEF Writing
    <2>3. ~SaysBroken(json') /\ ~SaysBroken(tmp') /\ last_seal' = last_seal
      BY <1>2, <1>12, TmpMoves DEF SaysBroken
    <2>4. pc'["power"] # "off" => pc["power"] # "off"
      BY <1>12, WriterMoves DEF TypeOK, TypeThreads, Threads
    <2>5. QED
      BY <1>4, <2>2, <2>3, <2>4 DEF Before, SaysBroken
  <1>13. CASE Before'
    BY <1>1, <1>13, FaultsStay DEF Before, SaysBroken
  <1>14. QED
    BY <1>1, <1>5, <1>6, <1>7, <1>8, <1>9, <1>10, <1>11, <1>12, <1>13, StatusSteps, Zenon

(* After a wipe the door reads only broken seals; a seal the power thread   *)
(* read before it can still reach status.json, but not once the feed has    *)
(* shown the broken one.                                                    *)
LEMMA AfterStep ==
    ASSUME TypeOK, Inv, Staged, Filed, Before, After, [Next]_vars
    PROVE  After'
  <1> SUFFICES ASSUME faults' = 0, wiped'
               PROVE  /\ ~snap'["door"].sealed
                      /\ ~Booting' /\ SaysSealed(tmp') => snap'["power"].sealed
                      /\ pc'["power"] # "off" /\ last_seal'.said = "status"
                         /\ ~last_seal'.sealed
                           => ~SaysSealed(json') /\ ~snap'["power"].sealed
    BY DEF After, SaysSealed
  <1>1. faults = 0 /\ mistaken = {} /\ ~Misread /\ ~(\E w \in Threads : Fault(w))
    BY NoFailure
  <1> DEFINE Shut == pc["power"] # "off" /\ last_seal.said = "status" /\ ~last_seal.sealed
  <1>2. wiped => /\ ~snap["door"].sealed
                 /\ ~Booting /\ SaysSealed(tmp) => snap["power"].sealed
                 /\ Shut => ~SaysSealed(json) /\ ~snap["power"].sealed
    BY <1>1 DEF After
  <1>3. CASE UNCHANGED vars
    <2>1. UNCHANGED <<pc, op, wiped, snap, json, tmp, last_seal>>
      BY <1>3 DEF vars, statusVars, historyVars
    <2>2. QED
      BY <1>2, <2>1 DEF Booting, SaysSealed
  <1>4. CASE DoorQuiet
    <2>1. UNCHANGED <<snap, json, tmp, last_seal>> /\ pc'["power"] = pc["power"]
          /\ ~Writing("door") /\ (Booting' <=> Booting)
      BY <1>4 DEF DoorQuiet, statusVars
    <2>2. CASE wiped
      BY <1>2, <2>1, <2>2 DEF SaysSealed
    <2>3. CASE ~wiped
      <3>1. ~snap["door"].sealed
        BY <2>1 DEF Staged, Threads
      <3>2. ~Booting /\ SaysSealed(tmp) => snap["power"].sealed
        <4> SUFFICES ASSUME ~Booting, SaysSealed(tmp)
                     PROVE  snap["power"].sealed
          OBVIOUS
        <4>1. PICK w \in Threads : pc[w] \in {"status_write", "status_rename"}
          BY <1>1 DEF Filed, SaysSealed
        <4>2. Writing(w) /\ w = "power"
          BY <2>1, <4>1 DEF Writing, StatusPCs, Threads
        <4>3. QED
          BY <1>1, <2>3, <4>2 DEF Before
      <3>3. ~Shut
        BY <1>1, <2>3 DEF Before
      <3>4. QED
        BY <2>1, <3>1, <3>2, <3>3 DEF SaysSealed
    <2>4. QED
      BY <2>2, <2>3
  <1>5. wiped \/ DoorQuiet
    <2>1. CASE wiped' = wiped
      BY <2>1
    <2>2. CASE WipeKey \/ WipeEnc
      BY <2>2 DEF WipeKey, WipeEnc, DoorQuiet, Writing, Booting, At, Goto, Inv, Control,
         WipePCs, BootPCs, StatusPCs, TypeOK, TypeThreads, Threads
    <2>3. ASSUME wiped' # wiped
          PROVE  WipeKey \/ WipeEnc
      <3>1. ~UNCHANGED historyVars
        BY <2>3 DEF historyVars
      <3>2. ~BootToken /\ ~Request
        BY <2>3 DEF BootToken, Request, Ask, AskNoEntry
      <3>3. ~(\E ok \in BOOLEAN : Return(ok))
        BY <2>3 DEF Return, Answer, historyVars
      <3>4. QED
        BY <1>1, <3>1, <3>2, <3>3, HistoryFrame, Zenon
    <2>4. QED
      BY <2>1, <2>2, <2>3
  <1>6. CASE Age
    <2>1. UNCHANGED <<pc, op, wiped, snap, json, tmp, last_seal>>
      BY <1>6 DEF Age, historyVars
    <2>2. QED
      BY <1>2, <2>1 DEF Booting, SaysSealed
  <1>7. CASE wiped /\ (PowerStart \/ PowerTick \/ PowerSend)
    <2>1. UNCHANGED <<json, tmp, snap>>
      BY <1>7 DEF PowerStart, PowerTick, PowerSend
    <2>2. ~Booting /\ ~Writing("power")
      BY <1>7 DEF PowerStart, PowerTick, PowerSend, Staged, Booting, Writing, StatusPCs,
         BootPCs, At, Inv, Control, TypeOK, TypeThreads, DoorPCs
    <2>3. ~snap["power"].sealed /\ ~SaysSealed(tmp)
      BY <1>2, <1>7, <2>2 DEF Staged, Threads
    <2>4. last_seal'.said = "status" /\ ~last_seal'.sealed => ~SaysSealed(json)
      <3>1. CASE PowerStart
        BY <3>1 DEF PowerStart
      <3>2. CASE last_seal' = SealText
        BY <3>2 DEF SealText, SaysSealed
      <3>3. CASE PowerTick /\ last_seal' = last_seal
        BY <1>2, <1>7, <3>3 DEF PowerTick, At
      <3>4. QED
        BY <1>7, <3>1, <3>2, <3>3 DEF PowerTick, PowerSend
    <2>5. QED
      BY <1>2, <1>7, <2>1, <2>3, <2>4 DEF SaysSealed
  <1>8. CASE Crash
    BY <1>8 DEF Crash, Booting, NoStatus, Threads
  <1>9. CASE wiped /\ \E w \in Threads : StatusRead(w)
    <2>1. PICK w \in Threads : StatusRead(w)
      BY <1>9
    <2>2. ~snap'[w].sealed /\ \A t \in Threads \ {w} : snap'[t] = snap[t]
      BY <1>1, <1>9, <2>1, SnapRead DEF Inv, Gone, GoneForGood
    <2>3. UNCHANGED <<json, tmp, last_seal>>
      BY <2>1, TmpMoves
    <2>4. ~Booting' => ~Booting
      BY <2>1, WriterMoves DEF Booting, BootPCs, TypeOK, TypeThreads, Threads
    <2>5. pc'["power"] # "off" => pc["power"] # "off"
      BY <2>1, WriterMoves DEF TypeOK, TypeThreads, Threads
    <2>6. ~snap[w].sealed
      BY <2>1, WriterMoves DEF Staged, Writing
    <2>7. QED
      BY <1>2, <1>9, <2>2, <2>3, <2>4, <2>5, <2>6 DEF SaysSealed, Threads
  <1>10. CASE wiped /\ \E w \in Threads : StatusCount(w) \/ StatusOpen(w) \/ StatusWrite(w)
    <2>1. PICK w \in Threads : StatusCount(w) \/ StatusOpen(w) \/ StatusWrite(w)
      BY <1>10
    <2>2. \A t \in Threads : snap'[t].sealed = snap[t].sealed
      BY <2>1, SnapKept
    <2>3. last_seal' = last_seal
      BY <2>1, TmpMoves
    <2>4. ~Booting' => ~Booting
      BY <2>1, WriterMoves DEF Booting, BootPCs, TypeOK, TypeThreads, Threads
    <2>5. pc'["power"] # "off" => pc["power"] # "off"
      BY <2>1, WriterMoves DEF TypeOK, TypeThreads, Threads
    <2>6. SaysSealed(json') => SaysSealed(json) \/ snap[w].sealed
      BY <2>1, TmpMoves, WrittenOver
    <2>7. SaysSealed(tmp') => SaysSealed(tmp) \/ snap[w].sealed
      BY <2>1, TmpMoves, WrittenOver DEF SaysSealed
    <2>8. QED
      BY <1>2, <1>10, <2>2, <2>3, <2>4, <2>5, <2>6, <2>7 DEF Threads
  <1>11. CASE wiped /\ \E w \in Threads : StatusRename(w) \/ StatusRenameLost(w)
    <2>1. PICK w \in Threads : StatusRename(w) \/ StatusRenameLost(w)
      BY <1>11
    <2>2. ~snap'[w].sealed /\ \A t \in Threads \ {w} : snap'[t] = snap[t]
      BY <2>1, SnapGone
    <2>3. /\ last_seal' = last_seal /\ ~SaysSealed(tmp')
          /\ SaysSealed(json') => SaysSealed(json) \/ SaysSealed(tmp)
      BY <2>1, TmpMoves DEF SaysSealed
    <2>4. pc["power"] # "off" => ~Booting
      BY DEF Staged
    <2>5. pc'["power"] # "off" => pc["power"] # "off"
      BY <2>1, WriterMoves DEF TypeOK, TypeThreads, Threads
    <2>6. QED
      BY <1>2, <1>11, <2>2, <2>3, <2>4, <2>5 DEF Threads
  <1>12. QED
    BY <1>1, <1>3, <1>4, <1>5, <1>6, <1>7, <1>8, <1>9, <1>10, <1>11, StatusSteps, Zenon

(* A request is answered where dispatch refuses it or its operation ends. *)
LEMMA AnswerSteps ==
    ASSUME [Next]_vars, answered' # answered
    PROVE  \/ AskNoEntry \/ AppendGone \/ Read \/ Health \/ Misread
           \/ StatusRename("door") \/ StatusRenameLost("door") \/ Fault("door")
  <1>1. ~UNCHANGED historyVars
    BY DEF historyVars
  <1>2. ~UNCHANGED vars
    BY <1>1 DEF vars
  <1>3. ~(Restart \/ BootKey \/ BootToken \/ BootEnc)
    BY <1>1 DEF Restart, BootKey, BootToken, BootEnc
  <1>4. ~(AppendWrite \/ AppendLog \/ WipeToken \/ WipeMarker \/ WipeLog)
    BY <1>1 DEF AppendWrite, AppendLog, WipeToken, WipeMarker, WipeLog
  <1>5. ~(WipeKey \/ WipeEnc \/ Age \/ Crash)
    BY <1>1 DEF WipeKey, WipeEnc, Age, Crash
  <1>6. ~(PowerStart \/ PowerTick \/ PowerSend)
    BY <1>1 DEF PowerStart, PowerTick, PowerSend
  <1>7. ASSUME NEW cmd, NEW presented, NEW e, Ask(cmd, presented, e)
        PROVE  FALSE
    BY <1>7 DEF Ask
  <1>8. ASSUME NEW w, StatusRead(w) \/ StatusCount(w) \/ StatusOpen(w) \/ StatusWrite(w)
        PROVE  FALSE
    BY <1>1, <1>8 DEF StatusRead, StatusCount, StatusOpen, StatusWrite
  <1>9. ASSUME NEW w \in Threads, StatusRename(w) \/ StatusRenameLost(w) \/ Fault(w)
        PROVE  w = "door"
    BY <1>1, <1>9 DEF StatusRename, StatusRenameLost, Fault, StatusReturn
  <1>10. QED
    BY <1>2, <1>3, <1>4, <1>5, <1>6, <1>7, <1>8, <1>9, Steps, Zenon

(* The 403 leaves at the end of the wipe's write_status, unless a file      *)
(* operation failed.                                                        *)
LEMMA ForbiddenStep ==
    ASSUME TypeOK, Inv, Wiping, [Next]_vars,
           answered' # answered, reply' = "403", faults' = 0
    PROVE  key' = 0 /\ token' = 0 /\ enc'.kind = "nul" /\ marker'
  <1>1. ASSUME NEW ok \in BOOLEAN, Return(ok)
        PROVE  op = "wipe"
    BY <1>1 DEF Return, Answer, historyVars
  <1>2. ~Fault("door") /\ ~Misread
    BY NoFailure DEF Threads
  <1>3. ~AskNoEntry
    BY DEF AskNoEntry
  <1>4. ~(AppendGone \/ Read \/ Health)
    BY <1>1 DEF AppendGone, Read, Health, At, Inv, Control, historyVars
  <1>5. CASE StatusRename("door") \/ StatusRenameLost("door")
    <2>1. pc["door"] = "status_rename" /\ op = "wipe" /\ UNCHANGED diskVars
      BY <1>1, <1>5 DEF StatusRename, StatusRenameLost, StatusReturn, At
    <2>2. key = 0 /\ token = 0 /\ enc.kind = "nul" /\ marker
      BY <2>1 DEF Wiping, StatusPCs
    <2>3. QED
      BY <2>1, <2>2 DEF diskVars
  <1>6. QED
    BY <1>2, <1>3, <1>4, <1>5, AnswerSteps

(* Only the power thread sends the seal, and it sends what status.json says. *)
LEMMA FeedSteps ==
    ASSUME [Next]_vars
    PROVE  \/ last_seal' = last_seal \/ Misread
           \/ PowerStart /\ ~last_seal'.sealed
           \/ (PowerTick \/ PowerSend) /\ last_seal' = SealText
  <1>1. CASE UNCHANGED statusVars
    BY <1>1 DEF statusVars
  <1>2. CASE Age \/ Crash
    BY <1>2 DEF Age, Crash
  <1>3. CASE PowerStart
    BY <1>3 DEF PowerStart
  <1>4. CASE PowerTick \/ PowerSend
    BY <1>4 DEF PowerTick, PowerSend
  <1>5. ASSUME NEW w \in Threads, WriteStatus(w) \/ Fault(w)
        PROVE  last_seal' = last_seal
    BY <1>5 DEF WriteStatus, StatusRead, StatusCount, StatusOpen, StatusWrite,
       StatusRename, StatusRenameLost, Fault
  <1>6. QED
    BY <1>1, <1>2, <1>3, <1>4, <1>5, StatusFrame, Zenon

(* A tick or a send after the broken seal was shown finds no sealed status. *)
LEMMA UnbrokenStep ==
    ASSUME TypeOK, Inv, After, [Next]_vars,
           wiped, last_seal.said = "status", ~last_seal.sealed, faults' = 0
    PROVE  ~last_seal'.sealed
  <1>1. CASE last_seal' = last_seal \/ (PowerStart /\ ~last_seal'.sealed)
    BY <1>1
  <1>2. CASE (PowerTick \/ PowerSend) /\ last_seal' = SealText
    <2>1. pc["power"] # "off"
      BY <1>2 DEF PowerTick, PowerSend, At
    <2>2. ~SaysSealed(json)
      BY <2>1, FaultsStay DEF After
    <2>3. QED
      BY <1>2, <2>2 DEF SealText, SaysSealed
  <1>3. QED
    BY <1>1, <1>2, FeedSteps, NoFailure

(* The first state: no file, no status, no feed. *)
LEMMA InitShown ==
    ASSUME Init
    PROVE  Shown
  <1> USE DEF Init, Threads, NoStatus, NoFile
  <1>1. Wiping /\ Staged
    BY DEF Wiping, Staged, Booting, BootPCs
  <1>2. Filed /\ Before /\ After
    BY DEF Filed, Before, After, Booting, BootPCs, Writing, StatusPCs, SaysBroken
  <1>3. QED
    BY <1>1, <1>2 DEF Shown

(* What the public status and the feed can say, and how far a wipe has come, *)
(* in every state the cortex can reach.                                      *)
THEOREM VaultShown == Spec => [](TypeOK /\ Inv /\ Shown)
  <1>1. Init => Shown
    BY InitShown
  <1>2. TypeOK /\ Inv /\ Shown /\ [Next]_vars => Shown'
    BY WipingStep, StagedStep, FiledStep, BeforeStep, AfterStep DEF Shown
  <1>3. QED
    BY <1>1, <1>2, VaultInvariant, PTL DEF Spec

(* The door says 403 for a wipe only when the key and the token are         *)
(* unlinked, the journal is NULs and the marker is written, whatever the    *)
(* power thread does to status.json meanwhile; a failed unlink or write,    *)
(* which the door ignores, is the one exception.                            *)
THEOREM ForbiddenIsFinalHolds == Spec => ForbiddenIsFinal
  <1>1. TypeOK /\ Inv /\ Shown /\ [Next]_vars
          => [answered' # answered /\ reply' = "403" /\ faults' = 0
                => key' = 0 /\ token' = 0 /\ enc'.kind = "nul" /\ marker']_vars
    BY ForbiddenStep DEF Shown
  <1>2. QED
    BY <1>1, VaultShown, PTL DEF Spec, ForbiddenIsFinal

(* The two threads race on the one name status.tmp and a sealed status read *)
(* before the wipe may be renamed after it; yet what the feed has shown     *)
(* broken it does not show sealed again.                                    *)
THEOREM SealNeverUnbreaksHolds == Spec => SealNeverUnbreaks
  <1>1. TypeOK /\ Inv /\ Shown /\ [Next]_vars
          => [wiped /\ last_seal.said = "status" /\ ~last_seal.sealed /\ faults' = 0
                => ~last_seal'.sealed]_vars
    BY UnbrokenStep DEF Shown
  <1>2. QED
    BY <1>1, VaultShown, PTL DEF Spec, SealNeverUnbreaks
=============================================================================
