----------------------------- MODULE Transfer -----------------------------
(* Attachments between two peers of one channel: AttachmentTransferSender  *)
(* (packages/rtc/src/file-transfer.ts), AttachmentTransferReceiver         *)
(* (file-receiver.ts), the AttachmentService that joins them and the two   *)
(* storages (IndexedDbAttachmentStorage, DesktopAttachmentStorage).  Peer S *)
(* holds one file, peer R obtains it, by an offer or by a request after    *)
(* the synchronisation of metadata.  Control messages and chunks travel on *)
(* two ordered channels that overtake each other.                          *)
EXTENDS Integers, Sequences, FiniteSets

CONSTANTS Chunks,       \* the chunks of the file
          Setups,       \* configurations explored
          MaxTransfers, \* offers made
          MaxIncoming,  \* maxIncomingTransfers
          MaxQueue,     \* chunks and messages under way before the sender waits
          AnyoneResumes, \* the peer that did not pause may resume too
          MaxFaults     \* interventions of users, broken connections, restarts, failing storage, a changing file

Ids == 1..MaxTransfers

ASSUME BoundsAssumption ==
    /\ Chunks \subseteq Nat \ {0}
    /\ Setups \subseteq [desktop : BOOLEAN, large : BOOLEAN, hashes : BOOLEAN]
    /\ {MaxTransfers, MaxIncoming, MaxQueue, MaxFaults} \subseteq Nat
    /\ AnyoneResumes \in BOOLEAN

VARIABLES
    setup,      \* desktop storage, a file above the automatic limit, chunk hashes in the manifest
    snd,        \* sender.queue and active: for each transfer a set with at most one QueuedTransfer
    used,       \* transfers offered so far
    source,     \* S: sourceByAttachment has the file
    kept,       \* S: sourcePersisted, as far as it matters after a restart
    bad,        \* chunks whose bytes changed since the manifest was built
    reported,   \* S: transfers confirmed by R
    spinning,   \* S: pump and run call each other without end
    rcv,        \* R: receiver.transfers: for each transfer a set with at most one IncomingTransfer
    accepting,  \* R: accept under way: "no", "prepare" or "list"
    completing, \* R: complete under way: "no", "wait", "verify", "intact", "mismatch" or "error"
    writes,     \* R: chunks being processed
    requested,  \* R: requestedAttachments has the file
    records,    \* R's database: the state of each record, 0: the synchronised metadata
    store,      \* R's storage: chunks kept for each key
    final,      \* R's storage: transfers whose content was finalized
    verified,   \* R: transfers that reached "completed"
    pauser,     \* who paused last
    link, toR, toS, data, faults,
    calm        \* "yes", "no" after an intervention that may prevent completion, "restarted" after R's restart

sender == <<snd, used, source, kept, bad, reported, spinning>>
memory == <<rcv, accepting, completing, writes, requested, verified>>
disk == <<records, store, final>>
net == <<link, toR, toS, data>>
vars == <<setup, sender, memory, disk, net, pauser, faults, calm>>

Message(t, i) == [type |-> t, id |-> i, missing |-> {}]
Need(i, missing) == [type |-> "need", id |-> i, missing |-> missing]

Fault == faults < MaxFaults /\ faults' = faults + 1
\* An intervention after which the transfer need not complete.
Disturb == Fault /\ calm' = (IF calm = "restarted" THEN calm ELSE "no") /\ UNCHANGED pauser
Calm == UNCHANGED <<pauser, faults, calm>>

SendToR(m) == toR' = IF link THEN Append(toR, m) ELSE toR
SendToS(m) == toS' = IF link THEN Append(toS, m) ELSE toS

---------------------------------------------------------------------------
(* The sender.                                                             *)

NewQueued == [paused |-> FALSE, cancelled |-> FALSE, awaiting |-> FALSE, missing |-> Chunks,
              run |-> "no", todo |-> {}, chunk |-> 0, gone |-> FALSE]

Queued(i) == snd[i] # {}
Q(i) == CHOOSE q \in snd[i] : TRUE
Runnable(q) == ~q.gone /\ ~q.cancelled /\ ~q.paused /\ ~q.awaiting /\ q.run = "no"

\* pump: every runnable transfer (maxConcurrentTransfers is not reached) announces its manifest and starts; when
\* the announcement fails, finally calls pump again and the two repeat without returning to the event loop.
Pump(s) ==
    LET starting == {i \in Ids : \E q \in s[i] : Runnable(q)}
        Manifests == [k \in 1..Cardinality(starting) |->
                        Message("manifest", CHOOSE i \in starting : Cardinality({j \in starting : j < i}) = k - 1)]
    IN IF link \/ starting = {}
       THEN /\ snd' = [i \in Ids |-> IF i \in starting THEN {[q EXCEPT !.run = "chunks", !.todo = q.missing] : q \in s[i]} ELSE s[i]]
            /\ toR' = toR \o Manifests
            /\ UNCHANGED spinning
       ELSE snd' = s /\ spinning' = TRUE /\ UNCHANGED toR

Change(i, q) == [snd EXCEPT ![i] = {q}]
\* A transfer confirmed while it ran was already taken out of the queue.
Ended(i, q) == [snd EXCEPT ![i] = IF q.gone THEN {} ELSE {q}]

\* Mutant: what was announced as complete stays announced.
ResumedUnverified(q, missing) == [q EXCEPT !.missing = missing, !.paused = FALSE]

\* acceptAndStart and resume: what was announced as complete is sent again.
Resumed(q, missing) == [q EXCEPT !.missing = missing, !.paused = FALSE, !.awaiting = FALSE]

Offer(i) ==
    /\ used' = i
    /\ snd' = [snd EXCEPT ![i] = {NewQueued}]
    /\ SendToR(Message("offer", i))

\* AttachmentService.sendFile to a connected peer.
SendFile ==
    /\ link /\ ~spinning /\ used < MaxTransfers /\ (used = 0 \/ faults < MaxFaults)
    /\ IF used = 0 THEN UNCHANGED faults ELSE Fault
    /\ Offer(used + 1)
    /\ source' = TRUE
    /\ UNCHANGED <<setup, kept, bad, reported, spinning, memory, disk, link, toS, data, pauser, calm>>

Room == Len(data) < MaxQueue /\ Len(toR) < MaxQueue /\ Len(toS) < MaxQueue

\* One iteration of run's loop up to the wait for a free buffer: the next chunk in order is read.
TakeChunk(i) ==
    /\ ~spinning /\ Queued(i) /\ Q(i).run = "chunks" /\ Q(i).chunk = 0 /\ Q(i).todo # {}
    /\ ~Q(i).cancelled /\ ~Q(i).paused /\ Room
    /\ LET c == CHOOSE c \in Q(i).todo : \A k \in Q(i).todo : c <= k
       IN snd' = Change(i, [Q(i) EXCEPT !.chunk = c, !.todo = @ \ {c}])
    /\ UNCHANGED <<setup, used, source, kept, bad, reported, spinning, memory, disk, net, pauser, faults, calm>>

\* sendWithRetry: the pause is checked again after the wait.
SendChunk(i) ==
    /\ ~spinning /\ Queued(i) /\ Q(i).chunk # 0 /\ link /\ ~Q(i).cancelled /\ ~Q(i).paused
    /\ data' = Append(data, [id |-> i, chunk |-> Q(i).chunk, bad |-> Q(i).chunk \in bad])
    /\ snd' = Change(i, [Q(i) EXCEPT !.chunk = 0])
    /\ UNCHANGED <<setup, used, source, kept, bad, reported, spinning, memory, disk, link, toR, toS, pauser, faults, calm>>

\* run returns because the transfer was cancelled; finally removes it and calls pump.
RunCancelled(i) ==
    /\ ~spinning /\ Queued(i) /\ Q(i).run = "chunks" /\ Q(i).cancelled
    /\ Pump([snd EXCEPT ![i] = {}])
    /\ UNCHANGED <<setup, used, source, kept, bad, reported, memory, disk, link, toS, data, pauser, faults, calm>>

\* All chunks are out and the buffer is drained, which says nothing of what R received.
RunCompletes(i) ==
    /\ ~spinning /\ Queued(i) /\ Q(i).run = "chunks" /\ Q(i).todo = {} /\ Q(i).chunk = 0
    /\ ~Q(i).cancelled /\ link /\ Room
    /\ snd' = Ended(i, [Q(i) EXCEPT !.awaiting = TRUE, !.run = "no"])
    /\ toR' = Append(toR, Message("complete", i))
    /\ UNCHANGED <<setup, used, source, kept, bad, reported, spinning, memory, disk, link, toS, data, pauser, faults, calm>>

\* run throws because the channel is closed: file.error cannot be sent either, and pump starts it again.
RunFails(i) ==
    /\ ~spinning /\ Queued(i) /\ Q(i).run = "chunks" /\ ~Q(i).cancelled /\ ~link
    /\ ~Q(i).paused \/ Q(i).chunk # 0
    /\ Pump(Ended(i, [Q(i) EXCEPT !.run = "no", !.chunk = 0, !.todo = {}]))
    /\ UNCHANGED <<setup, used, source, kept, bad, reported, memory, disk, link, toS, data, pauser, faults, calm>>

\* sender.cancel.
Cancelled(i) ==
    [snd EXCEPT ![i] = IF \E q \in @ : q.run = "no" THEN {}
                       ELSE {[q EXCEPT !.cancelled = TRUE, !.paused = FALSE, !.awaiting = FALSE] : q \in @}]

\* localSyncDescriptors: what this peer can serve, from memory or from its stored copy.
Available == source \/ kept
SendSyncManifest == SendToR(Message(IF Available THEN "listed" ELSE "nothing", 0))
SendSyncItems == IF Available THEN SendToR(Message("items", 0)) ELSE UNCHANGED toR

\* sender.confirm: a transfer that still runs leaves the queue when run returns.
Confirmed(i) == [snd EXCEPT ![i] = {[q EXCEPT !.awaiting = FALSE, !.gone = TRUE] : q \in {p \in @ : p.run # "no"}}]

\* serveRequestedAttachment: the file in memory or its stored copy is offered.
Serve ==
    IF Available /\ used < MaxTransfers
    THEN Offer(used + 1) /\ source' = TRUE
    ELSE SendToR(Message("unavailable", 0)) /\ UNCHANGED <<snd, used, source>>

\* handleFileControl at S: only transfers this session offered are known.
SenderControl ==
    /\ ~spinning /\ toS # <<>>
    /\ LET m == Head(toS) i == m.id
           Known == Queued(i) /\ ~Q(i).cancelled /\ ~Q(i).gone
       IN /\ toS' = Tail(toS)
          /\ CASE m.type = "hello" ->
                    SendSyncManifest /\ UNCHANGED <<snd, used, source, reported, spinning>>
               [] m.type = "want" ->
                    SendSyncItems /\ UNCHANGED <<snd, used, source, reported, spinning>>
               [] m.type = "request" ->
                    Serve /\ UNCHANGED <<reported, spinning>>
               [] m.type = "accept" /\ Known ->
                    /\ Pump(Change(i, Resumed(Q(i), Chunks)))
                    /\ UNCHANGED <<used, source, reported>>
               [] m.type = "need" /\ Known ->
                    /\ Pump(Change(i, Resumed(Q(i), m.missing)))
                    /\ UNCHANGED <<used, source, reported>>
               [] m.type = "resume" /\ Known ->
                    /\ Pump(Change(i, Resumed(Q(i), Q(i).missing)))
                    /\ UNCHANGED <<used, source, reported>>
               [] m.type = "pause" /\ Known ->
                    /\ snd' = Change(i, [Q(i) EXCEPT !.paused = TRUE])
                    /\ UNCHANGED <<used, source, reported, spinning, toR>>
               [] m.type \in {"cancel", "reject"} /\ Known ->
                    /\ snd' = Cancelled(i)
                    /\ UNCHANGED <<used, source, reported, spinning, toR>>
               [] m.type = "complete" /\ Known ->
                    /\ snd' = Confirmed(i)
                    /\ reported' = reported \cup {i}
                    /\ UNCHANGED <<used, source, spinning, toR>>
               [] OTHER -> UNCHANGED <<snd, used, source, reported, spinning, toR>>
    /\ UNCHANGED <<setup, kept, bad, memory, disk, link, data>> /\ Calm

---------------------------------------------------------------------------
(* The receiver.                                                           *)

In(i) == rcv[i] # {}
T(i) == CHOOSE t \in rcv[i] : TRUE
Put(i, t) == rcv' = [rcv EXCEPT ![i] = {t}]
NewIncoming(auto) == [state |-> "offered", received |-> {}, known |-> FALSE, missing |-> {}, auto |-> auto, tell |-> FALSE]

IsReceiving(i) == In(i) /\ T(i).state \in {"accepted", "transferring"}
Writing(i) == {w \in writes : w.id = i}

\* The browser keeps chunks by attachment, the desktop by transfer.
Key(i) == IF setup.desktop THEN i ELSE 1
Held(i) == {c \in Chunks : store[Key(i)][c] # "no"}
\* listMissingChunks.
MissingChunks(i) == Chunks \ Held(i)
NoChunks == [c \in Chunks |-> "no"]

\* sink.discard: in the browser the chunks go with the last record of the attachment.
Discarded(i) == [records EXCEPT ![i] = "none"]

\* Mutant: the chunks stay.
ClearedNot(i) == store

Cleared(i) ==
    IF setup.desktop \/ \A j \in DOMAIN records \ {i} : records[j] = "none"
    THEN [store EXCEPT ![Key(i)] = NoChunks] ELSE store
Discard(i) ==
    IF records[i] = "none" /\ ~setup.desktop THEN UNCHANGED disk
    ELSE records' = Discarded(i) /\ store' = Cleared(i) /\ UNCHANGED final

\* Bookkeeping of the progress that queueProgress stores.
Note(i, s) == records' = [records EXCEPT ![i] = IF @ = "none" THEN @ ELSE s]

\* recordIncomingOffer: the first offer of a transfer is recorded.
Recorded(r, i) == [r EXCEPT ![i] = IF @ = "none" THEN "waiting" ELSE @]

\* handleOffer, also for a manifest of an unknown transfer: at the limit an offer nobody accepted makes room.
ReceiveOffer(i) ==
    LET present == {j \in Ids : In(j)}
        pending == {j \in present : T(j).state = "offered"}
        auto == requested \/ ~setup.large
        Enter(out) == /\ rcv' = [j \in Ids |-> IF j = i THEN {NewIncoming(auto)} ELSE IF j \in out THEN {} ELSE rcv[j]]
                      /\ accepting' = IF auto THEN [accepting EXCEPT ![i] = "prepare"] ELSE accepting
                      /\ requested' = FALSE
    IN IF In(i) THEN UNCHANGED <<memory, disk, toS>>
       ELSE IF Cardinality(present) < MaxIncoming
       THEN /\ Enter({})
            /\ records' = Recorded(records, i)
            /\ UNCHANGED <<completing, writes, verified, store, final, toS>>
       ELSE IF pending = {}
       THEN SendToS(Message("reject", i)) /\ UNCHANGED <<memory, disk>>
       ELSE LET j == CHOOSE j \in pending : \A k \in pending : j <= k
            IN /\ Enter({j})
               /\ SendToS(Message("reject", j))
               /\ records' = Recorded(Discarded(j), i)
               /\ store' = Cleared(j)
               /\ UNCHANGED <<completing, writes, verified, final>>

\* receiver.cancel up to its wait for the writes in flight.
BeginCancel(i, tell) == Put(i, [T(i) EXCEPT !.state = "cancelled", !.tell = tell])

\* updateState: whatever state the transfer is in.
UpdateState(i, s) ==
    IF In(i) THEN Put(i, [T(i) EXCEPT !.state = s]) /\ Note(i, s) ELSE UNCHANGED <<rcv, records>>

Listed == {j \in DOMAIN records : records[j] # "none"}
\* acceptSyncManifest: an attachment no record names is asked for.
AcceptSyncManifest == IF Listed # {} THEN UNCHANGED toS ELSE SendToS(Message("want", 0))
\* acceptSyncItems, registerSyncedMetadata.
AcceptSyncItems == records' = IF Listed # {} THEN records ELSE [records EXCEPT ![0] = "waiting"]

\* markRequestedAttachmentError, with the first record the database returns.
MarkRequestedError ==
    /\ requested' = FALSE
    /\ IF Listed = {} THEN UNCHANGED records
       ELSE \E j \in Listed : records' = [records EXCEPT ![j] = IF @ = "completed" THEN @ ELSE "failed"]

\* handleFileControl at R.
ReceiverControl ==
    /\ toR # <<>>
    /\ toR' = Tail(toR)
    /\ LET m == Head(toR) i == m.id
       IN CASE m.type \in {"offer", "manifest"} -> ReceiveOffer(i)
            [] m.type = "listed" ->
                 AcceptSyncManifest /\ UNCHANGED <<memory, disk>>
            [] m.type = "items" ->
                 AcceptSyncItems /\ UNCHANGED <<memory, store, final, toS>>
            [] m.type = "unavailable" ->
                 /\ MarkRequestedError
                 /\ UNCHANGED <<rcv, accepting, completing, writes, verified, store, final, toS>>
            [] m.type = "pause" ->
                 /\ UpdateState(i, "paused")
                 /\ UNCHANGED <<accepting, completing, writes, requested, verified, store, final, toS>>
            [] m.type = "resume" ->
                 /\ UpdateState(i, "transferring")
                 /\ UNCHANGED <<accepting, completing, writes, requested, verified, store, final, toS>>
            [] m.type = "cancel" /\ In(i) ->
                 /\ BeginCancel(i, FALSE)
                 /\ UNCHANGED <<accepting, completing, writes, requested, verified, disk, toS>>
            [] m.type = "complete" /\ IsReceiving(i) /\ completing[i] = "no" ->
                 /\ completing' = [completing EXCEPT ![i] = "wait"]
                 /\ UNCHANGED <<rcv, accepting, writes, requested, verified, disk, toS>>
            [] OTHER -> UNCHANGED <<memory, disk, toS>>
    /\ UNCHANGED <<setup, sender, link, data>> /\ Calm

\* accept, after sink.prepare succeeded or failed.
AcceptPrepared(i) ==
    /\ accepting[i] = "prepare"
    /\ \/ /\ accepting' = [accepting EXCEPT ![i] = "list"]
          /\ rcv' = [rcv EXCEPT ![i] = {[t EXCEPT !.state = "accepted"] : t \in @}]
          /\ records' = [records EXCEPT ![i] = IF @ = "none" THEN "accepted" ELSE @]
          /\ UNCHANGED <<store, final, toS>> /\ Calm
       \/ /\ Disturb
          /\ accepting' = [accepting EXCEPT ![i] = "no"]
          /\ IF \E t \in rcv[i] : t.auto
             THEN rcv' = [rcv EXCEPT ![i] = {}] /\ Discard(i) /\ SendToS(Message("reject", i))
             ELSE UNCHANGED <<rcv, disk, toS>>
    /\ UNCHANGED <<setup, sender, completing, writes, requested, verified, link, toR, data>>

\* accept, with the list of missing chunks: the answer names them unless all are missing.
AcceptListed(i) ==
    /\ accepting[i] = "list" /\ link
    /\ accepting' = [accepting EXCEPT ![i] = "no"]
    /\ LET missing == MissingChunks(i)
       IN /\ rcv' = [rcv EXCEPT ![i] = {[t EXCEPT !.known = TRUE, !.missing = missing, !.state = "transferring"] : t \in @}]
          /\ SendToS(IF missing = Chunks THEN Message("accept", i) ELSE Need(i, missing))
    /\ IF In(i) THEN Note(i, "transferring") ELSE UNCHANGED records
    /\ UNCHANGED <<setup, sender, completing, writes, requested, verified, store, final, link, toR, data>> /\ Calm

\* accept fails because the answer cannot be sent.
AcceptFails(i) ==
    /\ accepting[i] = "list" /\ ~link
    /\ accepting' = [accepting EXCEPT ![i] = "no"]
    /\ IF \E t \in rcv[i] : t.auto
       THEN rcv' = [rcv EXCEPT ![i] = {}] /\ Discard(i)
       ELSE UNCHANGED <<rcv, disk>>
    /\ UNCHANGED <<setup, sender, completing, writes, requested, verified, net>> /\ Calm

\* handleChunk.
ReceiveChunk ==
    /\ data # <<>>
    /\ data' = Tail(data)
    /\ LET f == Head(data)
           Fresh == f.chunk \notin T(f.id).received /\ \A w \in Writing(f.id) : w.chunk # f.chunk
       IN writes' = IF IsReceiving(f.id) /\ Fresh
                    THEN writes \cup {[id |-> f.id, chunk |-> f.chunk, bad |-> f.bad, step |-> "verify"]} ELSE writes
    /\ UNCHANGED <<setup, sender, rcv, accepting, completing, requested, verified, disk, link, toR, toS>> /\ Calm

\* processChunk up to the write: a chunk that does not match its hash is asked for again.
ChunkVerified(w) ==
    /\ w.step = "verify"
    /\ LET i == w.id
           Done == writes' = writes \ {w}
           stored == IF T(i).known THEN w.chunk \notin T(i).missing ELSE w.chunk \in Held(i)
       IN IF ~IsReceiving(i) THEN Done /\ UNCHANGED <<rcv, toS>>
          ELSE IF w.bad /\ setup.hashes THEN Done /\ SendToS(Need(i, {w.chunk})) /\ UNCHANGED rcv
          ELSE IF stored THEN Done /\ Put(i, [T(i) EXCEPT !.received = @ \cup {w.chunk}]) /\ UNCHANGED toS
          ELSE writes' = (writes \ {w}) \cup {[w EXCEPT !.step = "write"]} /\ UNCHANGED <<rcv, toS>>
    /\ UNCHANGED <<setup, sender, accepting, completing, requested, verified, disk, link, toR, data>> /\ Calm

\* A pause that came while the chunk was written stays.
StateAfterWrite(s) == IF s = "paused" THEN s ELSE "transferring"

\* sink.writeChunk.
Stored(w) == [store EXCEPT ![Key(w.id)][w.chunk] = IF w.bad THEN "bad" ELSE "good"]

\* processChunk after sink.writeChunk, which refuses a transfer without a record (a directory on the desktop).
ChunkWritten(w) ==
    /\ w.step = "write"
    /\ writes' = writes \ {w}
    /\ LET i == w.id
       IN IF records[i] = "none" THEN UNCHANGED <<rcv, disk>>
          ELSE IF ~In(i) THEN Discard(i) /\ UNCHANGED rcv
          ELSE IF T(i).state = "cancelled" THEN store' = Stored(w) /\ UNCHANGED <<rcv, records, final>>
          ELSE LET t == [T(i) EXCEPT !.received = @ \cup {w.chunk}, !.missing = @ \ {w.chunk}, !.state = StateAfterWrite(@)]
               IN Put(i, t) /\ Note(i, t.state) /\ store' = Stored(w) /\ UNCHANGED final
    /\ UNCHANGED <<setup, sender, accepting, completing, requested, verified, net>> /\ Calm

\* waitForInFlightWrites.
WritesSettled(i) == Writing(i) = {}

\* complete after the writes in flight: what is missing is asked for, or the content is verified.
CompleteChecked(i) ==
    /\ completing[i] = "wait" /\ WritesSettled(i)
    /\ LET missing == IF T(i).known THEN T(i).missing ELSE MissingChunks(i)
       IN IF ~IsReceiving(i) THEN completing' = [completing EXCEPT ![i] = "no"] /\ UNCHANGED <<rcv, records, toS>>
          ELSE IF missing # {}
          THEN /\ completing' = [completing EXCEPT ![i] = "no"]
               /\ Put(i, [T(i) EXCEPT !.known = TRUE, !.missing = missing])
               /\ SendToS(Need(i, missing))
               /\ UNCHANGED records
          ELSE /\ completing' = [completing EXCEPT ![i] = "verify"]
               /\ Put(i, [T(i) EXCEPT !.known = TRUE, !.missing = {}, !.state = "verifying"])
               /\ Note(i, "verifying")
               /\ UNCHANGED toS
    /\ UNCHANGED <<setup, sender, accepting, writes, requested, verified, store, final, link, toR, data>> /\ Calm

\* sink.finalize: the desktop verifies the content and moves it, the browser marks the record and returns the hash.
Finalize(i) ==
    /\ completing[i] = "verify"
    /\ LET intact == \A c \in Chunks : store[Key(i)][c] = "good"
           result == IF Held(i) # Chunks \/ records[i] = "none" \/ (setup.desktop /\ ~intact) THEN "error"
                     ELSE IF intact THEN "intact" ELSE "mismatch"
       IN /\ completing' = [completing EXCEPT ![i] = result]
          /\ IF result = "error" THEN UNCHANGED disk
             ELSE /\ records' = [records EXCEPT ![i] = "completed"]
                  /\ final' = IF result = "intact" THEN final \cup {i} ELSE final
                  /\ store' = IF setup.desktop THEN [store EXCEPT ![Key(i)] = NoChunks] ELSE store
    /\ UNCHANGED <<setup, sender, rcv, accepting, writes, requested, verified, net>> /\ Calm

\* Mutant: the hash is computed and not compared.
VerdictUnchecked(r) == r # "error"

Verdict(r) == r = "intact"

\* complete after finalize: a transfer cancelled meanwhile is discarded, a wrong hash fails.
Finalized(i) ==
    /\ completing[i] \in {"intact", "mismatch", "error"}
    /\ completing' = [completing EXCEPT ![i] = "no"]
    /\ IF ~In(i) \/ T(i).state # "verifying"
       THEN /\ IF completing[i] = "error" THEN UNCHANGED disk ELSE Discard(i)
            /\ UNCHANGED <<rcv, verified, toS>>
       ELSE IF Verdict(completing[i]) /\ link
       THEN /\ verified' = verified \cup {i}
            /\ rcv' = [rcv EXCEPT ![i] = {}]
            /\ SendToS(Message("complete", i))
            /\ UNCHANGED disk
       ELSE /\ Put(i, [T(i) EXCEPT !.state = "failed"])
            /\ Note(i, "failed")
            /\ SendToS(Message("error", i))
            /\ UNCHANGED <<verified, store, final>>
    /\ UNCHANGED <<setup, sender, accepting, writes, requested, link, toR, data>> /\ Calm

\* receiver.cancel after the writes in flight; cancelIncoming keeps a record of it.
CancelEnds(i) ==
    /\ In(i) /\ T(i).state = "cancelled" /\ WritesSettled(i)
    /\ rcv' = [rcv EXCEPT ![i] = {}]
    /\ records' = [records EXCEPT ![i] = "cancelled"]
    /\ store' = Cleared(i)
    /\ IF T(i).tell THEN SendToS(Message("cancel", i)) ELSE UNCHANGED toS
    /\ UNCHANGED <<setup, sender, accepting, completing, writes, requested, verified, final, link, toR, data>> /\ Calm

---------------------------------------------------------------------------
(* Users, connections and restarts.                                        *)

\* requestDownload, from the buttons of AttachmentCard: an offer kept for the user is accepted, anything else is
\* asked for again; a failed request for synchronised metadata is repeated.
Request(j) ==
    /\ link /\ records[j] \in {"waiting", "cancelled"} \cup (IF j = 0 THEN {"failed"} ELSE {}) /\ ~requested /\ Calm
    /\ IF j \in Ids /\ In(j) /\ T(j).state = "offered" /\ accepting[j] = "no"
       THEN accepting' = [accepting EXCEPT ![j] = "prepare"] /\ UNCHANGED <<requested, records, toS>>
       ELSE /\ used < MaxTransfers /\ \A i \in Ids : accepting[i] = "no"
            /\ requested' = TRUE
            /\ SendToS(Message("request", 0))
            /\ records' = [records EXCEPT ![j] = "waiting"]
            /\ UNCHANGED accepting
    /\ UNCHANGED <<setup, sender, rcv, completing, writes, verified, store, final, link, toR, data>>

\* AttachmentService.pause, offered by the interface while the transfer is active and not being verified.
PauseAtR(i) ==
    /\ In(i) /\ T(i).state = "transferring" /\ Fault /\ pauser' = "R"
    /\ UpdateState(i, "paused")
    /\ SendToS(Message("pause", i))
    /\ UNCHANGED <<setup, sender, accepting, completing, writes, requested, verified, store, final, link, toR, data, calm>>
PauseAtS(i) ==
    /\ ~spinning /\ Queued(i) /\ Q(i).run = "chunks" /\ ~Q(i).paused /\ ~Q(i).cancelled /\ ~Q(i).gone /\ Fault /\ pauser' = "S"
    /\ snd' = Change(i, [Q(i) EXCEPT !.paused = TRUE])
    /\ SendToR(Message("pause", i))
    /\ UNCHANGED <<setup, used, source, kept, bad, reported, spinning, memory, disk, link, toS, data, calm>>

\* AttachmentService.resume, also the retry of a failed transfer.
ResumeAtR(i) ==
    /\ link /\ In(i) /\ T(i).state \in {"paused", "failed"}
    /\ AnyoneResumes \/ pauser = "R" \/ T(i).state = "failed"
    /\ UpdateState(i, "transferring")
    /\ SendToS(Message("resume", i))
    /\ UNCHANGED <<setup, sender, accepting, completing, writes, requested, verified, store, final, link, toR, data>> /\ Calm
ResumeAtS(i) ==
    /\ ~spinning /\ link /\ Queued(i) /\ Q(i).paused
    /\ AnyoneResumes \/ pauser = "S"
    /\ snd' = Change(i, [Resumed(Q(i), Q(i).missing) EXCEPT !.run = "chunks", !.todo = IF Q(i).run = "no" THEN Q(i).missing ELSE Q(i).todo])
    /\ toR' = toR \o (IF Q(i).run = "no" THEN <<Message("manifest", i)>> ELSE <<>>) \o <<Message("resume", i)>>
    /\ UNCHANGED <<setup, used, source, kept, bad, reported, spinning, memory, disk, link, toS, data>> /\ Calm

\* AttachmentService.cancel.
CancelAtR(i) ==
    /\ In(i) /\ T(i).state \in {"transferring", "verifying", "paused"} /\ Disturb
    /\ BeginCancel(i, TRUE)
    /\ UNCHANGED <<setup, sender, accepting, completing, writes, requested, verified, disk, net>>
CancelAtS(i) ==
    /\ ~spinning /\ Queued(i) /\ ~Q(i).cancelled /\ ~Q(i).gone /\ (Q(i).run = "chunks" \/ Q(i).awaiting \/ Q(i).paused) /\ Disturb
    /\ snd' = Cancelled(i)
    /\ SendToR(Message("cancel", i))
    /\ UNCHANGED <<setup, used, source, kept, bad, reported, spinning, memory, disk, link, toS, data>>

\* The file changes on S's disk.
SourceChanges(c) ==
    /\ source /\ bad = {} /\ Disturb
    /\ bad' = {c}
    /\ UNCHANGED <<setup, snd, used, source, kept, reported, spinning, memory, disk, net>>

Drop == link' = FALSE /\ toR' = <<>> /\ toS' = <<>> /\ data' = <<>>

Break == link /\ Disturb /\ Drop /\ UNCHANGED <<setup, sender, memory, disk>>

\* The control channel is back: peerReady synchronises the metadata again.
Reconnect ==
    /\ ~link /\ link' = TRUE
    /\ toS' = <<Message("hello", 0)>>
    /\ UNCHANGED <<setup, sender, memory, disk, toR, data>> /\ Calm

\* persistOutgoingSource had kept a whole copy of the file or had not, which is told only when the file in memory is gone.
PersistOutgoingSource == kept' \in {kept, kept \/ (source /\ bad = {})}

\* R's or S's application is restarted: what is in memory is lost.
RestartR ==
    /\ Fault /\ calm' = "restarted" /\ UNCHANGED pauser /\ Drop
    /\ rcv' = [i \in Ids |-> {}] /\ writes' = {} /\ requested' = FALSE
    /\ accepting' = [i \in Ids |-> "no"] /\ completing' = [i \in Ids |-> "no"]
    /\ UNCHANGED <<setup, sender, verified, disk>>
RestartS ==
    /\ Disturb /\ Drop
    /\ snd' = [i \in Ids |-> {}] /\ source' = FALSE /\ bad' = {} /\ spinning' = FALSE
    /\ PersistOutgoingSource
    /\ UNCHANGED <<setup, used, reported, memory, disk>>

---------------------------------------------------------------------------
Init ==
    /\ setup \in Setups
    /\ snd = [i \in Ids |-> {}] /\ used = 0 /\ source = FALSE /\ kept = FALSE /\ bad = {} /\ reported = {} /\ spinning = FALSE
    /\ rcv = [i \in Ids |-> {}] /\ accepting = [i \in Ids |-> "no"] /\ completing = [i \in Ids |-> "no"]
    /\ writes = {} /\ requested = FALSE /\ verified = {}
    /\ records = [i \in 0..MaxTransfers |-> "none"] /\ store = [i \in Ids |-> NoChunks] /\ final = {}
    /\ pauser = "none" /\ link = TRUE /\ toR = <<>> /\ toS = <<Message("hello", 0)>> /\ data = <<>> /\ faults = 0 /\ calm = "yes"

SenderStep(i) == TakeChunk(i) \/ SendChunk(i) \/ RunCancelled(i) \/ RunCompletes(i) \/ RunFails(i)
ReceiverStep(i) == AcceptPrepared(i) \/ AcceptListed(i) \/ AcceptFails(i) \/ CompleteChecked(i)
                   \/ Finalize(i) \/ Finalized(i) \/ CancelEnds(i)
UserStep(i) == PauseAtR(i) \/ PauseAtS(i) \/ ResumeAtR(i) \/ ResumeAtS(i) \/ CancelAtR(i) \/ CancelAtS(i)

Next ==
    \/ SendFile \/ SenderControl \/ ReceiverControl \/ ReceiveChunk
    \/ \E i \in Ids : SenderStep(i) \/ ReceiverStep(i) \/ UserStep(i)
    \/ \E w \in writes : ChunkVerified(w) \/ ChunkWritten(w)
    \/ \E j \in DOMAIN records : Request(j)
    \/ \E c \in Chunks : SourceChanges(c)
    \/ Break \/ Reconnect \/ RestartR \/ RestartS

Spec == Init /\ [][Next]_vars

\* The event loops of both ends, the storage and the channels make progress; users accept offers and resume pauses.
Fairness ==
    /\ WF_vars(SenderControl) /\ WF_vars(ReceiverControl) /\ WF_vars(ReceiveChunk)
    /\ WF_vars(\E w \in writes : ChunkVerified(w) \/ ChunkWritten(w))
    /\ WF_vars(\E j \in DOMAIN records : Request(j))
    /\ \A i \in Ids : WF_vars(SenderStep(i)) /\ WF_vars(ReceiverStep(i)) /\ WF_vars(ResumeAtR(i)) /\ WF_vars(ResumeAtS(i))

FairSpec == Spec /\ Fairness

---------------------------------------------------------------------------
(* Properties.                                                             *)

TypeOK ==
    /\ \A i \in Ids : /\ Cardinality(snd[i]) <= 1 /\ Cardinality(rcv[i]) <= 1
                      /\ \A t \in rcv[i] : t.state \in {"offered", "accepted", "transferring", "paused", "verifying", "cancelled", "failed"}
                      /\ \A q \in snd[i] : q.run \in {"no", "chunks"} /\ q.missing \subseteq Chunks
    /\ accepting \in [Ids -> {"no", "prepare", "list"}]
    /\ completing \in [Ids -> {"no", "wait", "verify", "intact", "mismatch", "error"}]
    /\ used \in 0..MaxTransfers /\ final \subseteq Ids /\ verified \subseteq Ids /\ reported \subseteq Ids
    /\ store \in [Ids -> [Chunks -> {"no", "good", "bad"}]]

\* The transfer keeps the promise of Delivery: verified content is complete and intact, it is dropped only while the
\* same transfer is under way again or after its record is gone, and the sender reports only what the receiver
\* verified, through changed files, cancellations, restarts and late messages.
UnderWay(i) == In(i) \/ completing[i] # "no" \/ Writing(i) # {} \/ records[i] = "none"
Promise == INSTANCE Delivery WITH
    have <- [i \in Ids |-> IF setup.desktop /\ i \in final THEN Chunks ELSE {c \in Chunks : store[Key(i)][c] = "good"}],
    active <- {i \in Ids : UnderWay(i)}
Delivers == Promise!Spec

\* The chunks of a transfer that is cancelled, rejected or failed to start do not stay behind: while the application
\* is not restarted, chunks are kept only for a transfer it knows, for verified content or, in the browser, because the
\* attachment was offered more than once or its metadata were synchronised and one of its records is still there.
NoOrphanChunks ==
    \A i \in Ids : Held(i) # {} =>
        \/ calm = "restarted" \/ \E j \in Ids : Key(j) = Key(i) /\ (In(j) \/ j \in final)
        \/ ~setup.desktop /\ Listed # {} /\ (used > 1 \/ 0 \in Listed)

\* An offered file is delivered although control messages overtake chunks, either side pauses at any moment and a
\* second offer competes, as long as nobody cancels and the connection holds.
Completes == used # 0 ~> (reported # {} \/ calm # "yes")

\* The receiver's disk holds nothing that no transfer and no content accounts for (NoOrphanChunks), through the
\* discards of cancel, reject, failed starts and finalization.
DiskIsAccountedFor == TypeOK /\ NoOrphanChunks
===========================================================================
