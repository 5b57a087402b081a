---------------------------- MODULE ChatDelivery ----------------------------
(***************************************************************************)
(* How the messages and events of one channel reach the other peers: the   *)
(* outbox and its acknowledgements, and the history that two peers ask of  *)
(* each other when they meet.                                              *)
(*                                                                         *)
(* Sources: apps/web/src/chat/ChatController.ts (send, receive,            *)
(* markPeerReady), OutboxService.ts, HistoryService.ts and the storage     *)
(* below them.                                                             *)
(*                                                                         *)
(* An item is a number: its place in the order of timestamps and ids, by   *)
(* which history is paged.  Peers trust each other and signatures verify.  *)
(* Stores and outboxes survive a restart, everything else does not.  A     *)
(* DataChannel is a FIFO queue that refuses what does not fit: sendData    *)
(* returns 0 on a congested channel and the sender does not try again.     *)
(***************************************************************************)
EXTENDS Naturals, Sequences, FiniteSets

CONSTANTS
    Peers,        \* the peers of the channel
    Messages,     \* signed messages ...
    Events,       \* ... and signed events about them
    Author,       \* Author[i]: the peer that signs item i
    Starts,       \* BOUND: what each peer kept of earlier sessions, and the faults in the past
    NoRequest,    \* no history request is open
    PageSize,     \* MAX_HISTORY_IDS
    ChunkSize,    \* HISTORY_CHUNK_MESSAGES, HISTORY_CHUNK_EVENTS
    MaxBuffer,    \* MAX_DATA_BUFFER_BYTES, counted in wire messages
    MayExpire,    \* BOUND: items that may outlive QUEUED_MESSAGE_MAX_AGE_MS
    MaxFaults     \* BOUND: lost channels, restarts, failed writes, early messages, expiries

Items == Messages \cup Events

ASSUME ChatAssumption ==
    /\ Messages \subseteq Nat \ {0} /\ Events \subseteq Nat \ {0}
    /\ Messages \cap Events = {} /\ IsFiniteSet(Items)
    /\ Author \in [Items -> Peers]
    /\ Starts \subseteq [kept : [Peers -> SUBSET Items], faults : Nat]
    /\ PageSize \in Nat \ {0} /\ ChunkSize \in Nat \ {0} /\ MaxBuffer \in Nat \ {0}
    /\ MayExpire \subseteq Items /\ MaxFaults \in Nat

Pairs == {pq \in Peers \X Peers : pq[1] # pq[2]}

\* What a peer asks of another: the page below two cursors (0: none), without
\* what it knows already.
Request == [id : Nat, known : SUBSET Items, mBefore : Nat, eBefore : Nat,
            mDone : BOOLEAN, eDone : BOOLEAN]
HistoryState == [id : Nat, mBefore : Nat, eBefore : Nat, mDone : BOOLEAN, eDone : BOOLEAN]

ASSUME NoRequestAssumption == NoRequest \notin HistoryState

Wire == [type : {"item", "ack"}, item : Items]
        \cup [type : {"request"}, req : Request]
        \cup [type : {"chunk"}, id : Nat, items : SUBSET Items]
        \cup [type : {"complete"}, id : Nat, mNext : Nat, eNext : Nat]

\* What markPeerReady still has to do for a peer.
Task == [step : {"load"}] \cup [step : {"flush"}, records : SUBSET Items]
        \cup [step : {"mark"}, item : Items, records : SUBSET Items]

VARIABLES
    store,      \* store[p]: items in the database of p
    outbox,     \* outbox[p]: records waiting for an acknowledgement
    phase,      \* phase[i]: how far send() has come with item i
    expired,    \* items older than QUEUED_MESSAGE_MAX_AGE_MS
    links,      \* pairs with an open DataChannel, in both directions
    ready,      \* ready[p]: openDataPeers
    chan,       \* chan[<<p, q>>]: what p sent to q
    tasks,      \* tasks[<<p, q>>]: what p prepares for q
    storing,    \* storing[p]: <<q, i>> when item i of q is being verified and saved
    answering,  \* answering[<<p, q>>]: requests of q that p is working on
    applying,   \* applying[p]: what is left of the accepted chunks being saved
    hist,       \* hist[<<p, q>>]: the request p has open at q
    due,        \* history: what q held when p asked for the open request's first page
    faults

vars == <<store, outbox, phase, expired, links, ready, chan, tasks, storing, answering,
          applying, hist, due, faults>>

TypeOK ==
    /\ store \in [Peers -> SUBSET Items] /\ outbox \in [Peers -> SUBSET Items]
    /\ phase \in [Items -> {"new", "queued", "sent", "done"}]
    /\ expired \subseteq Items /\ links \subseteq Pairs
    /\ ready \in [Peers -> SUBSET Peers]
    /\ chan \in [Pairs -> Seq(Wire)]
    /\ tasks \in [Pairs -> SUBSET Task]
    /\ storing \in [Peers -> SUBSET (Peers \X Items)]
    /\ answering \in [Pairs -> SUBSET Request]
    /\ applying \in [Peers -> SUBSET ((SUBSET Items) \ {{}})]
    /\ hist \in [Pairs -> HistoryState \cup {NoRequest}]
    /\ due \in [Pairs -> SUBSET Items]
    /\ faults \in Nat

\* Items of earlier sessions, which are not written again.
Stored == UNION {s.kept[p] : s \in Starts, p \in Peers}

Init ==
    /\ \E s \in Starts : store = s.kept /\ faults = s.faults
    /\ outbox = [p \in Peers |-> {}]
    /\ phase = [i \in Items |-> IF i \in Stored THEN "done" ELSE "new"]
    /\ expired = {} /\ links = {}
    /\ ready = [p \in Peers |-> {}]
    /\ chan = [pq \in Pairs |-> <<>>]
    /\ tasks = [pq \in Pairs |-> {}]
    /\ storing = [p \in Peers |-> {}]
    /\ answering = [pq \in Pairs |-> {}]
    /\ applying = [p \in Peers |-> {}]
    /\ hist = [pq \in Pairs |-> NoRequest]
    /\ due = [pq \in Pairs |-> {}]

----------------------------------------------------------------------------
(* Sending on the channel from p to q.                                     *)

Rev(pq) == <<pq[2], pq[1]>>

Room(pq) == pq \in links /\ Len(chan[pq]) < MaxBuffer

\* sendData: what is refused is gone.
Sent(pq, m) == IF Room(pq) THEN Append(chan[pq], m) ELSE chan[pq]

Ack(i) == [type |-> "ack", item |-> i]

Item(i) == [type |-> "item", item |-> i]

----------------------------------------------------------------------------
(* send and publishEvent: the record is queued, then sent to whoever is    *)
(* there, then stored.                                                     *)

Enqueue(i) ==
    /\ phase[i] = "new"
    /\ phase' = [phase EXCEPT ![i] = "queued"]
    /\ outbox' = [outbox EXCEPT ![Author[i]] = @ \cup {i}]
    /\ UNCHANGED <<store, expired, links, ready, chan, tasks, storing, answering,
                   applying, hist, due, faults>>

SendToAuthenticatedPeers(i) ==
    /\ phase[i] = "queued"
    /\ phase' = [phase EXCEPT ![i] = "sent"]
    /\ chan' = [pq \in Pairs |->
                   IF pq[1] = Author[i] /\ pq[2] \in ready[pq[1]]
                     THEN Sent(pq, Item(i)) ELSE chan[pq]]
    /\ UNCHANGED <<store, outbox, expired, links, ready, tasks, storing, answering,
                   applying, hist, due, faults>>

PersistSigned(i) ==
    /\ phase[i] = "sent"
    /\ phase' = [phase EXCEPT ![i] = "done"]
    /\ store' = [store EXCEPT ![Author[i]] = @ \cup {i}]
    /\ UNCHANGED <<outbox, expired, links, ready, chan, tasks, storing, answering,
                   applying, hist, due, faults>>

\* The record becomes too old to be parsed as a live item.
Expire(i) ==
    /\ i \in MayExpire \ expired /\ phase[i] = "done" /\ faults < MaxFaults
    /\ expired' = expired \cup {i}
    /\ faults' = faults + 1
    /\ UNCHANGED <<store, outbox, phase, links, ready, chan, tasks, storing, answering,
                   applying, hist, due>>

----------------------------------------------------------------------------
(* A channel opens, and each end authenticates the other in its own time.  *)

\* Timing: a new channel takes a negotiation through the signaling service; by
\* then a write of the outbox that was under way is done.
Connect(pq) ==
    /\ pq \notin links /\ tasks[pq] = {} /\ tasks[Rev(pq)] = {}
    /\ links' = links \cup {pq, Rev(pq)}
    /\ UNCHANGED <<store, outbox, phase, expired, ready, chan, tasks, storing, answering,
                   applying, hist, due, faults>>

MarkPeerReady(pq) ==
    /\ pq \in links /\ pq[2] \notin ready[pq[1]]
    /\ ready' = [ready EXCEPT ![pq[1]] = @ \cup {pq[2]}]
    /\ tasks' = [tasks EXCEPT ![pq] = @ \cup {[step |-> "load"]}]
    /\ UNCHANGED <<store, outbox, phase, expired, links, chan, storing, answering,
                   applying, hist, due, faults>>

Active(pq) == pq[2] \in ready[pq[1]]

Continue(pq, t, S) == tasks' = [tasks EXCEPT ![pq] = (@ \ {t}) \cup S]

LoadOutbox(pq, t) ==
    /\ t \in tasks[pq] /\ t.step = "load"
    /\ Continue(pq, t, {[step |-> "flush", records |-> outbox[pq[1]]]})
    /\ UNCHANGED <<store, outbox, phase, expired, links, ready, chan, storing, answering,
                   applying, hist, due, faults>>

\* flush: a record that no longer parses is removed, the others are sent.
FlushNext(pq, t) ==
    /\ t \in tasks[pq] /\ t.step = "flush"
    /\ \E i \in t.records :
        LET rest == [step |-> "flush", records |-> t.records \ {i}] IN
        IF i \in expired
          THEN /\ outbox' = [outbox EXCEPT ![pq[1]] = @ \ {i}]
               /\ Continue(pq, t, {rest})
               /\ UNCHANGED chan
          ELSE /\ chan' = [chan EXCEPT ![pq] = Sent(pq, Item(i))]
               /\ Continue(pq, t, {IF Room(pq)
                                     THEN [step |-> "mark", item |-> i,
                                           records |-> t.records \ {i}]
                                     ELSE rest})
               /\ UNCHANGED outbox
    /\ UNCHANGED <<store, phase, expired, links, ready, storing, answering,
                   applying, hist, due, faults>>

\* markOutboxAttempt writes the loaded record again, acknowledged or not.
MarkOutboxAttempt(pq, t) ==
    /\ t \in tasks[pq] /\ t.step = "mark"
    /\ outbox' = [outbox EXCEPT ![pq[1]] = @ \cup {t.item}]
    /\ Continue(pq, t, IF Active(pq) THEN {[step |-> "flush", records |-> t.records]} ELSE {})
    /\ UNCHANGED <<store, phase, expired, links, ready, chan, storing, answering,
                   applying, hist, due, faults>>

----------------------------------------------------------------------------
(* History.                                                                *)

Oldest(S) == CHOOSE i \in S : \A j \in S : i <= j

\* The newest PageSize items of S below the cursor.
Page(S, before) ==
    LET T == {i \in S : before = 0 \/ i < before}
    IN  {i \in T : Cardinality({j \in T : j > i}) < PageSize}

\* The cursor of a full page: its oldest item.
Cursor(page) ==
    IF Cardinality(page) = PageSize THEN Oldest(page) ELSE 0

\* S in ascending order, ChunkSize items at a time.
Chunks(S, id) ==
    [k \in 1..((Cardinality(S) + ChunkSize - 1) \div ChunkSize) |->
        [type |-> "chunk", id |-> id,
         items |-> {i \in S : Cardinality({j \in S : j < i}) \div ChunkSize = k - 1}]]

Ask(s, known) ==
    [type |-> "request",
     req |-> [id |-> s.id, known |-> known, mBefore |-> s.mBefore, eBefore |-> s.eBefore,
              mDone |-> s.mDone, eDone |-> s.eDone]]

FirstPage == [id |-> 1, mBefore |-> 0, eBefore |-> 0, mDone |-> FALSE, eDone |-> FALSE]

\* requestHistory, once all records are flushed, unless a request is open; without
\* room issueRequest forgets it at once.
RequestHistory(pq, t) ==
    /\ t \in tasks[pq] /\ t.step = "flush" /\ t.records = {}
    /\ Continue(pq, t, {})
    /\ IF hist[pq] # NoRequest \/ ~Room(pq) THEN UNCHANGED <<hist, chan, due>>
       ELSE /\ hist' = [hist EXCEPT ![pq] = FirstPage]
            /\ chan' = [chan EXCEPT ![pq] =
                           Append(@, Ask(FirstPage, Page(store[pq[1]] \cap Messages, 0)
                                                    \cup Page(store[pq[1]] \cap Events, 0)))]
            /\ due' = [due EXCEPT ![pq] = store[pq[2]]]
    /\ UNCHANGED <<store, outbox, phase, expired, links, ready, storing, answering,
                   applying, faults>>

\* respond: chunks and the final cursors, as far as the channel takes them.
Respond(pq, r) ==
    LET page(S, before, done) == IF done THEN {} ELSE Page(store[pq[1]] \cap S, before)
        messages == page(Messages, r.mBefore, r.mDone)
        events   == page(Events, r.eBefore, r.eDone)
        wires    == Chunks(messages \ r.known, r.id) \o Chunks(events \ r.known, r.id)
                    \o <<[type |-> "complete", id |-> r.id,
                          mNext |-> Cursor(messages), eNext |-> Cursor(events)]>>
        room     == MaxBuffer - Len(chan[pq])
    IN  /\ r \in answering[pq]
        /\ answering' = [answering EXCEPT ![pq] = @ \ {r}]
        /\ chan' = [chan EXCEPT ![pq] =
                      @ \o SubSeq(wires, 1, IF Len(wires) < room THEN Len(wires) ELSE room)]
        /\ UNCHANGED <<store, outbox, phase, expired, links, ready, tasks, storing,
                       applying, hist, due, faults>>

----------------------------------------------------------------------------
(* receive, at pq[2], of the oldest message of the channel.                *)

Head1(pq) == Head(chan[pq])
Popped(pq) == [chan EXCEPT ![pq] = Tail(@)]

Heard(pq) == chan[pq] # <<>> /\ pq[1] \in ready[pq[2]]

\* What arrives before the receiver has authenticated the sender is dropped.
\* Counted as a fault: mostly both ends are done before the first message.
ReceiveTooEarly(pq) ==
    /\ chan[pq] # <<>> /\ pq[1] \notin ready[pq[2]] /\ faults < MaxFaults
    /\ chan' = Popped(pq)
    /\ faults' = faults + 1
    /\ UNCHANGED <<store, outbox, phase, expired, links, ready, tasks, storing, answering,
                   applying, hist, due>>

\* Mutant: the acknowledgement does not wait for the write.
ReceiveItemAckFirst(pq) ==
    /\ Heard(pq) /\ Head1(pq).type = "item"
    /\ LET i == Head1(pq).item  chan1 == Popped(pq)
       IN  /\ chan' = IF Room(Rev(pq)) THEN [chan1 EXCEPT ![Rev(pq)] = Append(@, Ack(i))] ELSE chan1
           /\ storing' = [storing EXCEPT ![pq[2]] = @ \cup {<<pq[1], i>>}]
    /\ UNCHANGED <<store, outbox, phase, expired, links, ready, tasks, answering,
                   applying, hist, due, faults>>

\* An item that is known is acknowledged at once; a new one is verified and
\* saved first.  One that is too old does not parse.
ReceiveItem(pq) ==
    /\ Heard(pq) /\ Head1(pq).type = "item"
    /\ LET i == Head1(pq).item
           known == i \in store[pq[2]] /\ i \notin expired
           chan1 == Popped(pq)
       IN  /\ chan' = IF known /\ Room(Rev(pq))
                        THEN [chan1 EXCEPT ![Rev(pq)] = Append(@, Ack(i))] ELSE chan1
           /\ storing' = IF known \/ i \in expired THEN storing
                         ELSE [storing EXCEPT ![pq[2]] = @ \cup {<<pq[1], i>>}]
    /\ UNCHANGED <<store, outbox, phase, expired, links, ready, tasks, answering,
                   applying, hist, due, faults>>

\* persistSigned or persistEvent, then sendMessageAck.
PersistItem(p, q, i) ==
    /\ <<q, i>> \in storing[p]
    /\ storing' = [storing EXCEPT ![p] = @ \ {<<q, i>>}]
    /\ store' = [store EXCEPT ![p] = @ \cup {i}]
    /\ chan' = IF q \in ready[p] THEN [chan EXCEPT ![<<p, q>>] = Sent(<<p, q>>, Ack(i))]
               ELSE chan
    /\ UNCHANGED <<outbox, phase, expired, links, ready, tasks, answering,
                   applying, hist, due, faults>>

\* The write fails: no acknowledgement.
PersistItemFails(p, q, i) ==
    /\ <<q, i>> \in storing[p] /\ faults < MaxFaults
    /\ storing' = [storing EXCEPT ![p] = @ \ {<<q, i>>}]
    /\ faults' = faults + 1
    /\ UNCHANGED <<store, outbox, phase, expired, links, ready, chan, tasks, answering,
                   applying, hist, due>>

ReceiveAck(pq) ==
    /\ Heard(pq) /\ Head1(pq).type = "ack"
    /\ chan' = Popped(pq)
    /\ outbox' = [outbox EXCEPT ![pq[2]] = @ \ {Head1(pq).item}]
    /\ UNCHANGED <<store, phase, expired, links, ready, tasks, storing, answering,
                   applying, hist, due, faults>>

ReceiveRequest(pq) ==
    /\ Heard(pq) /\ Head1(pq).type = "request"
    /\ chan' = Popped(pq)
    /\ answering' = [answering EXCEPT ![Rev(pq)] = @ \cup {Head1(pq).req}]
    /\ UNCHANGED <<store, outbox, phase, expired, links, ready, tasks, storing,
                   applying, hist, due, faults>>

Current(pq, id) == hist[Rev(pq)] # NoRequest /\ hist[Rev(pq)].id = id

\* acceptChunk: chunks of the open request only, whose items are verified and
\* saved one after the other.
AcceptChunk(pq) ==
    /\ Heard(pq) /\ Head1(pq).type = "chunk"
    /\ chan' = Popped(pq)
    /\ applying' = IF Current(pq, Head1(pq).id)
                     THEN [applying EXCEPT ![pq[2]] = @ \cup ({Head1(pq).items} \ {{}})]
                     ELSE applying
    /\ UNCHANGED <<store, outbox, phase, expired, links, ready, tasks, storing, answering,
                   hist, due, faults>>

PersistFromHistory(p, c) ==
    /\ c \in applying[p]
    /\ applying' = [applying EXCEPT ![p] = (@ \ {c}) \cup ({c \ {Oldest(c)}} \ {{}})]
    /\ store' = [store EXCEPT ![p] = @ \cup {Oldest(c)}]
    /\ UNCHANGED <<outbox, phase, expired, links, ready, chan, tasks, storing, answering,
                   hist, due, faults>>

\* The write fails, and with it the rest of the chunk; the transfer goes on.
PersistFromHistoryFails(p, c) ==
    /\ c \in applying[p] /\ faults < MaxFaults
    /\ applying' = [applying EXCEPT ![p] = @ \ {c}]
    /\ due' = [pq \in Pairs |-> IF pq[1] = p THEN due[pq] \ c ELSE due[pq]]
    /\ faults' = faults + 1
    /\ UNCHANGED <<store, outbox, phase, expired, links, ready, chan, tasks, storing,
                   answering, hist>>

\* cursorAdvances and eventCursorAdvances
Advances(before, next) == next = 0 \/ before = 0 \/ next < before

\* Mutant: both streams end when the messages do.
NextPageWithoutEvents(s, m) ==
    [id |-> s.id + 1,
     mBefore |-> IF m.mNext # 0 THEN m.mNext ELSE s.mBefore,
     eBefore |-> IF m.eNext # 0 THEN m.eNext ELSE s.eBefore,
     mDone |-> s.mDone \/ m.mNext = 0, eDone |-> s.eDone \/ m.mNext = 0]

\* The state of the request after a complete with these cursors.
NextPage(s, m) ==
    [id |-> s.id + 1,
     mBefore |-> IF m.mNext # 0 THEN m.mNext ELSE s.mBefore,
     eBefore |-> IF m.eNext # 0 THEN m.eNext ELSE s.eBefore,
     mDone |-> s.mDone \/ m.mNext = 0, eDone |-> s.eDone \/ m.eNext = 0]

\* acceptComplete: the next page, the end of the transfer, or, when the cursors
\* do not move or the channel is congested, its abandonment.
Outcome(pq) ==
    LET m == Head1(pq)  s == hist[Rev(pq)]  next == NextPage(s, m)
    IN  IF ~Current(pq, m.id) THEN "ignored"
        ELSE IF ~Advances(s.mBefore, m.mNext) \/ ~Advances(s.eBefore, m.eNext) THEN "abandoned"
        ELSE IF next.mDone /\ next.eDone THEN "finished"
        ELSE IF Room(Rev(pq)) THEN "continued" ELSE "abandoned"

Completes(pq) == Heard(pq) /\ Head1(pq).type = "complete"

AcceptComplete(pq) ==
    LET rev == Rev(pq)  next == NextPage(hist[rev], Head1(pq)) IN
    /\ Completes(pq)
    /\ hist' = CASE Outcome(pq) = "ignored" -> hist
                 [] Outcome(pq) = "continued" -> [hist EXCEPT ![rev] = next]
                 [] OTHER -> [hist EXCEPT ![rev] = NoRequest]
    /\ due' = IF Outcome(pq) \in {"finished", "abandoned"}
                THEN [due EXCEPT ![rev] = {}] ELSE due
    /\ chan' = IF Outcome(pq) = "continued"
                 THEN [Popped(pq) EXCEPT ![rev] = Append(@, Ask(next, {}))] ELSE Popped(pq)
    /\ UNCHANGED <<store, outbox, phase, expired, links, ready, tasks, storing, answering,
                   applying, faults>>

----------------------------------------------------------------------------
(* Lost channels and restarts.                                             *)

\* Mutant: the open history request is not forgotten.
CloseKeepsRequest(S) ==
    /\ links' = links \ S
    /\ ready' = [p \in Peers |-> {q \in ready[p] : <<p, q>> \notin S}]
    /\ chan' = [pq \in Pairs |-> IF pq \in S THEN <<>> ELSE chan[pq]]
    /\ answering' = [pq \in Pairs |-> IF pq \in S THEN {} ELSE answering[pq]]
    /\ UNCHANGED <<hist, due>>

\* forgetPeerConnection at both ends of the channels in S.  Whatever was going
\* on for the peer finds it gone and stops; only a write under way still ends.
Close(S) ==
    /\ links' = links \ S
    /\ ready' = [p \in Peers |-> {q \in ready[p] : <<p, q>> \notin S}]
    /\ chan' = [pq \in Pairs |-> IF pq \in S THEN <<>> ELSE chan[pq]]
    /\ hist' = [pq \in Pairs |-> IF pq \in S THEN NoRequest ELSE hist[pq]]
    /\ due' = [pq \in Pairs |-> IF pq \in S THEN {} ELSE due[pq]]
    /\ answering' = [pq \in Pairs |-> IF pq \in S THEN {} ELSE answering[pq]]

Disconnect(pq) ==
    /\ pq \in links
    /\ Close({pq, Rev(pq)})
    /\ tasks' = [c \in Pairs |-> IF c \in {pq, Rev(pq)} THEN {t \in tasks[c] : t.step = "mark"}
                                 ELSE tasks[c]]
    /\ UNCHANGED <<store, outbox, phase, expired, storing, applying>>

LoseChannel(pq) == faults < MaxFaults /\ faults' = faults + 1 /\ Disconnect(pq)

\* Everything between the two peers has come to rest.
Quiet(pq) ==
    /\ pq[2] \in ready[pq[1]] /\ pq[1] \in ready[pq[2]]
    /\ \A c \in {pq, Rev(pq)} : /\ chan[c] = <<>> /\ tasks[c] = {} /\ answering[c] = {}
                                /\ storing[c[1]] = {} /\ applying[c[1]] = {}

\* A connection that came to rest ends: the window is closed, the network changes.
Renew(pq) == Quiet(pq) /\ Disconnect(pq) /\ UNCHANGED faults

Touching(p) == {pq \in Pairs : p \in {pq[1], pq[2]}}

Restart(p) ==
    /\ faults < MaxFaults /\ faults' = faults + 1
    /\ Close(Touching(p))
    /\ phase' = [i \in Items |-> IF Author[i] = p /\ phase[i] # "new" THEN "done" ELSE phase[i]]
    /\ tasks' = [c \in Pairs |-> IF c[1] = p THEN {}
                                 ELSE IF c[2] = p THEN {t \in tasks[c] : t.step = "mark"}
                                 ELSE tasks[c]]
    /\ storing' = [storing EXCEPT ![p] = {}]
    /\ applying' = [applying EXCEPT ![p] = {}]
    /\ UNCHANGED <<store, outbox, expired>>

----------------------------------------------------------------------------
Compose(i) == SendToAuthenticatedPeers(i) \/ PersistSigned(i)

Prepare(pq) ==
    \E t \in tasks[pq] :
        \/ LoadOutbox(pq, t) \/ FlushNext(pq, t)
        \/ MarkOutboxAttempt(pq, t) \/ RequestHistory(pq, t)

Receive(pq) ==
    \/ ReceiveTooEarly(pq) \/ ReceiveItem(pq) \/ ReceiveAck(pq) \/ ReceiveRequest(pq)
    \/ AcceptChunk(pq) \/ AcceptComplete(pq)

Answer(pq) == \E r \in answering[pq] : Respond(pq, r)

Persist(p) ==
    \/ \E qi \in storing[p] : PersistItem(p, qi[1], qi[2])
    \/ \E c \in applying[p] : PersistFromHistory(p, c)

Fault ==
    \/ \E pq \in Pairs : LoseChannel(pq)
    \/ \E p \in Peers : \/ Restart(p)
                        \/ \E qi \in storing[p] : PersistItemFails(p, qi[1], qi[2])
                        \/ \E c \in applying[p] : PersistFromHistoryFails(p, c)

Next ==
    \/ \E i \in Items : Enqueue(i) \/ Compose(i) \/ Expire(i)
    \/ \E pq \in Pairs : \/ Connect(pq) \/ MarkPeerReady(pq) \/ Prepare(pq) \/ Receive(pq)
                         \/ Answer(pq) \/ Renew(pq)
    \/ \E p \in Peers : Persist(p)
    \/ Fault

\* No more is assumed than that the system does not stop while something can
\* happen.  Faults are bounded, so in the end the peers keep meeting.
Fairness == WF_vars(Next)

Spec == Init /\ [][Next]_vars /\ Fairness

----------------------------------------------------------------------------
(* Properties.                                                             *)

\* Until another peer has stored an item, its author keeps the record.
KeptOrStored ==
    \A i \in Items : phase[i] # "new" /\ i \notin Stored =>
        \/ i \in outbox[Author[i]] \/ i \in expired
        \/ \E q \in Peers \ {Author[i]} : i \in store[q]

(* Nothing that was queued is lost, through restarts, lost channels, failed *)
(* writes and acknowledgements of any order; only old age ends that (flush  *)
(* removes what no longer parses).                                          *)
DeliveredOrQueued == TypeOK /\ KeptOrStored

(* A history transfer that runs to its end leaves no gap: when the last    *)
(* page completes, all that the other peer held when it was first asked is *)
(* stored here or is being stored, unless its write failed, however many   *)
(* pages of messages and events it took and whatever either peer stored    *)
(* meanwhile.                                                              *)
HistoryComplete ==
    \A pq \in Pairs : Completes(pq) /\ Outcome(pq) = "finished" =>
        due[Rev(pq)] \subseteq store[pq[2]] \cup UNION applying[pq[2]]

(* As long as the peers keep meeting, whatever one of them has stored or   *)
(* queued reaches all of them.                                             *)
EventuallyDelivered ==
    []<>(\A i \in Items : (\E p \in Peers : i \in store[p] \cup outbox[p])
                             => i \in expired \/ \A p \in Peers : i \in store[p])
=============================================================================
