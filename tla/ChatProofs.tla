----------------------------- MODULE ChatProofs -----------------------------
(***************************************************************************)
(* What holds of ChatDelivery for any peers, items, pages, buffers and     *)
(* faults: the state keeps its type, nothing that was queued is lost, and  *)
(* a history transfer that ends has left no gap.                           *)
(***************************************************************************)
EXTENDS ChatDelivery, FiniteSetTheorems, SequenceTheorems, WellFoundedInduction, TLAPS

(* The oldest of some items is older than the others.                      *)
LEMMA OldestType ==
    ASSUME NEW S \in SUBSET Items, S # {}
    PROVE  Oldest(S) \in S /\ \A j \in S : Oldest(S) <= j
<1> DEFINE R == {ss \in Nat \X Nat : ss[1] < ss[2]}
<1>1. S \subseteq Nat
  BY ChatAssumption DEF Items
<1>2. OpToRel(<, Nat) = R
  BY DEF OpToRel
<1>3. IsWellFoundedOn(R, Nat)
  BY <1>2, NatLessThanWellFounded
<1>4. PICK x \in S : \A y \in S : <<y, x>> \notin R
  BY <1>1, <1>3, WFMin
<1>5. ASSUME NEW y \in S PROVE x <= y
  <2>1. x \in Nat /\ y \in Nat
    BY <1>1
  <2>2. ~(y < x)
    BY <1>4, <2>1
  <2> QED
    BY <2>1, <2>2
<1> QED
  BY <1>5 DEF Oldest

(* Authors are peers.                                                      *)
LEMMA AuthorType ==
    ASSUME NEW i \in Items
    PROVE  Author[i] \in Peers
BY ChatAssumption

(* The two ends of a pair are different peers.                             *)
LEMMA PairType ==
    ASSUME NEW pq \in Pairs
    PROVE  /\ pq[1] \in Peers /\ pq[2] \in Peers /\ pq[1] # pq[2]
           /\ pq = <<pq[1], pq[2]>>
           /\ Rev(pq) \in Pairs /\ Rev(pq)[1] = pq[2] /\ Rev(pq)[2] = pq[1]
BY DEF Pairs, Rev

(* What the messages of each type carry.                                   *)
LEMMA WireType ==
    ASSUME NEW m \in Wire
    PROVE  /\ m.type \in {"item", "ack"} => m.item \in Items
           /\ m.type = "request" => m.req \in Request
           /\ m.type = "chunk" => m.id \in Nat /\ m.items \in SUBSET Items
           /\ m.type = "complete" => m.id \in Nat /\ m.mNext \in Nat /\ m.eNext \in Nat
BY DEF Wire

(* What the tasks of each step carry.                                      *)
LEMMA TaskType ==
    ASSUME NEW t \in Task
    PROVE  /\ t.step \in {"flush", "mark"} => t.records \in SUBSET Items
           /\ t.step = "mark" => t.item \in Items
BY DEF Task

(* Items and acknowledgements are messages.                                *)
LEMMA ItemType ==
    ASSUME NEW i \in Items
    PROVE  Item(i) \in Wire /\ Ack(i) \in Wire
BY DEF Item, Ack, Wire

(* Sending keeps a channel a sequence of messages.                         *)
LEMMA SentType ==
    ASSUME TypeOK, NEW pq \in Pairs, NEW m \in Wire
    PROVE  Sent(pq, m) \in Seq(Wire)
<1>1. chan[pq] \in Seq(Wire)
  BY DEF TypeOK
<1> QED
  BY <1>1, AppendProperties DEF Sent

(* A request is a message.                                                 *)
LEMMA AskType ==
    ASSUME NEW s \in HistoryState, NEW known \in SUBSET Items
    PROVE  Ask(s, known) \in Wire
BY DEF Ask, HistoryState, Request, Wire

(* Pages are sets of items.                                                *)
LEMMA PageType ==
    ASSUME NEW S \in SUBSET Items, NEW before
    PROVE  Page(S, before) \in SUBSET Items
BY DEF Page

(* The cursor of a page is a number.                                       *)
LEMMA CursorType ==
    ASSUME NEW S \in SUBSET Items
    PROVE  Cursor(S) \in Nat
<1>1. CASE S = {}
  <2>1. Cardinality(S) = 0
    BY <1>1, FS_EmptySet
  <2> QED
    BY <2>1, ChatAssumption DEF Cursor
<1>2. CASE S # {}
  <2>1. Oldest(S) \in Nat
    BY <1>2, OldestType, ChatAssumption DEF Items
  <2> QED
    BY <2>1 DEF Cursor
<1> QED
  BY <1>1, <1>2

(* Chunks are a sequence of messages without acknowledgements.             *)
LEMMA ChunksType ==
    ASSUME NEW S \in SUBSET Items, NEW id \in Nat
    PROVE  /\ Chunks(S, id) \in Seq(Wire)
           /\ \A k \in 1..Len(Chunks(S, id)) : Chunks(S, id)[k].type = "chunk"
<1> DEFINE n == (Cardinality(S) + ChunkSize - 1) \div ChunkSize
           c(k) == [type |-> "chunk", id |-> id,
                    items |-> {i \in S : Cardinality({j \in S : j < i}) \div ChunkSize = k - 1}]
<1>1. IsFiniteSet(S) /\ Cardinality(S) \in Nat
  BY ChatAssumption, FS_Subset, FS_CardinalityType
<1>2. n \in Nat
  BY <1>1, ChatAssumption
<1>3. \A k \in 1..n : c(k) \in Wire
  BY DEF Wire
<1>4. Chunks(S, id) = [k \in 1..n |-> c(k)]
  BY DEF Chunks
<1> HIDE DEF n, c
<1>5. [k \in 1..n |-> c(k)] \in [1..n -> Wire]
  BY <1>3
<1>6. Chunks(S, id) \in Seq(Wire) /\ Len(Chunks(S, id)) = n
  BY <1>2, <1>4, <1>5
<1>7. \A k \in 1..n : Chunks(S, id)[k].type = "chunk"
  BY <1>4 DEF c
<1> QED
  BY <1>6, <1>7

(* A message that is no acknowledgement, after others that are none.       *)
LEMMA AppendOther ==
    ASSUME NEW s \in Seq(Wire), NEW m \in Wire, m.type # "ack",
           \A k \in 1..Len(s) : s[k].type # "ack"
    PROVE  /\ Append(s, m) \in Seq(Wire)
           /\ \A k \in 1..Len(Append(s, m)) : Append(s, m)[k].type # "ack"
OBVIOUS

(* The response of a history request: chunks, then the cursors.            *)
LEMMA WiresType ==
    ASSUME NEW M \in SUBSET Items, NEW E \in SUBSET Items,
           NEW A \in SUBSET Items, NEW B \in SUBSET Items, NEW id \in Nat, NEW w,
           w = Chunks(A, id) \o Chunks(B, id)
                 \o <<[type |-> "complete", id |-> id, mNext |-> Cursor(M), eNext |-> Cursor(E)]>>
    PROVE  /\ w \in Seq(Wire)
           /\ \A k \in 1..Len(w) : w[k].type # "ack"
<1> DEFINE a == Chunks(A, id)
           b == Chunks(B, id)
           m == [type |-> "complete", id |-> id, mNext |-> Cursor(M), eNext |-> Cursor(E)]
<1>1. m \in Wire /\ m.type = "complete"
  BY CursorType DEF Wire
<1>2. /\ a \in Seq(Wire) /\ \A k \in 1..Len(a) : a[k].type = "chunk"
      /\ b \in Seq(Wire) /\ \A k \in 1..Len(b) : b[k].type = "chunk"
  BY ChunksType
<1> HIDE DEF a, b, m
<1>3. w = (a \o b) \o <<m>>
  BY DEF a, b, m
<1> DEFINE ab == a \o b
<1>4. ab \in Seq(Wire) /\ \A k \in 1..Len(ab) : ab[k].type = "chunk"
  BY <1>2
<1> HIDE DEF ab
<1>5. w = ab \o <<m>>
  BY <1>3 DEF ab
<1>6. w = Append(ab, m)
  BY <1>1, <1>4, <1>5, AppendIsConcat
<1>7. \A k \in 1..Len(ab) : ab[k].type # "ack"
  BY <1>4
<1> QED
  BY <1>1, <1>4, <1>6, <1>7, AppendOther

(* The part of a response that a channel takes.                            *)
LEMMA SentWires ==
    ASSUME NEW s \in Seq(Wire), NEW w \in Seq(Wire), NEW room \in Int, NEW sub,
           sub = SubSeq(w, 1, IF Len(w) < room THEN Len(w) ELSE room),
           \A k \in 1..Len(w) : w[k].type # "ack"
    PROVE  /\ s \o sub \in Seq(Wire)
           /\ sub \in Seq(Wire) /\ \A k \in 1..Len(sub) : sub[k].type # "ack"
<1> DEFINE n == IF Len(w) < room THEN Len(w) ELSE room
<1>1. n \in Int /\ n <= Len(w)
  BY DEF n
<1> HIDE DEF n
<1>2. sub = SubSeq(w, 1, n)
  BY DEF n
<1>3. sub \in Seq(Wire) /\ \A k \in 1..Len(sub) : sub[k].type # "ack"
  BY <1>1, <1>2
<1> QED
  BY <1>3

(* What is left of a channel when its oldest message is taken.             *)
LEMMA PoppedType ==
    ASSUME TypeOK, NEW pq \in Pairs, chan[pq] # <<>>
    PROVE  /\ Head1(pq) \in Wire
           /\ Popped(pq) \in [Pairs -> Seq(Wire)]
           /\ \A c \in Pairs : c # pq => Popped(pq)[c] = chan[c]
           /\ Popped(pq)[pq] = Tail(chan[pq])
<1>1. chan \in [Pairs -> Seq(Wire)] /\ chan[pq] \in Seq(Wire)
  BY DEF TypeOK
<1>2. Head(chan[pq]) \in Wire /\ Tail(chan[pq]) \in Seq(Wire)
  BY <1>1, HeadTailProperties
<1> QED
  BY <1>1, <1>2 DEF Head1, Popped

(* Another message on the way back, when there is room for it.             *)
LEMMA AppendType ==
    ASSUME NEW f \in [Pairs -> Seq(Wire)], NEW c \in Pairs, NEW m \in Wire
    PROVE  [f EXCEPT ![c] = Append(@, m)] \in [Pairs -> Seq(Wire)]
<1>1. Append(f[c], m) \in Seq(Wire)
  BY AppendProperties
<1> QED
  BY <1>1

(* The request after the next page.                                        *)
LEMMA NextPageType ==
    ASSUME NEW s \in HistoryState, NEW m \in Wire, m.type = "complete"
    PROVE  NextPage(s, m) \in HistoryState
BY WireType DEF NextPage, HistoryState

(* What a peer holds are items.                                            *)
LEMMA StoreType ==
    ASSUME TypeOK, NEW pq \in Pairs, NEW S, NEW before
    PROVE  /\ store[pq[1]] \in SUBSET Items /\ store[pq[2]] \in SUBSET Items
           /\ Page(store[pq[1]] \cap S, before) \in SUBSET Items
<1>1. store[pq[1]] \in SUBSET Items /\ store[pq[2]] \in SUBSET Items
  BY PairType DEF TypeOK
<1>2. store[pq[1]] \cap S \in SUBSET Items
  BY <1>1
<1> QED
  BY <1>1, <1>2, PageType

(* The first request for history is a message.                             *)
LEMMA FirstAskType ==
    ASSUME TypeOK, NEW pq \in Pairs
    PROVE  /\ FirstPage \in HistoryState
           /\ Append(chan[pq], Ask(FirstPage, Page(store[pq[1]] \cap Messages, 0)
                                             \cup Page(store[pq[1]] \cap Events, 0))) \in Seq(Wire)
<1> DEFINE known == Page(store[pq[1]] \cap Messages, 0) \cup Page(store[pq[1]] \cap Events, 0)
<1>1. FirstPage \in HistoryState
  BY DEF FirstPage, HistoryState
<1>2. known \in SUBSET Items
  BY StoreType
<1> HIDE DEF known
<1>3. Ask(FirstPage, known) \in Wire /\ chan[pq] \in Seq(Wire)
  BY <1>1, <1>2, AskType DEF TypeOK
<1>4. Append(chan[pq], Ask(FirstPage, known)) \in Seq(Wire)
  BY <1>3, AppendProperties
<1> QED
  BY <1>1, <1>4 DEF known

(* What a response puts on the channel: messages, and no acknowledgement.  *)
LEMMA RespondType ==
    ASSUME TypeOK, NEW pq \in Pairs, NEW r, Respond(pq, r)
    PROVE  \E sub \in Seq(Wire) :
              /\ chan' = [chan EXCEPT ![pq] = @ \o sub]
              /\ chan[pq] \o sub \in Seq(Wire)
              /\ \A k \in 1..Len(sub) : sub[k].type # "ack"
<1>1. r \in Request
  BY DEF Respond, TypeOK
<1> DEFINE pg(S, before, done) == IF done THEN {} ELSE Page(store[pq[1]] \cap S, before)
           M == pg(Messages, r.mBefore, r.mDone)
           E == pg(Events, r.eBefore, r.eDone)
           A == M \ r.known
           B == E \ r.known
           w == Chunks(A, r.id) \o Chunks(B, r.id)
                  \o <<[type |-> "complete", id |-> r.id,
                        mNext |-> Cursor(M), eNext |-> Cursor(E)]>>
           room == MaxBuffer - Len(chan[pq])
           sub == SubSeq(w, 1, IF Len(w) < room THEN Len(w) ELSE room)
<1>2. M \in SUBSET Items /\ E \in SUBSET Items
  BY StoreType
<1>3. chan' = [chan EXCEPT ![pq] = @ \o sub]
  BY DEF Respond
<1> HIDE DEF M, E
<1>4. A \in SUBSET Items /\ B \in SUBSET Items /\ r.id \in Nat
  BY <1>1, <1>2 DEF Request
<1> HIDE DEF A, B
<1>5. w \in Seq(Wire) /\ \A k \in 1..Len(w) : w[k].type # "ack"
  BY <1>2, <1>4, WiresType
<1>6. chan[pq] \in Seq(Wire) /\ room \in Int
  BY ChatAssumption DEF TypeOK
<1> HIDE DEF w, room
<1>7. /\ chan[pq] \o sub \in Seq(Wire)
      /\ sub \in Seq(Wire) /\ \A k \in 1..Len(sub) : sub[k].type # "ack"
  BY <1>5, <1>6, SentWires
<1> QED
  BY <1>3, <1>7

(* The steps of the type invariant, one for each action.                   *)
LEMMA TypeStep ==
    ASSUME TypeOK, [Next]_vars
    PROVE  TypeOK'
<1> USE DEF TypeOK
<1>1. ASSUME NEW i \in Items, Enqueue(i) PROVE TypeOK'
  BY <1>1, AuthorType DEF Enqueue
<1>2. ASSUME NEW i \in Items, SendToAuthenticatedPeers(i) PROVE TypeOK'
  <2>1. \A pq \in Pairs : Sent(pq, Item(i)) \in Seq(Wire)
    BY <1>2, SentType, ItemType
  <2> QED
    BY <1>2, <2>1 DEF SendToAuthenticatedPeers
<1>3. ASSUME NEW i \in Items, PersistSigned(i) PROVE TypeOK'
  BY <1>3, AuthorType DEF PersistSigned
<1>4. ASSUME NEW i \in Items, Expire(i) PROVE TypeOK'
  BY <1>4 DEF Expire
<1>5. ASSUME NEW pq \in Pairs, Connect(pq) PROVE TypeOK'
  BY <1>5, PairType DEF Connect
<1>6. ASSUME NEW pq \in Pairs, MarkPeerReady(pq) PROVE TypeOK'
  <2>1. [step |-> "load"] \in Task
    BY DEF Task
  <2> QED
    BY <1>6, <2>1, PairType DEF MarkPeerReady
<1>7. ASSUME NEW pq \in Pairs, NEW t \in tasks[pq], LoadOutbox(pq, t) PROVE TypeOK'
  <2>1. [step |-> "flush", records |-> outbox[pq[1]]] \in Task
    BY PairType DEF Task
  <2> QED
    BY <1>7, <2>1, PairType DEF LoadOutbox, Continue
<1>8. ASSUME NEW pq \in Pairs, NEW t \in tasks[pq], FlushNext(pq, t) PROVE TypeOK'
  <2>1. t \in Task /\ t.step = "flush" /\ t.records \in SUBSET Items
    BY <1>8, TaskType DEF FlushNext
  <2>2. \A i \in t.records : /\ [step |-> "flush", records |-> t.records \ {i}] \in Task
                             /\ [step |-> "mark", item |-> i, records |-> t.records \ {i}] \in Task
                             /\ Sent(pq, Item(i)) \in Seq(Wire)
    BY <2>1, SentType, ItemType DEF Task
  <2>3. PICK i \in t.records :
          /\ outbox' = outbox \/ outbox' = [outbox EXCEPT ![pq[1]] = @ \ {i}]
          /\ chan' = chan \/ chan' = [chan EXCEPT ![pq] = Sent(pq, Item(i))]
          /\ \/ tasks' = [tasks EXCEPT ![pq] = (@ \ {t})
                            \cup {[step |-> "flush", records |-> t.records \ {i}]}]
             \/ tasks' = [tasks EXCEPT ![pq] = (@ \ {t})
                            \cup {[step |-> "mark", item |-> i, records |-> t.records \ {i}]}]
    BY <1>8 DEF FlushNext, Continue
  <2>4. UNCHANGED <<store, phase, expired, links, ready, storing, answering,
                    applying, hist, due, faults>>
    BY <1>8 DEF FlushNext
  <2>5. outbox' \in [Peers -> SUBSET Items]
    <3>1. outbox[pq[1]] \ {i} \in SUBSET Items
      BY PairType
    <3> QED
      BY <2>3, <3>1, Zenon
  <2>6. chan' \in [Pairs -> Seq(Wire)]
    BY <2>2, <2>3
  <2>7. tasks' \in [Pairs -> SUBSET Task]
    <3> DEFINE a == (tasks[pq] \ {t}) \cup {[step |-> "flush", records |-> t.records \ {i}]}
               b == (tasks[pq] \ {t})
                      \cup {[step |-> "mark", item |-> i, records |-> t.records \ {i}]}
    <3>1. a \in SUBSET Task /\ b \in SUBSET Task
      BY <2>2
    <3>2. tasks' = [tasks EXCEPT ![pq] = a] \/ tasks' = [tasks EXCEPT ![pq] = b]
      BY <2>3
    <3> HIDE DEF a, b
    <3> QED
      BY <3>1, <3>2, Zenon
  <2> QED
    BY <2>4, <2>5, <2>6, <2>7
<1>9. ASSUME NEW pq \in Pairs, NEW t \in tasks[pq], MarkOutboxAttempt(pq, t) PROVE TypeOK'
  <2>1. t.item \in Items /\ [step |-> "flush", records |-> t.records] \in Task
    BY <1>9, TaskType DEF MarkOutboxAttempt, Task
  <2> QED
    BY <1>9, <2>1, PairType DEF MarkOutboxAttempt, Continue
<1>10. ASSUME NEW pq \in Pairs, NEW t \in tasks[pq], RequestHistory(pq, t) PROVE TypeOK'
  <2> DEFINE known == Page(store[pq[1]] \cap Messages, 0) \cup Page(store[pq[1]] \cap Events, 0)
  <2>1. /\ FirstPage \in HistoryState /\ store[pq[2]] \in SUBSET Items
        /\ Append(chan[pq], Ask(FirstPage, known)) \in Seq(Wire)
    BY FirstAskType, StoreType
  <2>2. /\ tasks' = [tasks EXCEPT ![pq] = (@ \ {t}) \cup {}]
        /\ hist' = hist \/ hist' = [hist EXCEPT ![pq] = FirstPage]
        /\ chan' = chan \/ chan' = [chan EXCEPT ![pq] = Append(@, Ask(FirstPage, known))]
        /\ due' = due \/ due' = [due EXCEPT ![pq] = store[pq[2]]]
        /\ UNCHANGED <<store, outbox, phase, expired, links, ready, storing, answering,
                       applying, faults>>
    BY <1>10 DEF RequestHistory, Continue
  <2> HIDE DEF known
  <2>3. chan' \in [Pairs -> Seq(Wire)]
    BY <2>1, <2>2
  <2>4. hist' \in [Pairs -> HistoryState \cup {NoRequest}]
    <3>1. FirstPage \in HistoryState \cup {NoRequest}
      BY <2>1
    <3> QED
      BY <2>2, <3>1, Zenon
  <2>6. due' \in [Pairs -> SUBSET Items]
    BY <2>1, <2>2, Zenon
  <2>5. tasks' \in [Pairs -> SUBSET Task]
    BY <2>2
  <2> QED
    BY <2>2, <2>3, <2>4, <2>5, <2>6
<1>11. ASSUME NEW pq \in Pairs, NEW r \in answering[pq], Respond(pq, r) PROVE TypeOK'
  <2>1. chan' \in [Pairs -> Seq(Wire)]
    BY <1>11, RespondType
  <2> QED
    BY <1>11, <2>1 DEF Respond
<1>12. ASSUME NEW pq \in Pairs, ReceiveTooEarly(pq) PROVE TypeOK'
  BY <1>12, PoppedType DEF ReceiveTooEarly
<1>13. ASSUME NEW pq \in Pairs, ReceiveItem(pq) PROVE TypeOK'
  <2> DEFINE i == Head1(pq).item
  <2>1. Head1(pq) \in Wire /\ Popped(pq) \in [Pairs -> Seq(Wire)]
    BY <1>13, PoppedType DEF ReceiveItem, Heard
  <2>2. i \in Items /\ Ack(i) \in Wire
    BY <1>13, <2>1, WireType, ItemType DEF ReceiveItem
  <2>3. [Popped(pq) EXCEPT ![Rev(pq)] = Append(@, Ack(i))] \in [Pairs -> Seq(Wire)]
    BY <2>1, <2>2, AppendType, PairType
  <2>4. chan' \in [Pairs -> Seq(Wire)]
    BY <1>13, <2>1, <2>3 DEF ReceiveItem
  <2>5. storing' \in [Peers -> SUBSET (Peers \X Items)]
    BY <1>13, <2>2, PairType DEF ReceiveItem
  <2> QED
    BY <1>13, <2>4, <2>5 DEF ReceiveItem
<1>14. ASSUME NEW p \in Peers, NEW qi \in storing[p], PersistItem(p, qi[1], qi[2]) PROVE TypeOK'
  <2>1. qi[1] \in Peers /\ qi[2] \in Items
    OBVIOUS
  <2>2. <<p, qi[1]>> \in Pairs => Sent(<<p, qi[1]>>, Ack(qi[2])) \in Seq(Wire)
    BY <2>1, SentType, ItemType
  <2>3. chan' \in [Pairs -> Seq(Wire)]
    BY <1>14, <2>2 DEF PersistItem
  <2> QED
    BY <1>14, <2>1, <2>3 DEF PersistItem
<1>15. ASSUME NEW p \in Peers, NEW qi \in storing[p], PersistItemFails(p, qi[1], qi[2]) PROVE TypeOK'
  BY <1>15 DEF PersistItemFails
<1>16. ASSUME NEW pq \in Pairs, ReceiveAck(pq) PROVE TypeOK'
  BY <1>16, PoppedType, PairType DEF ReceiveAck, Heard
<1>17. ASSUME NEW pq \in Pairs, ReceiveRequest(pq) PROVE TypeOK'
  <2>1. Head1(pq) \in Wire /\ Popped(pq) \in [Pairs -> Seq(Wire)]
    BY <1>17, PoppedType DEF ReceiveRequest, Heard
  <2>2. Head1(pq).req \in Request
    BY <1>17, <2>1, WireType DEF ReceiveRequest
  <2> QED
    BY <1>17, <2>1, <2>2, PairType DEF ReceiveRequest
<1>18. ASSUME NEW pq \in Pairs, AcceptChunk(pq) PROVE TypeOK'
  <2>1. Head1(pq) \in Wire /\ Popped(pq) \in [Pairs -> Seq(Wire)]
    BY <1>18, PoppedType DEF AcceptChunk, Heard
  <2>2. Head1(pq).items \in SUBSET Items
    BY <1>18, <2>1, WireType DEF AcceptChunk
  <2>3. {Head1(pq).items} \ {{}} \subseteq (SUBSET Items) \ {{}}
    BY <2>2
  <2>4. applying' \in [Peers -> SUBSET ((SUBSET Items) \ {{}})]
    BY <1>18, <2>3, PairType, Zenon DEF AcceptChunk
  <2> QED
    BY <1>18, <2>1, <2>4 DEF AcceptChunk
<1>19. ASSUME NEW p \in Peers, NEW c \in applying[p], PersistFromHistory(p, c) PROVE TypeOK'
  <2>1. c \in SUBSET Items /\ c # {}
    BY Zenon
  <2>2. Oldest(c) \in Items
    BY <2>1, OldestType
  <2> QED
    BY <1>19, <2>1, <2>2 DEF PersistFromHistory
<1>20. ASSUME NEW p \in Peers, NEW c \in applying[p], PersistFromHistoryFails(p, c) PROVE TypeOK'
  BY <1>20 DEF PersistFromHistoryFails
<1>21. ASSUME NEW pq \in Pairs, AcceptComplete(pq) PROVE TypeOK'
  <2> DEFINE s == hist[Rev(pq)]
             next == NextPage(s, Head1(pq))
  <2>1. /\ Head1(pq) \in Wire /\ Head1(pq).type = "complete"
        /\ Popped(pq) \in [Pairs -> Seq(Wire)]
    BY <1>21, PoppedType DEF AcceptComplete, Completes, Heard
  <2>2. CASE Outcome(pq) = "continued"
    <3>1. s \in HistoryState
      BY <2>2, PairType DEF Outcome, Current
    <3>2. next \in HistoryState /\ Ask(next, {}) \in Wire
      BY <2>1, <3>1, NextPageType, AskType
    <3> HIDE DEF next
    <3>3. [Popped(pq) EXCEPT ![Rev(pq)] = Append(@, Ask(next, {}))] \in [Pairs -> Seq(Wire)]
      BY <2>1, <3>2, AppendType, PairType
    <3>4. /\ hist' = [hist EXCEPT ![Rev(pq)] = next] /\ due' = due
          /\ chan' = [Popped(pq) EXCEPT ![Rev(pq)] = Append(@, Ask(next, {}))]
          /\ UNCHANGED <<store, outbox, phase, expired, links, ready, tasks, storing, answering,
                         applying, faults>>
      BY <1>21, <2>2 DEF AcceptComplete, next
    <3> QED
      BY <3>2, <3>3, <3>4
  <2>3. CASE Outcome(pq) # "continued"
    <3>1. /\ hist' \in {hist, [hist EXCEPT ![Rev(pq)] = NoRequest]}
          /\ due' \in {due, [due EXCEPT ![Rev(pq)] = {}]}
          /\ chan' = Popped(pq)
          /\ UNCHANGED <<store, outbox, phase, expired, links, ready, tasks, storing, answering,
                         applying, faults>>
      BY <1>21, <2>3 DEF AcceptComplete
    <3> QED
      BY <2>1, <3>1
  <2> QED
    BY <2>2, <2>3
<1>22. ASSUME NEW S, Close(S)
       PROVE  /\ links' \subseteq Pairs /\ ready' \in [Peers -> SUBSET Peers]
              /\ chan' \in [Pairs -> Seq(Wire)]
              /\ hist' \in [Pairs -> HistoryState \cup {NoRequest}]
              /\ due' \in [Pairs -> SUBSET Items] /\ answering' \in [Pairs -> SUBSET Request]
  BY <1>22 DEF Close
<1>23. ASSUME NEW pq \in Pairs, Disconnect(pq), faults' \in Nat PROVE TypeOK'
  <2>1. Close({pq, Rev(pq)}) /\ tasks' \in [Pairs -> SUBSET Task]
    BY <1>23 DEF Disconnect
  <2> QED
    BY <1>22, <1>23, <2>1 DEF Disconnect
<1>24. ASSUME NEW pq \in Pairs, LoseChannel(pq) \/ Renew(pq) PROVE TypeOK'
  BY <1>23, <1>24 DEF LoseChannel, Renew
<1>25. ASSUME NEW p \in Peers, Restart(p) PROVE TypeOK'
  <2>1. Close(Touching(p)) /\ tasks' \in [Pairs -> SUBSET Task]
    BY <1>25 DEF Restart
  <2>2. phase' \in [Items -> {"new", "queued", "sent", "done"}]
    BY <1>25 DEF Restart
  <2> QED
    BY <1>22, <1>25, <2>1, <2>2 DEF Restart
<1>26. CASE UNCHANGED vars
  BY <1>26 DEF vars
<1> HIDE DEF TypeOK
<1> QED
  BY <1>1, <1>2, <1>3, <1>4, <1>5, <1>6, <1>7, <1>8, <1>9, <1>10, <1>11, <1>12, <1>13, <1>14,
     <1>15, <1>16, <1>17, <1>18, <1>19, <1>20, <1>21, <1>24, <1>25, <1>26
     DEF Next, Compose, Prepare, Receive, Answer, Persist, Fault

(* Initially everything is well formed.                                    *)
LEMMA TypeInit == Init => TypeOK
<1> SUFFICES ASSUME Init PROVE TypeOK
  OBVIOUS
<1>1. PICK s \in Starts : store = s.kept /\ faults = s.faults
  BY DEF Init
<1>2. store \in [Peers -> SUBSET Items] /\ faults \in Nat
  BY <1>1, ChatAssumption
<1> QED
  BY <1>2 DEF Init, TypeOK

(* Every reachable state of stores, outboxes, channels, requests and work  *)
(* in progress is well formed.                                             *)
THEOREM ChatTyping == Spec => []TypeOK
<1>1. TypeOK /\ [Next]_vars => TypeOK'
  BY TypeStep
<1> QED
  BY <1>1, TypeInit, PTL DEF Spec

----------------------------------------------------------------------------
(* Acknowledgements.                                                       *)

Truthful(s, S) == \A k \in 1..Len(s) : s[k].type = "ack" => s[k].item \in S

\* Whoever acknowledges an item has stored it.
TruthfulAcks == \A pq \in Pairs : Truthful(chan[pq], store[pq[1]])

(* A channel stays truthful when a truthful message is added ...           *)
LEMMA TruthfulAppend ==
    ASSUME NEW S, NEW s \in Seq(Wire), Truthful(s, S), NEW m \in Wire,
           m.type = "ack" => m.item \in S
    PROVE  Truthful(Append(s, m), S)
BY DEF Truthful

(* ... when its oldest message is taken ...                                *)
LEMMA TruthfulTail ==
    ASSUME NEW S, NEW s \in Seq(Wire), s # <<>>, Truthful(s, S)
    PROVE  Truthful(Tail(s), S)
BY DEF Truthful

(* ... when messages other than acknowledgements are added ...             *)
LEMMA TruthfulConcat ==
    ASSUME NEW S, NEW s \in Seq(Wire), Truthful(s, S), NEW u \in Seq(Wire),
           \A k \in 1..Len(u) : u[k].type # "ack"
    PROVE  Truthful(s \o u, S)
BY DEF Truthful

(* ... and when its sender stores more.                                    *)
LEMMA TruthfulMore ==
    ASSUME NEW s, NEW S, NEW T, S \subseteq T, Truthful(s, S)
    PROVE  Truthful(s, T)
BY DEF Truthful

(* The same for a message that is sent ...                                 *)
LEMMA TruthfulSent ==
    ASSUME TypeOK, TruthfulAcks, NEW pq \in Pairs, NEW m \in Wire,
           m.type = "ack" => m.item \in store[pq[1]]
    PROVE  Truthful(Sent(pq, m), store[pq[1]])
<1>1. chan[pq] \in Seq(Wire) /\ Truthful(chan[pq], store[pq[1]])
  BY DEF TypeOK, TruthfulAcks
<1> QED
  BY <1>1, TruthfulAppend DEF Sent

(* ... and for one that is received.                                       *)
LEMMA TruthfulPopped ==
    ASSUME TypeOK, TruthfulAcks, NEW pq \in Pairs, chan[pq] # <<>>
    PROVE  \A c \in Pairs : Truthful(Popped(pq)[c], store[c[1]])
<1>1. chan[pq] \in Seq(Wire) /\ Truthful(chan[pq], store[pq[1]])
  BY DEF TypeOK, TruthfulAcks
<1>2. Truthful(Tail(chan[pq]), store[pq[1]])
  BY <1>1, TruthfulTail
<1> QED
  BY <1>2, PoppedType DEF TruthfulAcks

(* What a step leaves alone: stored items stay stored, old ones old, and a *)
(* record leaves the outbox of its author only if it is old or stored      *)
(* elsewhere.                                                              *)
Keeps ==
    /\ \A p \in Peers : store[p] \subseteq store'[p]
    /\ expired \subseteq expired'
    /\ \A i \in Items : phase[i] = "new" => phase'[i] = "new" \/ i \in outbox'[Author[i]]
    /\ \A i \in Items : i \in outbox[Author[i]] =>
           i \in outbox'[Author[i]] \/ i \in expired'
             \/ \E q \in Peers \ {Author[i]} : i \in store'[q]

(* Such a step loses nothing.                                              *)
LEMMA KeepsDelivered ==
    ASSUME KeptOrStored, Keeps
    PROVE  KeptOrStored'
BY DEF KeptOrStored, Keeps

(* Every step keeps acknowledgements truthful, and keeps the rest.         *)
LEMMA AckStep ==
    ASSUME TypeOK, TruthfulAcks, [Next]_vars
    PROVE  TruthfulAcks' /\ Keeps
<1>c. ASSUME chan' = chan, \A p \in Peers : store[p] \subseteq store'[p] PROVE TruthfulAcks'
  BY <1>c, TruthfulMore, PairType DEF TruthfulAcks
<1>a. ASSUME NEW pq \in Pairs, chan[pq] # <<>>, chan' = Popped(pq), store' = store
      PROVE  TruthfulAcks'
  BY <1>a, TruthfulPopped DEF TruthfulAcks
<1>1. ASSUME NEW i \in Items, Enqueue(i) PROVE TruthfulAcks' /\ Keeps
  BY <1>c, <1>1, AuthorType DEF Enqueue, Keeps, TypeOK
<1>2. ASSUME NEW i \in Items, SendToAuthenticatedPeers(i) PROVE TruthfulAcks' /\ Keeps
  <2>1. Item(i) \in Wire /\ Item(i).type # "ack"
    BY ItemType DEF Item
  <2>2. \A pq \in Pairs : Truthful(Sent(pq, Item(i)), store[pq[1]])
    BY <2>1, TruthfulSent
  <2>3. TruthfulAcks'
    BY <1>2, <2>2 DEF SendToAuthenticatedPeers, TruthfulAcks
  <2> QED
    BY <1>2, <2>3 DEF SendToAuthenticatedPeers, Keeps, TypeOK
<1>3. ASSUME NEW i \in Items, PersistSigned(i) PROVE TruthfulAcks' /\ Keeps
  BY <1>c, <1>3 DEF PersistSigned, Keeps, TypeOK
<1>4. ASSUME NEW i \in Items, Expire(i) PROVE TruthfulAcks' /\ Keeps
  BY <1>c, <1>4 DEF Expire, Keeps, TypeOK
<1>5. ASSUME NEW pq \in Pairs, Connect(pq) \/ MarkPeerReady(pq) PROVE TruthfulAcks' /\ Keeps
  BY <1>c, <1>5 DEF Connect, MarkPeerReady, Keeps
<1>6. ASSUME NEW pq \in Pairs, NEW t \in tasks[pq], LoadOutbox(pq, t)
      PROVE  TruthfulAcks' /\ Keeps
  BY <1>c, <1>6 DEF LoadOutbox, Keeps
<1>7. ASSUME NEW pq \in Pairs, NEW t \in tasks[pq], FlushNext(pq, t)
      PROVE  TruthfulAcks' /\ Keeps
  <2>1. t \in Task /\ t.records \in SUBSET Items
    BY <1>7, TaskType DEF FlushNext, TypeOK
  <2>2. store' = store /\ phase' = phase /\ expired' = expired
    BY <1>7 DEF FlushNext
  <2>3. PICK i \in t.records :
          \/ /\ i \in expired /\ chan' = chan
             /\ outbox' = [outbox EXCEPT ![pq[1]] = @ \ {i}]
          \/ outbox' = outbox /\ chan' = [chan EXCEPT ![pq] = Sent(pq, Item(i))]
    BY <1>7 DEF FlushNext
  <2>4. i \in Items /\ Item(i) \in Wire /\ Item(i).type # "ack"
    BY <2>1, ItemType DEF Item
  <2>5. Truthful(Sent(pq, Item(i)), store[pq[1]])
    BY <2>4, TruthfulSent
  <2>6. TruthfulAcks'
    BY <1>c, <2>2, <2>3, <2>5 DEF TruthfulAcks, TypeOK
  <2>7. \A j \in Items : j \in outbox[Author[j]] => j \in outbox'[Author[j]] \/ j \in expired'
    <3>1. \A p \in Peers : outbox[p] \ {i} \subseteq outbox'[p] /\ (i \notin expired => outbox' = outbox)
      BY <2>3 DEF TypeOK
    <3> QED
      BY <2>2, <3>1, AuthorType
  <2>8. Keeps
    BY <2>2, <2>7 DEF Keeps
  <2> QED
    BY <2>6, <2>8
<1>8. ASSUME NEW pq \in Pairs, NEW t \in tasks[pq], MarkOutboxAttempt(pq, t)
      PROVE  TruthfulAcks' /\ Keeps
  BY <1>c, <1>8, AuthorType DEF MarkOutboxAttempt, Keeps, TypeOK
<1>9. ASSUME NEW pq \in Pairs, NEW t \in tasks[pq], RequestHistory(pq, t)
      PROVE  TruthfulAcks' /\ Keeps
  <2> DEFINE known == Page(store[pq[1]] \cap Messages, 0) \cup Page(store[pq[1]] \cap Events, 0)
             a == Ask(FirstPage, known)
  <2>1. a \in Wire /\ a.type # "ack"
    <3>1. known \in SUBSET Items /\ FirstPage \in HistoryState
      BY StoreType, FirstAskType
    <3> HIDE DEF known
    <3> QED
      BY <3>1, AskType DEF Ask
  <2>2. /\ chan' = chan \/ chan' = [chan EXCEPT ![pq] = Append(@, a)]
        /\ store' = store /\ phase' = phase /\ expired' = expired /\ outbox' = outbox
    BY <1>9 DEF RequestHistory
  <2> HIDE DEF a
  <2>3. chan[pq] \in Seq(Wire) /\ Truthful(chan[pq], store[pq[1]])
    BY DEF TypeOK, TruthfulAcks
  <2>4. Truthful(Append(chan[pq], a), store[pq[1]])
    BY <2>1, <2>3, TruthfulAppend
  <2>5. TruthfulAcks'
    BY <2>2, <2>4 DEF TruthfulAcks, TypeOK
  <2> QED
    BY <2>2, <2>5 DEF Keeps
<1>10. ASSUME NEW pq \in Pairs, NEW r \in answering[pq], Respond(pq, r)
       PROVE  TruthfulAcks' /\ Keeps
  <2>1. PICK sub \in Seq(Wire) : /\ chan' = [chan EXCEPT ![pq] = @ \o sub]
                                 /\ \A k \in 1..Len(sub) : sub[k].type # "ack"
    BY <1>10, RespondType
  <2>2. store' = store /\ phase' = phase /\ expired' = expired /\ outbox' = outbox
    BY <1>10 DEF Respond
  <2>3. chan[pq] \in Seq(Wire) /\ Truthful(chan[pq], store[pq[1]])
    BY DEF TypeOK, TruthfulAcks
  <2>4. Truthful(chan[pq] \o sub, store[pq[1]])
    BY <2>1, <2>3, TruthfulConcat
  <2>5. TruthfulAcks'
    BY <2>1, <2>2, <2>4 DEF TruthfulAcks, TypeOK
  <2> QED
    BY <2>2, <2>5 DEF Keeps
<1>11. ASSUME NEW pq \in Pairs, ReceiveTooEarly(pq) \/ ReceiveRequest(pq) \/ AcceptChunk(pq)
       PROVE  TruthfulAcks' /\ Keeps
  BY <1>a, <1>11 DEF ReceiveTooEarly, ReceiveRequest, AcceptChunk, Heard, Keeps
<1>12. ASSUME NEW pq \in Pairs, ReceiveItem(pq) PROVE TruthfulAcks' /\ Keeps
  <2> DEFINE i == Head1(pq).item
             rev == Rev(pq)
  <2>1. chan[pq] # <<>> /\ Head1(pq).type = "item"
    BY <1>12 DEF ReceiveItem, Heard
  <2>2. i \in Items /\ Ack(i) \in Wire /\ rev \in Pairs /\ rev[1] = pq[2] /\ Ack(i).item = i
    BY <2>1, PoppedType, WireType, ItemType, PairType DEF Ack
  <2>3. /\ store' = store /\ phase' = phase /\ expired' = expired /\ outbox' = outbox
        /\ \/ chan' = Popped(pq)
           \/ i \in store[pq[2]] /\ chan' = [Popped(pq) EXCEPT ![rev] = Append(@, Ack(i))]
    BY <1>12 DEF ReceiveItem
  <2>4. CASE chan' = Popped(pq)
    BY <1>a, <2>1, <2>3, <2>4 DEF Keeps
  <2>5. CASE i \in store[pq[2]] /\ chan' = [Popped(pq) EXCEPT ![rev] = Append(@, Ack(i))]
    <3> HIDE DEF i, rev
    <3>1. \A c \in Pairs : Popped(pq)[c] \in Seq(Wire) /\ Truthful(Popped(pq)[c], store[c[1]])
      BY <2>1, PoppedType, TruthfulPopped
    <3>2. Truthful(Append(Popped(pq)[rev], Ack(i)), store[rev[1]])
      BY <2>2, <2>5, <3>1, TruthfulAppend
    <3>3. Popped(pq) \in [Pairs -> Seq(Wire)]
      BY <2>1, PoppedType
    <3>4. \A c \in Pairs : Truthful(chan'[c], store[c[1]])
      BY <2>5, <3>1, <3>2, <3>3
    <3> QED
      BY <2>3, <3>4 DEF TruthfulAcks, Keeps
  <2> QED
    BY <2>3, <2>4, <2>5
<1>13. ASSUME NEW p \in Peers, NEW qi \in storing[p], PersistItem(p, qi[1], qi[2])
       PROVE  TruthfulAcks' /\ Keeps
  <2> DEFINE c == <<p, qi[1]>>
             i == qi[2]
  <2>1. i \in Items /\ Ack(i) \in Wire /\ Ack(i).item = i
    BY ItemType DEF Ack, TypeOK
  <2>2. /\ store' = [store EXCEPT ![p] = @ \cup {i}]
        /\ phase' = phase /\ expired' = expired /\ outbox' = outbox
        /\ chan' = chan \/ chan' = [chan EXCEPT ![c] = Sent(c, Ack(i))]
    BY <1>13 DEF PersistItem
  <2> HIDE DEF c, i
  <2>3. /\ \A q \in Peers : store[q] \subseteq store'[q]
        /\ store'[p] = store[p] \cup {i}
    BY <2>2 DEF TypeOK
  <2>4. ASSUME NEW d \in Pairs PROVE Truthful(chan'[d], store'[d[1]])
    <3>1. chan[d] \in Seq(Wire) /\ Truthful(chan[d], store'[d[1]])
      BY <2>3, TruthfulMore, PairType DEF TruthfulAcks, TypeOK
    <3>2. CASE chan'[d] = chan[d]
      BY <3>1, <3>2
    <3>3. CASE chan'[d] # chan[d]
      <4>1. d = c /\ chan'[d] = Sent(d, Ack(i))
        BY <2>2, <3>3 DEF TypeOK
      <4>2. d[1] = p /\ i \in store'[d[1]]
        BY <2>3, <4>1 DEF c
      <4>3. chan'[d] = Append(chan[d], Ack(i))
        BY <3>3, <4>1 DEF Sent
      <4> QED
        BY <2>1, <3>1, <4>2, <4>3, TruthfulAppend
    <3> QED
      BY <3>2, <3>3
  <2>5. TruthfulAcks'
    BY <2>4 DEF TruthfulAcks
  <2> QED
    BY <2>2, <2>3, <2>5 DEF Keeps
<1>14. ASSUME NEW p \in Peers, NEW qi \in storing[p], PersistItemFails(p, qi[1], qi[2])
       PROVE  TruthfulAcks' /\ Keeps
  BY <1>c, <1>14 DEF PersistItemFails, Keeps
<1>15. ASSUME NEW pq \in Pairs, ReceiveAck(pq) PROVE TruthfulAcks' /\ Keeps
  <2> DEFINE i == Head1(pq).item
  <2>1. /\ chan[pq] # <<>> /\ Head1(pq).type = "ack" /\ chan' = Popped(pq)
        /\ outbox' = [outbox EXCEPT ![pq[2]] = @ \ {i}]
        /\ store' = store /\ phase' = phase /\ expired' = expired
    BY <1>15 DEF ReceiveAck, Heard
  <2>2. TruthfulAcks'
    BY <1>a, <2>1
  <2>3. i \in store[pq[1]]
    <3>1. chan[pq] \in Seq(Wire) /\ Truthful(chan[pq], store[pq[1]])
      BY DEF TypeOK, TruthfulAcks
    <3>2. 1 \in 1..Len(chan[pq]) /\ Head1(pq) = chan[pq][1]
      BY <2>1, <3>1 DEF Head1
    <3> QED
      BY <2>1, <3>1, <3>2 DEF Truthful
  <2> HIDE DEF i
  <2>4. \A j \in Items : j \in outbox[Author[j]] =>
           j \in outbox'[Author[j]] \/ \E q \in Peers \ {Author[j]} : j \in store'[q]
    <3> SUFFICES ASSUME NEW j \in Items, j \in outbox[Author[j]], j \notin outbox'[Author[j]]
                 PROVE  \E q \in Peers \ {Author[j]} : j \in store'[q]
      OBVIOUS
    <3>1. Author[j] = pq[2] /\ j = i
      BY <2>1, AuthorType DEF TypeOK
    <3> QED
      BY <2>1, <2>3, <3>1, PairType
  <2> QED
    BY <2>1, <2>2, <2>4 DEF Keeps
<1>16. ASSUME NEW p \in Peers, NEW c \in applying[p],
              PersistFromHistory(p, c) \/ PersistFromHistoryFails(p, c)
       PROVE  TruthfulAcks' /\ Keeps
  <2>1. /\ chan' = chan /\ outbox' = outbox /\ expired' = expired /\ phase' = phase
        /\ store' = store \/ store' = [store EXCEPT ![p] = @ \cup {Oldest(c)}]
    BY <1>16 DEF PersistFromHistory, PersistFromHistoryFails
  <2>2. \A q \in Peers : store[q] \subseteq store'[q]
    BY <2>1 DEF TypeOK
  <2> QED
    BY <1>c, <2>1, <2>2 DEF Keeps
<1>17. ASSUME NEW pq \in Pairs, AcceptComplete(pq) PROVE TruthfulAcks' /\ Keeps
  <2> DEFINE rev == Rev(pq)
             next == NextPage(hist[rev], Head1(pq))
  <2>1. chan[pq] # <<>> /\ Head1(pq) \in Wire /\ Head1(pq).type = "complete"
    BY <1>17, PoppedType DEF AcceptComplete, Completes, Heard
  <2>2. store' = store /\ phase' = phase /\ expired' = expired /\ outbox' = outbox
    BY <1>17 DEF AcceptComplete
  <2>3. CASE Outcome(pq) = "continued"
    <3>1. hist[rev] \in HistoryState /\ rev \in Pairs
      BY <2>3, PairType DEF Outcome, Current, TypeOK
    <3>2. Ask(next, {}) \in Wire /\ Ask(next, {}).type # "ack"
      BY <2>1, <3>1, NextPageType, AskType DEF Ask
    <3>3. chan' = [Popped(pq) EXCEPT ![rev] = Append(@, Ask(next, {}))]
      BY <1>17, <2>3 DEF AcceptComplete
    <3> HIDE DEF rev, next
    <3>4. \A c \in Pairs : Popped(pq)[c] \in Seq(Wire) /\ Truthful(Popped(pq)[c], store[c[1]])
      BY <2>1, PoppedType, TruthfulPopped
    <3>5. Truthful(Append(Popped(pq)[rev], Ask(next, {})), store[rev[1]])
      BY <3>1, <3>2, <3>4, TruthfulAppend
    <3>6. Popped(pq) \in [Pairs -> Seq(Wire)]
      BY <2>1, PoppedType
    <3>7. \A c \in Pairs : Truthful(chan'[c], store[c[1]])
      BY <3>3, <3>4, <3>5, <3>6
    <3> QED
      BY <2>2, <3>7 DEF TruthfulAcks, Keeps
  <2>4. CASE Outcome(pq) # "continued"
    <3>1. chan' = Popped(pq)
      BY <1>17, <2>4 DEF AcceptComplete
    <3> QED
      BY <1>a, <2>1, <2>2, <3>1 DEF Keeps
  <2> QED
    BY <2>3, <2>4
<1>18. ASSUME NEW S, Close(S), store' = store PROVE TruthfulAcks'
  <2>1. ASSUME NEW c \in Pairs PROVE Truthful(chan'[c], store[c[1]])
    <3>1. chan'[c] = <<>> \/ chan'[c] = chan[c]
      BY <1>18 DEF Close
    <3> QED
      BY <3>1 DEF Truthful, TruthfulAcks
  <2> QED
    BY <1>18, <2>1 DEF TruthfulAcks
<1>19. ASSUME NEW pq \in Pairs, LoseChannel(pq) \/ Renew(pq) PROVE TruthfulAcks' /\ Keeps
  BY <1>18, <1>19 DEF LoseChannel, Renew, Disconnect, Keeps
<1>20. ASSUME NEW p \in Peers, Restart(p) PROVE TruthfulAcks' /\ Keeps
  <2>1. Close(Touching(p)) /\ store' = store /\ outbox' = outbox /\ expired' = expired
    BY <1>20 DEF Restart
  <2>2. \A i \in Items : phase[i] = "new" => phase'[i] = "new"
    BY <1>20 DEF Restart
  <2> QED
    BY <1>18, <2>1, <2>2 DEF Keeps
<1>21. CASE UNCHANGED vars
  BY <1>c, <1>21 DEF vars, Keeps
<1> QED
  BY <1>1, <1>2, <1>3, <1>4, <1>5, <1>6, <1>7, <1>8, <1>9, <1>10, <1>11, <1>12, <1>13, <1>14,
     <1>15, <1>16, <1>17, <1>19, <1>20, <1>21
     DEF Next, Compose, Prepare, Receive, Answer, Persist, Fault

(* Nothing that was queued is lost: the author keeps the record of an item *)
(* until another peer has stored it or it is too old, through restarts,    *)
(* lost channels, failed writes and messages that come too early.          *)
THEOREM NothingIsLost == Spec => []DeliveredOrQueued
<1> DEFINE IInv == TypeOK /\ TruthfulAcks /\ KeptOrStored
<1>1. Init => IInv
  <2> SUFFICES ASSUME Init PROVE IInv
    OBVIOUS
  <2>1. TruthfulAcks
    BY DEF Init, TruthfulAcks, Truthful
  <2>2. KeptOrStored
    BY DEF Init, KeptOrStored
  <2> QED
    BY <2>1, <2>2, TypeInit
<1>2. IInv /\ [Next]_vars => IInv'
  BY TypeStep, AckStep, KeepsDelivered
<1>3. IInv => DeliveredOrQueued
  BY DEF DeliveredOrQueued
<1> QED
  BY <1>1, <1>2, <1>3, PTL DEF Spec

----------------------------------------------------------------------------
(* History: what a transfer that is open, or was, has covered.             *)

Without(s, type) == \A k \in 1..Len(s) : s[k].type # type

\* Nothing of a transfer that p asks of q is open or on its way.
Idle(pq) ==
    /\ hist[pq] = NoRequest /\ answering[Rev(pq)] = {}
    /\ Without(chan[pq], "request") /\ Without(chan[Rev(pq)], "complete")

\* One preparation for each connection, and history is asked for at its end.
PreparedOnce(pq) ==
    /\ \A t, u \in tasks[pq] : t = u
    /\ pq \in links /\ ~Active(pq) => tasks[pq] = {}
    /\ \A t \in tasks[pq] : t.step = "mark" \/ Active(pq)
    /\ tasks[pq] # {} \/ ~Active(pq) => Idle(pq)

\* What p has got, or is saving.
Got(p) == store[p] \cup UNION applying[p]

\* What a stream has passed when it is at a cursor or at its end.
Past(done, before, i) == done \/ (before # 0 /\ i >= before)

\* The items that the pages before the open one, and the one that m completes, cover.
Seen(s, i) == IF i \in Messages THEN Past(s.mDone, s.mBefore, i) ELSE Past(s.eDone, s.eBefore, i)
Ends(m, i) == IF i \in Messages THEN Past(m.mNext = 0, m.mNext, i) ELSE Past(m.eNext = 0, m.eNext, i)

\* A request that is not of the open page is of an earlier one.
Agrees(r, h, S) ==
    /\ r.id <= h.id
    /\ r.id = h.id => /\ r.mBefore = h.mBefore /\ r.mDone = h.mDone
                      /\ r.eBefore = h.eBefore /\ r.eDone = h.eDone /\ r.known \subseteq S

Asks(s, A, h, S) ==
    /\ \A k \in 1..Len(s) : s[k].type = "request" => Agrees(s[k].req, h, S)
    /\ \A r \in A : Agrees(r, h, S)

\* A chunk of the open page that comes before the k-th message brings i.
Brings(s, k, id, i) ==
    \E j \in 1..Len(s) : j < k /\ s[j].type = "chunk" /\ s[j].id = id /\ i \in s[j].items

\* When the open page completes, what was due of it is here.
Answers(s, h, D, H) ==
    \A k \in 1..Len(s) : s[k].type = "complete" =>
        /\ s[k].id <= h.id
        /\ s[k].id = h.id => \A i \in D : Ends(s[k], i) => i \in H \/ Brings(s, k, h.id, i)

\* The open transfer: what is due is still there, the pages so far are here, and the
\* open page is asked for and answered in full or not at all.
Transferred(pq) ==
    hist[pq] # NoRequest =>
        /\ due[pq] \subseteq store[pq[2]]
        /\ \A i \in due[pq] : Seen(hist[pq], i) => i \in Got(pq[1])
        /\ Asks(chan[pq], answering[Rev(pq)], hist[pq], store[pq[1]])
        /\ Answers(chan[Rev(pq)], hist[pq], due[pq], Got(pq[1]))

HistoryInv == \A pq \in Pairs : PreparedOnce(pq) /\ Transferred(pq)

(* How a channel moves without touching what is asked: a message that is   *)
(* no request is added, a response is added, the oldest message is taken.  *)
AskFlow(s, t) ==
    \/ t = s
    \/ \E m \in Wire : m.type # "request" /\ t = Append(s, m)
    \/ \E u \in Seq(Wire) : Without(u, "request") /\ t = s \o u
    \/ s # <<>> /\ t = Tail(s)

\* The same for what is answered.
AnswerFlow(s, t) ==
    \/ t = s
    \/ \E m \in Wire : m.type # "complete" /\ t = Append(s, m)
    \/ s # <<>> /\ t = Tail(s) /\ Head(s).type # "chunk"

(* Nothing is asked by such a move ...                                     *)
LEMMA AskFlowWithout ==
    ASSUME NEW s \in Seq(Wire), NEW t, AskFlow(s, t), Without(s, "request")
    PROVE  Without(t, "request")
<1>1. ASSUME NEW m \in Wire, m.type # "request", t = Append(s, m) PROVE Without(t, "request")
  BY <1>1 DEF Without
<1>2. ASSUME NEW u \in Seq(Wire), Without(u, "request"), t = s \o u PROVE Without(t, "request")
  BY <1>2 DEF Without
<1>3. ASSUME s # <<>>, t = Tail(s) PROVE Without(t, "request")
  BY <1>3 DEF Without
<1> QED
  BY <1>1, <1>2, <1>3 DEF AskFlow

(* ... nor completed.                                                      *)
LEMMA AnswerFlowWithout ==
    ASSUME NEW s \in Seq(Wire), NEW t, AnswerFlow(s, t), Without(s, "complete")
    PROVE  Without(t, "complete")
<1>1. ASSUME NEW m \in Wire, m.type # "complete", t = Append(s, m) PROVE Without(t, "complete")
  BY <1>1 DEF Without
<1>2. ASSUME s # <<>>, t = Tail(s) PROVE Without(t, "complete")
  BY <1>2 DEF Without
<1> QED
  BY <1>1, <1>2 DEF AnswerFlow

(* The requests on a channel agree with the open one after such a move,    *)
(* and when the asker stores more.                                         *)
LEMMA AskFlowAsks ==
    ASSUME NEW s \in Seq(Wire), NEW t, AskFlow(s, t), NEW A, NEW B \in SUBSET A, NEW h,
           NEW S, NEW T, S \subseteq T, Asks(s, A, h, S)
    PROVE  Asks(t, B, h, T)
<1> DEFINE P(r) == Agrees(r, h, S)
           Q(r) == Agrees(r, h, T)
<1>1. \A r : P(r) => Q(r)
  BY DEF Agrees
<1>2. /\ \A k \in 1..Len(s) : s[k].type = "request" => P(s[k].req)
      /\ \A r \in A : P(r)
  BY DEF Asks
<1> HIDE DEF P, Q
<1>3. \A k \in 1..Len(t) : t[k].type = "request" => Q(t[k].req)
  <2>1. ASSUME NEW m \in Wire, m.type # "request", t = Append(s, m)
        PROVE  \A k \in 1..Len(t) : t[k].type = "request" => Q(t[k].req)
    BY <1>1, <1>2, <2>1
  <2>2. ASSUME NEW u \in Seq(Wire), Without(u, "request"), t = s \o u
        PROVE  \A k \in 1..Len(t) : t[k].type = "request" => Q(t[k].req)
    BY <1>1, <1>2, <2>2 DEF Without
  <2>3. ASSUME s # <<>>, t = Tail(s)
        PROVE  \A k \in 1..Len(t) : t[k].type = "request" => Q(t[k].req)
    BY <1>1, <1>2, <2>3
  <2>4. ASSUME t = s PROVE \A k \in 1..Len(t) : t[k].type = "request" => Q(t[k].req)
    BY <1>1, <1>2, <2>4
  <2> QED
    BY <2>1, <2>2, <2>3, <2>4 DEF AskFlow
<1> QED
  BY <1>1, <1>2, <1>3 DEF Asks, Q

(* Messages that are added take no chunk away.                             *)
LEMMA BringsLonger ==
    ASSUME NEW s \in Seq(Wire), NEW u \in Seq(Wire), NEW k, NEW id, NEW i, Brings(s, k, id, i)
    PROVE  Brings(s \o u, k, id, i)
BY DEF Brings

(* The same for one message.                                               *)
LEMMA BringsAppend ==
    ASSUME NEW s \in Seq(Wire), NEW m \in Wire, NEW k, NEW id, NEW i, Brings(s, k, id, i)
    PROVE  Brings(Append(s, m), k, id, i)
BY DEF Brings

(* The oldest message is taken: its items are brought by no chunk anymore. *)
LEMMA BringsTail ==
    ASSUME NEW s \in Seq(Wire), s # <<>>, NEW k \in 1..Len(Tail(s)), NEW id, NEW i,
           Brings(s, k + 1, id, i)
    PROVE  \/ Brings(Tail(s), k, id, i)
           \/ Head(s).type = "chunk" /\ Head(s).id = id /\ i \in Head(s).items
<1>1. PICK j \in 1..Len(s) : j < k + 1 /\ s[j].type = "chunk" /\ s[j].id = id /\ i \in s[j].items
  BY DEF Brings
<1>2. CASE j = 1
  BY <1>1, <1>2
<1>3. CASE j # 1
  <2>1. j - 1 \in 1..Len(Tail(s)) /\ j - 1 < k /\ Tail(s)[j - 1] = s[j]
    BY <1>1, <1>3
  <2> QED
    BY <1>1, <2>1 DEF Brings
<1> QED
  BY <1>2, <1>3

(* What is due of the open page stays answered when messages that complete *)
(* nothing are added or taken, no chunk of the page among these, and when  *)
(* the asker has got more or less is due.                                  *)
LEMMA AnswerFlowAnswers ==
    ASSUME NEW s \in Seq(Wire), NEW t, AnswerFlow(s, t), NEW h,
           NEW D, NEW E \in SUBSET D, NEW H, NEW K, \A i \in E : i \in H => i \in K,
           Answers(s, h, D, H)
    PROVE  Answers(t, h, E, K)
<1> SUFFICES ASSUME NEW k \in 1..Len(t), t[k].type = "complete"
             PROVE  /\ t[k].id <= h.id
                    /\ t[k].id = h.id =>
                          \A i \in E : Ends(t[k], i) => i \in K \/ Brings(t, k, h.id, i)
  BY DEF Answers
<1>0. ASSUME NEW l \in 1..Len(s), s[l].type = "complete"
      PROVE  /\ s[l].id <= h.id
             /\ s[l].id = h.id =>
                   \A i \in E : Ends(s[l], i) => i \in K \/ Brings(s, l, h.id, i)
  BY <1>0 DEF Answers
<1>1. CASE t = s
  BY <1>0, <1>1
<1>2. ASSUME NEW m \in Wire, m.type # "complete", t = Append(s, m)
      PROVE  /\ t[k].id <= h.id
             /\ t[k].id = h.id =>
                   \A i \in E : Ends(t[k], i) => i \in K \/ Brings(t, k, h.id, i)
  <2>1. k \in 1..Len(s) /\ t[k] = s[k]
    BY <1>2
  <2> QED
    BY <1>0, <1>2, <2>1, BringsAppend
<1>3. ASSUME s # <<>>, t = Tail(s), Head(s).type # "chunk"
      PROVE  /\ t[k].id <= h.id
             /\ t[k].id = h.id =>
                   \A i \in E : Ends(t[k], i) => i \in K \/ Brings(t, k, h.id, i)
  <2>1. k + 1 \in 1..Len(s) /\ t[k] = s[k + 1]
    BY <1>3
  <2>2. \A i : Brings(s, k + 1, h.id, i) => Brings(t, k, h.id, i)
    BY <1>3, BringsTail
  <2> QED
    BY <1>0, <1>3, <2>1, <2>2
<1> QED
  BY <1>1, <1>2, <1>3 DEF AnswerFlow

(* It stays answered when a chunk is taken whose items have been got.      *)
LEMMA ChunkAnswers ==
    ASSUME NEW s \in Seq(Wire), s # <<>>, NEW h, NEW D, NEW H, NEW K, H \subseteq K,
           Answers(s, h, D, H),
           Head(s).type = "chunk", Head(s).id = h.id => Head(s).items \subseteq K
    PROVE  Answers(Tail(s), h, D, K)
<1> SUFFICES ASSUME NEW k \in 1..Len(Tail(s)), Tail(s)[k].type = "complete"
             PROVE  /\ Tail(s)[k].id <= h.id
                    /\ Tail(s)[k].id = h.id =>
                          \A i \in D : Ends(Tail(s)[k], i) => i \in K \/ Brings(Tail(s), k, h.id, i)
  BY DEF Answers
<1>1. k + 1 \in 1..Len(s) /\ Tail(s)[k] = s[k + 1]
  OBVIOUS
<1>2. /\ s[k + 1].id <= h.id
      /\ s[k + 1].id = h.id =>
            \A i \in D : Ends(s[k + 1], i) => i \in H \/ Brings(s, k + 1, h.id, i)
  BY <1>1 DEF Answers
<1>3. \A i : Brings(s, k + 1, h.id, i) => Brings(Tail(s), k, h.id, i) \/ i \in K
  BY BringsTail
<1> QED
  BY <1>1, <1>2, <1>3

(* The page after: no message completes it yet.                            *)
LEMMA NextAnswers ==
    ASSUME NEW s \in Seq(Wire), s # <<>>, NEW h \in HistoryState, NEW g \in HistoryState,
           g.id = h.id + 1, NEW D, NEW H, Answers(s, h, D, H)
    PROVE  Answers(Tail(s), g, D, H)
<1> SUFFICES ASSUME NEW k \in 1..Len(Tail(s)), Tail(s)[k].type = "complete"
             PROVE  Tail(s)[k].id <= g.id /\ Tail(s)[k].id # g.id
  BY DEF Answers
<1>1. k + 1 \in 1..Len(s) /\ Tail(s)[k] = s[k + 1]
  OBVIOUS
<1>2. s[k + 1].id <= h.id
  BY <1>1 DEF Answers
<1>3. s[k + 1].id \in Nat
  <2>1. s[k + 1] \in Wire
    BY <1>1
  <2> QED
    BY <1>1, <2>1, WireType
<1>4. h.id \in Nat
  BY DEF HistoryState
<1> QED
  BY <1>1, <1>2, <1>3, <1>4

(* It is asked for, once its request is sent.                              *)
LEMMA NextAsks ==
    ASSUME NEW s \in Seq(Wire), NEW A \in SUBSET Request, NEW h \in HistoryState,
           NEW g \in HistoryState, g.id = h.id + 1, NEW S, Asks(s, A, h, S)
    PROVE  Asks(Append(s, Ask(g, {})), A, g, S)
<1> DEFINE m == Ask(g, {})
<1>1. m \in Wire /\ Agrees(m.req, g, S)
  <2>1. g.id \in Nat
    BY DEF HistoryState
  <2> QED
    BY <2>1, AskType DEF Ask, Agrees
<1>2. ASSUME NEW r \in Request, Agrees(r, h, S) PROVE Agrees(r, g, S)
  <2>1. r.id \in Nat /\ h.id \in Nat /\ r.id <= h.id
    BY <1>2 DEF Request, HistoryState, Agrees
  <2>2. r.id <= g.id /\ r.id # g.id
    BY <2>1
  <2> QED
    BY <2>2 DEF Agrees
<1> HIDE DEF m
<1>3. ASSUME NEW k \in 1..Len(Append(s, m)), Append(s, m)[k].type = "request"
      PROVE  Agrees(Append(s, m)[k].req, g, S)
  <2>1. CASE k \in 1..Len(s)
    <3>1. Append(s, m)[k] = s[k] /\ s[k] \in Wire
      BY <1>1, <2>1
    <3>2. s[k].req \in Request /\ Agrees(s[k].req, h, S)
      BY <1>3, <2>1, <3>1, WireType DEF Asks
    <3> QED
      BY <1>2, <3>1, <3>2
  <2>2. CASE k \notin 1..Len(s)
    <3>1. Append(s, m)[k] = m
      BY <1>1, <2>2
    <3> QED
      BY <1>1, <3>1
  <2> QED
    BY <2>1, <2>2
<1>4. \A r \in A : Agrees(r, g, S)
  BY <1>2 DEF Asks
<1> QED
  BY <1>3, <1>4 DEF Asks, m

\* The items of T that are newer than x.
Newer(T, x) == {j \in T : j > x}

(* The newest of some items is newer than the others.                      *)
LEMMA NewestExists ==
    ASSUME NEW S \in SUBSET Items, S # {}
    PROVE  \E x \in S : \A y \in S : y <= x
<1> DEFINE R == {ss \in Nat \X Nat : ss[1] < ss[2]}
           C(x) == Cardinality(Newer(S, x))
           Cs == {C(x) : x \in S}
<1>1. S \subseteq Nat /\ IsFiniteSet(S)
  BY ChatAssumption, FS_Subset DEF Items
<1>2. \A x \in S : IsFiniteSet(Newer(S, x)) /\ C(x) \in Nat
  BY <1>1, FS_Subset, FS_CardinalityType DEF Newer
<1>3. OpToRel(<, Nat) = R
  BY DEF OpToRel
<1>4. IsWellFoundedOn(R, Nat)
  BY <1>3, NatLessThanWellFounded
<1> HIDE DEF C
<1>5. Cs \subseteq Nat /\ Cs # {}
  BY <1>2
<1>6. PICK c \in Cs : \A d \in Cs : <<d, c>> \notin R
  BY <1>4, <1>5, WFMin
<1>7. PICK x \in S : c = C(x)
  BY <1>6
<1>8. ASSUME NEW y \in S PROVE y <= x
  <2>1. x \in Nat /\ y \in Nat
    BY <1>1
  <2>2. SUFFICES ASSUME y > x PROVE FALSE
    BY <2>1
  <2>3. Newer(S, y) \in SUBSET Newer(S, x) /\ y \in Newer(S, x) /\ y \notin Newer(S, y)
    <3>1. ASSUME NEW z \in Newer(S, y) PROVE z \in Newer(S, x)
      <4>1. z \in S /\ z \in Nat /\ z > y
        BY <1>1, <3>1 DEF Newer
      <4> QED
        BY <2>1, <2>2, <4>1 DEF Newer
    <3>2. y \in Newer(S, x) /\ y \notin Newer(S, y)
      BY <2>1, <2>2 DEF Newer
    <3> QED
      BY <3>1, <3>2
  <2>4. C(y) <= C(x) /\ C(y) # C(x)
    BY <1>2, <2>3, FS_Subset DEF C
  <2>5. C(y) \in Cs /\ C(y) \in Nat /\ C(x) \in Nat
    BY <1>2
  <2>6. <<C(y), C(x)>> \in R
    BY <2>4, <2>5
  <2> QED
    BY <1>6, <1>7, <2>5, <2>6
<1> QED
  BY <1>8

(* A page is the newest items below its cursor: one that it leaves out is  *)
(* older than the cursor of the page, which is then full.                  *)
LEMMA PageComplete ==
    ASSUME NEW S \in SUBSET Items, NEW before \in Nat, NEW i \in S,
           before = 0 \/ i < before,
           Past(Cursor(Page(S, before)) = 0, Cursor(Page(S, before)), i)
    PROVE  i \in Page(S, before)
<1> DEFINE T == {j \in S : before = 0 \/ j < before}
           P == Page(S, before)
           C(x) == Cardinality(Newer(T, x))
<1>1. S \subseteq Nat \ {0} /\ IsFiniteSet(S)
  BY ChatAssumption, FS_Subset DEF Items
<1>2. T \in SUBSET S /\ i \in T
  OBVIOUS
<1>3. P = {x \in T : C(x) < PageSize}
  BY DEF Page, Newer
<1>4. \A x \in T : IsFiniteSet(Newer(T, x)) /\ C(x) \in Nat
  BY <1>1, <1>2, FS_Subset, FS_CardinalityType DEF Newer
<1>5. PageSize \in Nat /\ PageSize # 0
  BY ChatAssumption
<1> HIDE DEF T, P, C
<1> SUFFICES ASSUME i \notin P PROVE FALSE
  BY DEF P
<1>6. ASSUME NEW x \in T \ P, NEW y \in P PROVE x < y
  <2>1. x \in Nat /\ y \in Nat /\ y \in T
    BY <1>1, <1>2, <1>3
  <2>2. SUFFICES ASSUME y <= x PROVE FALSE
    BY <2>1
  <2>3. Newer(T, x) \in SUBSET Newer(T, y)
    <3>1. ASSUME NEW z \in Newer(T, x) PROVE z \in Newer(T, y)
      <4>1. z \in T /\ z \in Nat /\ z > x
        BY <1>1, <1>2, <3>1 DEF Newer
      <4> QED
        BY <2>1, <2>2, <4>1 DEF Newer
    <3> QED
      BY <3>1
  <2>4. C(x) <= C(y)
    BY <1>4, <2>1, <2>3, FS_Subset DEF C
  <2> QED
    BY <1>3, <1>4, <1>5, <2>1, <2>4
<1>7. PICK x \in T \ P : \A y \in T \ P : y <= x
  <2>1. T \ P \in SUBSET Items /\ T \ P # {}
    BY <1>2
  <2> QED
    BY <2>1, NewestExists
<1>8. P = Newer(T, x)
  <2>1. ASSUME NEW y \in Newer(T, x) PROVE y \in P
    BY <1>1, <1>2, <1>7, <2>1 DEF Newer
  <2>2. ASSUME NEW y \in P PROVE y \in Newer(T, x)
    BY <1>3, <1>6, <1>7, <2>2 DEF Newer
  <2> QED
    BY <2>1, <2>2
<1>9. IsFiniteSet(P) /\ Cardinality(P) \in Nat /\ Cardinality(P) >= PageSize
  BY <1>3, <1>4, <1>5, <1>7, <1>8 DEF C
<1>10. P # {} /\ P \in SUBSET Items
  BY <1>1, <1>2, <1>3, <1>5, <1>9, FS_EmptySet
<1>11. Oldest(P) \in P /\ \A j \in P : Oldest(P) <= j
  BY <1>10, OldestType
<1>12. Newer(T, Oldest(P)) = P \ {Oldest(P)}
  <2>1. ASSUME NEW y \in Newer(T, Oldest(P)) PROVE y \in P \ {Oldest(P)}
    <3>1. y \in T /\ y > Oldest(P) /\ y \in Nat /\ Oldest(P) \in Nat
      BY <1>1, <1>2, <1>3, <1>11 DEF Newer
    <3>2. y \in P
      BY <1>6, <1>11, <3>1
    <3> QED
      BY <3>1, <3>2
  <2>2. ASSUME NEW y \in P \ {Oldest(P)} PROVE y \in Newer(T, Oldest(P))
    <3>1. y \in T /\ y \in Nat /\ Oldest(P) \in Nat /\ Oldest(P) <= y
      BY <1>1, <1>2, <1>3, <1>11
    <3> QED
      BY <3>1 DEF Newer
  <2> QED
    BY <2>1, <2>2
<1>13. Cardinality(P \ {Oldest(P)}) = Cardinality(P) - 1
  BY <1>9, <1>11, FS_RemoveElement
<1>14. Cardinality(P \ {Oldest(P)}) < PageSize
  BY <1>3, <1>11, <1>12 DEF C
<1>15. Cardinality(P) = PageSize
  BY <1>5, <1>9, <1>13, <1>14
<1>16. Cursor(P) = Oldest(P) /\ Oldest(P) \in Nat \ {0}
  BY <1>1, <1>2, <1>3, <1>11, <1>15 DEF Cursor
<1>17. i \in Nat /\ i >= Oldest(P)
  BY <1>1, <1>16 DEF Past, P
<1>18. i < Oldest(P)
  BY <1>2, <1>6, <1>11
<1> QED
  BY <1>16, <1>17, <1>18

(* Some chunk of a set of items brings each of them.                       *)
LEMMA ChunksCover ==
    ASSUME NEW S \in SUBSET Items, NEW id \in Nat, NEW i \in S
    PROVE  \E k \in 1..Len(Chunks(S, id)) :
              /\ Chunks(S, id)[k].type = "chunk" /\ Chunks(S, id)[k].id = id
              /\ i \in Chunks(S, id)[k].items
<1> DEFINE n == (Cardinality(S) + ChunkSize - 1) \div ChunkSize
           B == {j \in S : j < i}
           a == Cardinality(B)
           c(k) == [type |-> "chunk", id |-> id,
                    items |-> {x \in S : Cardinality({j \in S : j < x}) \div ChunkSize = k - 1}]
<1>1. S \subseteq Nat /\ IsFiniteSet(S) /\ Cardinality(S) \in Nat
  BY ChatAssumption, FS_Subset, FS_CardinalityType DEF Items
<1>2. i \notin B /\ B \in SUBSET S
  BY <1>1
<1>3. a \in Nat /\ a < Cardinality(S)
  <2>1. IsFiniteSet(B) /\ a <= Cardinality(S) /\ (Cardinality(S) = a => S = B)
    BY <1>1, <1>2, FS_Subset
  <2>2. a \in Nat
    BY <2>1, FS_CardinalityType
  <2> QED
    BY <1>1, <1>2, <2>1, <2>2
<1>4. ChunkSize \in Nat /\ ChunkSize > 0
  BY ChatAssumption
<1>5. n \in Nat /\ a \div ChunkSize \in Nat /\ a \div ChunkSize + 1 <= n
  <2> DEFINE N == Cardinality(S)
             b == a \div ChunkSize
  <2>1. N \in Nat /\ a \in Nat /\ a < N
    BY <1>1, <1>3
  <2> HIDE DEF N
  <2>2. b \in Nat /\ b * ChunkSize <= a
    BY <1>4, <2>1
  <2>3. (b + 1) * ChunkSize <= N + ChunkSize - 1
    BY <1>4, <2>1, <2>2
  <2>4. (N + ChunkSize - 1) \div ChunkSize >= b + 1
    BY <1>4, <2>1, <2>2, <2>3
  <2> QED
    BY <1>4, <2>1, <2>2, <2>4 DEF N
<1>6. Chunks(S, id) = [k \in 1..n |-> c(k)]
  BY DEF Chunks
<1> DEFINE k == a \div ChunkSize + 1
<1>7. k \in 1..n /\ i \in c(k).items
  BY <1>5
<1> HIDE DEF n, c, k
<1>8. Len([j \in 1..n |-> c(j)]) = n
  BY <1>5
<1>9. c(k).type = "chunk" /\ c(k).id = id
  BY DEF c
<1> QED
  BY <1>6, <1>7, <1>8, <1>9

\* A response: what the chunks bring, and the pages whose cursors end it.
Final(id, M, E) ==
    [type |-> "complete", id |-> id, mNext |-> Cursor(M), eNext |-> Cursor(E)]

Response(id, M, E, A, B) == Chunks(A, id) \o Chunks(B, id) \o <<Final(id, M, E)>>

\* The page of a stream.
PageOf(S, done, before) == IF done THEN {} ELSE Page(S, before)

(* A response is chunks that bring what was asked for, and the cursors.    *)
LEMMA ResponseWires ==
    ASSUME NEW M \in SUBSET Items, NEW E \in SUBSET Items,
           NEW A \in SUBSET Items, NEW B \in SUBSET Items, NEW id \in Nat
    PROVE  LET w == Response(id, M, E, A, B) IN
           /\ w \in Seq(Wire) /\ Len(w) \in Nat /\ Len(w) > 0
           /\ w[Len(w)] = Final(id, M, E)
           /\ \A k \in 1..(Len(w) - 1) : w[k].type = "chunk"
           /\ \A i \in A \cup B : Brings(w, Len(w), id, i)
<1> DEFINE w == Response(id, M, E, A, B)
           a == Chunks(A, id)
           b == Chunks(B, id)
           m == Final(id, M, E)
<1>1. m \in Wire
  BY CursorType DEF Wire, Final
<1>2. /\ a \in Seq(Wire) /\ \A k \in 1..Len(a) : a[k].type = "chunk"
      /\ b \in Seq(Wire) /\ \A k \in 1..Len(b) : b[k].type = "chunk"
  BY ChunksType
<1>3. /\ \A i \in A : \E k \in 1..Len(a) : a[k].type = "chunk" /\ a[k].id = id /\ i \in a[k].items
      /\ \A i \in B : \E k \in 1..Len(b) : b[k].type = "chunk" /\ b[k].id = id /\ i \in b[k].items
  BY ChunksCover
<1>4. w = (a \o b) \o <<m>>
  BY DEF Response
<1> HIDE DEF w, a, b, m
<1> DEFINE ab == a \o b
<1>5. ab \in Seq(Wire) /\ \A k \in 1..Len(ab) : ab[k].type = "chunk"
  BY <1>2
<1>6. ASSUME NEW i \in A \cup B
      PROVE  \E k \in 1..Len(ab) : ab[k].type = "chunk" /\ ab[k].id = id /\ i \in ab[k].items
  <2>1. CASE i \in A
    <3>1. PICK k \in 1..Len(a) : a[k].type = "chunk" /\ a[k].id = id /\ i \in a[k].items
      BY <1>3, <2>1
    <3>2. k \in 1..Len(ab) /\ ab[k] = a[k]
      BY <1>2
    <3> QED
      BY <3>1, <3>2
  <2>2. CASE i \in B
    <3>1. PICK k \in 1..Len(b) : b[k].type = "chunk" /\ b[k].id = id /\ i \in b[k].items
      BY <1>3, <2>2
    <3>2. k + Len(a) \in 1..Len(ab) /\ ab[k + Len(a)] = b[k]
      BY <1>2
    <3> QED
      BY <3>1, <3>2
  <2> QED
    BY <2>1, <2>2
<1>7. w = ab \o <<m>>
  BY <1>4 DEF ab
<1> HIDE DEF ab
<1>8. /\ w \in Seq(Wire) /\ Len(w) = Len(ab) + 1 /\ Len(ab) \in Nat /\ w[Len(w)] = m
      /\ \A k \in 1..Len(ab) : w[k] = ab[k]
  <2>1. w = Append(ab, m)
    BY <1>1, <1>5, <1>7, AppendIsConcat
  <2>2. ab \in Seq(Wire)
    BY <1>5
  <2>3. /\ Append(ab, m) \in Seq(Wire) /\ Len(Append(ab, m)) = Len(ab) + 1
        /\ \A k \in 1..Len(ab) : Append(ab, m)[k] = ab[k]
        /\ Append(ab, m)[Len(ab) + 1] = m
    BY <1>1, <2>2, AppendProperties
  <2>4. Len(ab) \in Nat
    BY <2>2, LenProperties
  <2> HIDE DEF m
  <2> QED
    BY <2>1, <2>3, <2>4
<1>9. ASSUME NEW i \in A \cup B PROVE Brings(w, Len(w), id, i)
  <2>1. PICK k \in 1..Len(ab) : ab[k].type = "chunk" /\ ab[k].id = id /\ i \in ab[k].items
    BY <1>6
  <2>2. k \in 1..Len(w) /\ k < Len(w) /\ w[k] = ab[k]
    BY <1>8
  <2> QED
    BY <2>1, <2>2 DEF Brings
<1>10. \A k \in 1..(Len(w) - 1) : w[k].type = "chunk"
  <2> SUFFICES ASSUME NEW k \in 1..(Len(w) - 1) PROVE w[k].type = "chunk"
    OBVIOUS
  <2>1. k \in 1..Len(ab)
    BY <1>8
  <2> QED
    BY <1>5, <1>8, <2>1
<1> QED
  BY <1>8, <1>9, <1>10 DEF m, w

(* The page that answers a request, with what the pages before have        *)
(* passed, covers what the new cursor passes.                              *)
LEMMA PageAnswers ==
    ASSUME NEW S \in SUBSET Items, NEW before \in Nat, NEW done \in BOOLEAN, NEW page,
           page = PageOf(S, done, before),
           NEW i \in S, Past(Cursor(page) = 0, Cursor(page), i), ~Past(done, before, i)
    PROVE  i \in page
<1>1. ~done /\ page = Page(S, before)
  BY DEF Past, PageOf
<1>2. i \in Nat
  BY ChatAssumption DEF Items
<1>3. before = 0 \/ i < before
  BY <1>2 DEF Past
<1> QED
  BY <1>1, <1>3, PageComplete

(* A whole response covers all that is due of the page.                    *)
LEMMA ResponseCovers ==
    ASSUME NEW S \in SUBSET Items, NEW h \in HistoryState, NEW r \in Request, NEW K,
           Agrees(r, h, K), r.id = h.id, NEW D \in SUBSET S, NEW G, K \subseteq G,
           \A i \in D : Seen(h, i) => i \in G
    PROVE  LET M == PageOf(S \cap Messages, r.mDone, r.mBefore)
               E == PageOf(S \cap Events, r.eDone, r.eBefore)
           IN  \A i \in D : Ends(Final(r.id, M, E), i) =>
                  i \in G \/ i \in (M \ r.known) \cup (E \ r.known)
<1> DEFINE M == PageOf(S \cap Messages, r.mDone, r.mBefore)
           E == PageOf(S \cap Events, r.eDone, r.eBefore)
<1>m. M = PageOf(S \cap Messages, r.mDone, r.mBefore) /\ E = PageOf(S \cap Events, r.eDone, r.eBefore)
  OBVIOUS
<1> SUFFICES ASSUME NEW i \in D, Ends(Final(r.id, M, E), i)
             PROVE  i \in G \/ i \in (M \ r.known) \cup (E \ r.known)
  OBVIOUS
<1> HIDE DEF M, E
<1>0. Final(r.id, M, E).mNext = Cursor(M) /\ Final(r.id, M, E).eNext = Cursor(E)
  BY DEF Final
<1>1. /\ r.mBefore \in Nat /\ r.eBefore \in Nat /\ r.mDone \in BOOLEAN /\ r.eDone \in BOOLEAN
      /\ r.mBefore = h.mBefore /\ r.mDone = h.mDone
      /\ r.eBefore = h.eBefore /\ r.eDone = h.eDone /\ r.known \subseteq G
  BY DEF Request, Agrees
<1>2. i \in Items /\ i \in S
  OBVIOUS
<1> SUFFICES ASSUME ~Seen(h, i) PROVE i \in M \cup E
  BY <1>1
<1>3. CASE i \in Messages
  <2>1. Past(Cursor(M) = 0, Cursor(M), i) /\ ~Past(r.mDone, r.mBefore, i)
    BY <1>0, <1>1, <1>3 DEF Ends, Seen
  <2>2. i \in S \cap Messages /\ S \cap Messages \in SUBSET Items
    BY <1>2, <1>3
  <2> QED
    BY <1>m, <1>1, <2>1, <2>2, PageAnswers
<1>4. CASE i \notin Messages
  <2>1. Past(Cursor(E) = 0, Cursor(E), i) /\ ~Past(r.eDone, r.eBefore, i)
    BY <1>0, <1>1, <1>4 DEF Ends, Seen
  <2>2. i \in S \cap Events /\ S \cap Events \in SUBSET Items
    BY <1>2, <1>4 DEF Items
  <2> QED
    BY <1>m, <1>1, <2>1, <2>2, PageAnswers
<1> QED
  BY <1>3, <1>4

(* As much of a response as a channel takes answers the open page, for its *)
(* last message completes the page only when all the others are there.     *)
LEMMA ResponseAnswers ==
    ASSUME NEW s \in Seq(Wire), NEW w \in Seq(Wire), Len(w) > 0, NEW n \in Int, n <= Len(w),
           NEW id \in Nat, NEW h, id <= h.id, NEW D, NEW G, Answers(s, h, D, G),
           \A k \in 1..(Len(w) - 1) : w[k].type = "chunk",
           w[Len(w)].id = id,
           id = h.id =>
              \A i \in D : Ends(w[Len(w)], i) => i \in G \/ Brings(w, Len(w), id, i)
    PROVE  Answers(s \o SubSeq(w, 1, n), h, D, G)
<1> DEFINE u == SubSeq(w, 1, n)
           t == s \o u
<1>1. u \in Seq(Wire) /\ t \in Seq(Wire)
  OBVIOUS
<1>2. \A k \in 1..Len(u) : k \in 1..Len(w) /\ k <= n /\ u[k] = w[k]
  OBVIOUS
<1>u. Len(u) = n \/ (n <= 0 /\ Len(u) = 0)
  OBVIOUS
<1> HIDE DEF u
<1>3. SUFFICES ASSUME NEW k \in 1..Len(t), t[k].type = "complete"
               PROVE  /\ t[k].id <= h.id
                      /\ t[k].id = h.id =>
                            \A i \in D : Ends(t[k], i) => i \in G \/ Brings(t, k, h.id, i)
  BY DEF Answers, u
<1>4. CASE k \in 1..Len(s)
  <2>1. t[k] = s[k]
    BY <1>1, <1>4
  <2>2. /\ s[k].id <= h.id
        /\ s[k].id = h.id => \A i \in D : Ends(s[k], i) => i \in G \/ Brings(s, k, h.id, i)
    BY <1>3, <1>4, <2>1 DEF Answers
  <2> QED
    BY <1>1, <2>1, <2>2, BringsLonger
<1>5. CASE k \notin 1..Len(s)
  <2> DEFINE l == k - Len(s)
  <2>1. l \in 1..Len(u) /\ t[k] = u[l] /\ k = Len(s) + l /\ Len(s) \in Nat
    BY <1>1, <1>5
  <2>2. t[k] = w[l] /\ l \in 1..Len(w) /\ l <= n
    BY <1>2, <2>1
  <2> HIDE DEF l
  <2>3. l = Len(w) /\ Len(w) \in Nat
    BY <1>3, <2>2
  <2>4. n = Len(w) /\ Len(u) = Len(w)
    BY <1>u, <2>1, <2>2, <2>3
  <2>5. ASSUME NEW i, Brings(w, Len(w), id, i) PROVE Brings(t, k, id, i)
    <3>1. PICK j \in 1..Len(w) : /\ j < Len(w) /\ w[j].type = "chunk" /\ w[j].id = id
                                 /\ i \in w[j].items
      BY <2>5 DEF Brings
    <3>2. j + Len(s) \in 1..Len(t) /\ j + Len(s) < k /\ t[j + Len(s)] = u[j] /\ u[j] = w[j]
      BY <1>1, <1>2, <2>1, <2>3, <2>4, <3>1
    <3> QED
      BY <3>1, <3>2 DEF Brings
  <2> QED
    BY <2>2, <2>3, <2>5
<1> QED
  BY <1>4, <1>5

\* A step that leaves the transfer of a pair alone.
Steady(c) ==
    /\ hist'[c] = hist[c] /\ due'[c] \in SUBSET due[c]
    /\ store[c[1]] \subseteq store'[c[1]] /\ store[c[2]] \subseteq store'[c[2]]
    /\ \A i \in due'[c] : i \in Got(c[1]) => i \in Got(c[1])'
    /\ answering'[Rev(c)] \in SUBSET answering[Rev(c)]
    /\ AskFlow(chan[c], chan'[c]) /\ AnswerFlow(chan[Rev(c)], chan'[Rev(c)])

\* ... and its preparation.
Settled(c) == tasks'[c] = tasks[c] /\ (c \in links' <=> c \in links) /\ (Active(c)' <=> Active(c))

(* Such a step keeps the transfer ...                                      *)
LEMMA SteadyTransfer ==
    ASSUME TypeOK, NEW c \in Pairs, Transferred(c), Steady(c)
    PROVE  Transferred(c)'
<1> SUFFICES ASSUME hist[c] # NoRequest
             PROVE  /\ due'[c] \subseteq store'[c[2]]
                    /\ \A i \in due'[c] : Seen(hist[c], i) => i \in Got(c[1])'
                    /\ Asks(chan'[c], answering'[Rev(c)], hist[c], store'[c[1]])
                    /\ Answers(chan'[Rev(c)], hist[c], due'[c], Got(c[1])')
  BY DEF Transferred, Steady
<1>1. /\ due[c] \subseteq store[c[2]]
      /\ \A i \in due[c] : Seen(hist[c], i) => i \in Got(c[1])
      /\ Asks(chan[c], answering[Rev(c)], hist[c], store[c[1]])
      /\ Answers(chan[Rev(c)], hist[c], due[c], Got(c[1]))
  BY DEF Transferred
<1>2. chan[c] \in Seq(Wire) /\ chan[Rev(c)] \in Seq(Wire)
  BY PairType DEF TypeOK
<1>3. Asks(chan'[c], answering'[Rev(c)], hist[c], store'[c[1]])
  BY <1>1, <1>2, AskFlowAsks DEF Steady
<1> DEFINE G == Got(c[1])
           K == Got(c[1])'
<1>4. \A i \in due'[c] : i \in G => i \in K
  BY DEF Steady
<1>5. Answers(chan[Rev(c)], hist[c], due[c], G)
  BY <1>1
<1> HIDE DEF G, K
<1>6. Answers(chan'[Rev(c)], hist[c], due'[c], K)
  BY <1>2, <1>4, <1>5, AnswerFlowAnswers DEF Steady
<1> QED
  BY <1>1, <1>3, <1>6 DEF Steady, K

(* ... its absence ...                                                     *)
LEMMA SteadyIdle ==
    ASSUME TypeOK, NEW c \in Pairs, Idle(c), Steady(c)
    PROVE  Idle(c)'
<1>1. chan[c] \in Seq(Wire) /\ chan[Rev(c)] \in Seq(Wire)
  BY PairType DEF TypeOK
<1>2. Without(chan'[c], "request")
  BY <1>1, AskFlowWithout DEF Steady, Idle
<1>3. Without(chan'[Rev(c)], "complete")
  BY <1>1, AnswerFlowWithout DEF Steady, Idle
<1> QED
  BY <1>2, <1>3 DEF Idle, Steady

(* ... and what is known of its preparation.                               *)
LEMMA SettledOnce ==
    ASSUME NEW c \in Pairs, PreparedOnce(c), Settled(c), Idle(c) => Idle(c)'
    PROVE  PreparedOnce(c)'
BY DEF PreparedOnce, Settled

\* What a pair holds.
PairInv(c) == PreparedOnce(c) /\ Transferred(c)

(* Both together.                                                          *)
LEMMA SteadyPair ==
    ASSUME TypeOK, NEW c \in Pairs, PairInv(c), Steady(c), Settled(c)
    PROVE  PairInv(c)'
BY SteadyTransfer, SteadyIdle, SettledOnce DEF PairInv

\* A channel on which no transfer moves.
Light(s, t) ==
    \/ t = s
    \/ \E m \in Wire : m.type \notin {"request", "complete"} /\ t = Append(s, m)
    \/ s # <<>> /\ t = Tail(s) /\ Head(s).type # "chunk"

(* Such a channel moves for neither end's transfer.                        *)
LEMMA LightFlows ==
    ASSUME NEW s, NEW t, Light(s, t)
    PROVE  AskFlow(s, t) /\ AnswerFlow(s, t)
BY DEF Light, AskFlow, AnswerFlow

\* A step that only adds to stores and moves no transfer.
Frames ==
    /\ hist' = hist /\ answering' = answering
    /\ \A c \in Pairs : due'[c] \in SUBSET due[c]
    /\ \A p \in Peers : store[p] \subseteq store'[p]
    /\ \A c \in Pairs : \A i \in due'[c] : i \in Got(c[1]) => i \in Got(c[1])'
    /\ \A c \in Pairs : Light(chan[c], chan'[c])

(* It leaves every pair alone.                                             *)
LEMMA FramesSteady ==
    ASSUME Frames, NEW c \in Pairs
    PROVE  Steady(c)
<1>1. Light(chan[c], chan'[c]) /\ Light(chan[Rev(c)], chan'[Rev(c)])
  BY PairType DEF Frames
<1>2. AskFlow(chan[c], chan'[c]) /\ AnswerFlow(chan[Rev(c)], chan'[Rev(c)])
  BY <1>1, LightFlows
<1> QED
  BY <1>2, PairType DEF Frames, Steady

\* A step that prepares nothing and opens or closes no channel.
Calm == tasks' = tasks /\ links' = links /\ ready' = ready

(* If it is neither, everything stays.                                     *)
LEMMA CalmFrames ==
    ASSUME TypeOK, HistoryInv, Frames, Calm
    PROVE  HistoryInv'
<1>1. ASSUME NEW c \in Pairs PROVE PairInv(c)'
  <2>1. Settled(c) /\ PairInv(c)
    BY DEF Calm, Settled, Active, HistoryInv, PairInv
  <2> QED
    BY <2>1, FramesSteady, SteadyPair
<1> QED
  BY <1>1 DEF HistoryInv, PairInv

(* Stores that grow, and what is being saved.                              *)
LEMMA GotMore ==
    ASSUME \A p \in Peers : store[p] \subseteq store'[p], applying' = applying, NEW c \in Pairs
    PROVE  \A i : i \in Got(c[1]) => i \in Got(c[1])'
BY PairType DEF Got

(* The steps of the outbox and of live items.                              *)
LEMMA LiveSteps ==
    ASSUME TypeOK, HistoryInv,
           \/ \E i \in Items : Enqueue(i) \/ Compose(i) \/ Expire(i)
           \/ \E p \in Peers : Persist(p)
           \/ \E p \in Peers : \/ \E qi \in storing[p] : PersistItemFails(p, qi[1], qi[2])
                               \/ \E c \in applying[p] : PersistFromHistoryFails(p, c)
           \/ \E pq \in Pairs : ReceiveItem(pq) \/ ReceiveAck(pq)
           \/ UNCHANGED vars
    PROVE  HistoryInv'
<1>l. ASSUME chan' = chan PROVE \A c \in Pairs : Light(chan[c], chan'[c])
  BY <1>l DEF Light
<1>a. ASSUME hist' = hist, answering' = answering, due' = due, applying' = applying,
             \A p \in Peers : store[p] \subseteq store'[p],
             \A c \in Pairs : Light(chan[c], chan'[c]), Calm
      PROVE  HistoryInv'
  <2>1. Frames
    BY <1>a, GotMore DEF Frames
  <2> QED
    BY <1>a, <2>1, CalmFrames
<1>1. ASSUME NEW i \in Items, Enqueue(i) \/ PersistSigned(i) \/ Expire(i) PROVE HistoryInv'
  BY <1>1, <1>a, <1>l DEF Enqueue, PersistSigned, Expire, Calm, TypeOK
<1>2. ASSUME NEW i \in Items, SendToAuthenticatedPeers(i) PROVE HistoryInv'
  <2>1. Item(i) \in Wire /\ Item(i).type \notin {"request", "complete"}
    BY ItemType DEF Item
  <2>2. \A c \in Pairs : Light(chan[c], chan'[c])
    BY <1>2, <2>1 DEF SendToAuthenticatedPeers, Sent, Light
  <2> QED
    BY <1>2, <1>a, <2>2 DEF SendToAuthenticatedPeers, Calm
<1>3. ASSUME NEW p \in Peers, NEW qi \in storing[p], PersistItem(p, qi[1], qi[2])
      PROVE  HistoryInv'
  <2>1. qi[2] \in Items /\ Ack(qi[2]) \in Wire /\ Ack(qi[2]).type \notin {"request", "complete"}
    BY ItemType DEF Ack, TypeOK
  <2>2. \A c \in Pairs : Light(chan[c], chan'[c])
    BY <1>3, <2>1 DEF PersistItem, Sent, Light, TypeOK
  <2> QED
    BY <1>3, <1>a, <2>2 DEF PersistItem, Calm, TypeOK
<1>4. ASSUME NEW p \in Peers, NEW qi \in storing[p], PersistItemFails(p, qi[1], qi[2])
      PROVE  HistoryInv'
  BY <1>4, <1>a, <1>l DEF PersistItemFails, Calm
<1>5. ASSUME NEW p \in Peers, NEW c \in applying[p], PersistFromHistory(p, c)
      PROVE  HistoryInv'
  <2>1. /\ applying' = [applying EXCEPT ![p] = (@ \ {c}) \cup ({c \ {Oldest(c)}} \ {{}})]
        /\ store' = [store EXCEPT ![p] = @ \cup {Oldest(c)}]
        /\ UNCHANGED <<links, ready, chan, tasks, answering, hist, due>>
    BY <1>5 DEF PersistFromHistory
  <2>2. \A q \in Peers : store[q] \subseteq store'[q]
    BY <2>1 DEF TypeOK
  <2>3. ASSUME NEW q \in Peers, NEW i, i \in Got(q) PROVE i \in Got(q)'
    <3>1. CASE i \in store[q]
      BY <2>2, <3>1 DEF Got
    <3>2. CASE i \notin store[q]
      <4>1. PICK d \in applying[q] : i \in d
        BY <2>3, <3>2 DEF Got
      <4>2. CASE q # p \/ d # c
        <5>1. d \in applying'[q]
          BY <2>1, <4>2 DEF TypeOK
        <5> QED
          BY <4>1, <5>1 DEF Got
      <4>3. CASE q = p /\ d = c
        <5>1. i = Oldest(c) => i \in store'[q]
          BY <2>1, <4>3 DEF TypeOK
        <5>2. i # Oldest(c) => c \ {Oldest(c)} \in applying'[q]
          BY <2>1, <4>1, <4>3 DEF TypeOK
        <5> QED
          BY <4>1, <4>3, <5>1, <5>2 DEF Got
      <4> QED
        BY <4>2, <4>3
    <3> QED
      BY <3>1, <3>2
  <2>4. Frames /\ Calm
    BY <1>l, <2>1, <2>2, <2>3, PairType DEF Frames, Calm
  <2> QED
    BY <2>4, CalmFrames
<1>6. ASSUME NEW p \in Peers, NEW c \in applying[p], PersistFromHistoryFails(p, c)
      PROVE  HistoryInv'
  <2>1. /\ applying' = [applying EXCEPT ![p] = @ \ {c}]
        /\ due' = [pq \in Pairs |-> IF pq[1] = p THEN due[pq] \ c ELSE due[pq]]
        /\ UNCHANGED <<store, links, ready, chan, tasks, answering, hist>>
    BY <1>6 DEF PersistFromHistoryFails
  <2>2. ASSUME NEW d \in Pairs, NEW i \in due'[d], i \in Got(d[1]) PROVE i \in Got(d[1])'
    <3>1. d[1] = p => i \notin c
      BY <2>1, <2>2
    <3>2. CASE i \in store[d[1]]
      BY <2>1, <3>2 DEF Got
    <3>3. CASE i \notin store[d[1]]
      <4>1. PICK e \in applying[d[1]] : i \in e
        BY <2>2, <3>3 DEF Got
      <4>2. e \in applying'[d[1]]
        BY <2>1, <3>1, <4>1, PairType DEF TypeOK
      <4> QED
        BY <4>1, <4>2 DEF Got
    <3> QED
      BY <3>2, <3>3
  <2>3. Frames /\ Calm
    BY <1>l, <2>1, <2>2 DEF Frames, Calm
  <2> QED
    BY <2>3, CalmFrames
<1>7. ASSUME NEW pq \in Pairs, ReceiveItem(pq) PROVE HistoryInv'
  <2> DEFINE i == Head1(pq).item
             rev == Rev(pq)
  <2>1. chan[pq] # <<>> /\ Head1(pq).type = "item" /\ Head1(pq) = Head(chan[pq])
    BY <1>7 DEF ReceiveItem, Heard, Head1
  <2>2. /\ Ack(i) \in Wire /\ Ack(i).type \notin {"request", "complete"}
        /\ rev \in Pairs /\ rev # pq
    BY <2>1, PoppedType, WireType, ItemType, PairType DEF Ack
  <2>3. \/ chan' = Popped(pq)
        \/ chan' = [Popped(pq) EXCEPT ![rev] = Append(@, Ack(i))]
    BY <1>7 DEF ReceiveItem
  <2> HIDE DEF i, rev
  <2>4. /\ Popped(pq) \in [Pairs -> Seq(Wire)]
        /\ \A c \in Pairs : c # pq => Popped(pq)[c] = chan[c]
        /\ Popped(pq)[pq] = Tail(chan[pq])
    BY <2>1, PoppedType
  <2>5. ASSUME NEW c \in Pairs PROVE Light(chan[c], chan'[c])
    <3>1. CASE c = pq
      <4>1. chan'[c] = Tail(chan[c])
        BY <2>2, <2>3, <2>4, <3>1
      <4> QED
        BY <2>1, <3>1, <4>1 DEF Light
    <3>2. CASE c # pq
      <4>1. chan'[c] = chan[c] \/ chan'[c] = Append(chan[c], Ack(i))
        BY <2>2, <2>3, <2>4, <3>2
      <4> QED
        BY <2>2, <4>1 DEF Light
    <3> QED
      BY <3>1, <3>2
  <2> QED
    BY <1>7, <1>a, <2>5 DEF ReceiveItem, Calm
<1>8. ASSUME NEW pq \in Pairs, ReceiveAck(pq) PROVE HistoryInv'
  <2>1. chan[pq] # <<>> /\ Head(chan[pq]).type = "ack" /\ chan' = Popped(pq)
    BY <1>8 DEF ReceiveAck, Heard, Head1
  <2>2. \A c \in Pairs : Light(chan[c], chan'[c])
    BY <2>1, PoppedType DEF Light
  <2> QED
    BY <1>8, <1>a, <2>2 DEF ReceiveAck, Calm
<1>9. CASE UNCHANGED vars
  BY <1>9, <1>a, <1>l DEF vars, Calm
<1> QED
  BY <1>1, <1>2, <1>3, <1>4, <1>5, <1>6, <1>7, <1>8, <1>9 DEF Compose, Persist

(* Preparing a peer: the transfer of every pair stays, and the preparation *)
(* of the others.                                                          *)
LEMMA PrepareSteps ==
    ASSUME TypeOK, HistoryInv, NEW pq \in Pairs,
           \/ Connect(pq) \/ MarkPeerReady(pq)
           \/ \E t \in tasks[pq] : \/ LoadOutbox(pq, t) \/ FlushNext(pq, t)
                                   \/ MarkOutboxAttempt(pq, t)
    PROVE  HistoryInv'
<1>0. /\ PreparedOnce(pq) /\ PreparedOnce(Rev(pq)) /\ Rev(pq) \in Pairs
      /\ tasks \in [Pairs -> SUBSET Task] /\ ready \in [Peers -> SUBSET Peers]
      /\ pq \in Pairs /\ pq[1] \in Peers /\ links \subseteq Pairs
  BY PairType DEF HistoryInv, TypeOK
<1>1. ASSUME hist' = hist, answering' = answering, due' = due, applying' = applying,
             store' = store, \A c \in Pairs : Light(chan[c], chan'[c]),
             \A c \in Pairs : (Idle(c) => Idle(c)') => PreparedOnce(c)'
      PROVE  HistoryInv'
  <2>1. Frames
    BY <1>1, GotMore DEF Frames
  <2>2. ASSUME NEW c \in Pairs PROVE PreparedOnce(c)' /\ Transferred(c)'
    <3>1. Steady(c) /\ Transferred(c)
      BY <2>1, FramesSteady DEF HistoryInv
    <3> QED
      BY <1>1, <3>1, SteadyTransfer, SteadyIdle
  <2> QED
    BY <2>2 DEF HistoryInv
<1>2. ASSUME chan' = chan PROVE \A c \in Pairs : Light(chan[c], chan'[c])
  BY <1>2 DEF Light
\* The preparation of pq moves, of which Idle holds before.
<1>3. ASSUME links' = links, ready' = ready, NEW T, tasks' = [tasks EXCEPT ![pq] = T],
             tasks[pq] # {}, \A t, u \in T : t = u,
             \A t \in T : t.step = "mark" \/ Active(pq)
      PROVE  \A c \in Pairs : (Idle(c) => Idle(c)') => PreparedOnce(c)'
  <2> SUFFICES ASSUME NEW c \in Pairs, Idle(c) => Idle(c)' PROVE PreparedOnce(c)'
    OBVIOUS
  <2>1. PreparedOnce(c)
    BY DEF HistoryInv
  <2>2. CASE c # pq
    <3>1. Settled(c)
      BY <1>0, <1>3, <2>2 DEF Settled, Active
    <3> QED
      BY <2>1, <3>1, SettledOnce
  <2>3. CASE c = pq
    <3>1. tasks'[c] = T /\ Active(c)' = Active(c)
      BY <1>0, <1>3, <2>3 DEF Active
    <3>2. Idle(c) /\ (pq \in links => Active(pq))
      BY <1>3, <2>1, <2>3 DEF PreparedOnce
    <3> QED
      BY <1>3, <2>3, <3>1, <3>2 DEF PreparedOnce
  <2> QED
    BY <2>2, <2>3
<1>4. CASE Connect(pq)
  <2>1. /\ tasks[pq] = {} /\ tasks[Rev(pq)] = {} /\ links' = links \cup {pq, Rev(pq)}
        /\ UNCHANGED <<store, ready, chan, tasks, answering, applying, hist, due>>
    BY <1>4 DEF Connect
  <2>2. ASSUME NEW c \in Pairs, Idle(c) => Idle(c)' PROVE PreparedOnce(c)'
    <3>1. PreparedOnce(c) /\ (c = pq \/ c = Rev(pq) => tasks[c] = {})
      BY <2>1 DEF HistoryInv
    <3>2. tasks'[c] = tasks[c] /\ Active(c)' = Active(c)
      BY <2>1 DEF Active
    <3>3. c \in links' => c \in links \/ tasks[c] = {}
      BY <2>1, <3>1
    <3> QED
      BY <2>2, <3>1, <3>2, <3>3 DEF PreparedOnce
  <2> QED
    BY <1>1, <1>2, <2>1, <2>2
<1>5. CASE MarkPeerReady(pq)
  <2>1. /\ pq \in links /\ ~Active(pq)
        /\ ready' = [ready EXCEPT ![pq[1]] = @ \cup {pq[2]}]
        /\ tasks' = [tasks EXCEPT ![pq] = @ \cup {[step |-> "load"]}]
        /\ UNCHANGED <<store, links, chan, answering, applying, hist, due>>
    BY <1>5 DEF MarkPeerReady, Active
  <2>2. ASSUME NEW c \in Pairs, Idle(c) => Idle(c)' PROVE PreparedOnce(c)'
    <3>1. PreparedOnce(c)
      BY DEF HistoryInv
    <3>2. CASE c = pq
      <4>1. tasks[c] = {} /\ Idle(c)
        BY <2>1, <3>1, <3>2 DEF PreparedOnce
      <4>2. tasks'[c] = {[step |-> "load"]} /\ Active(c)'
        BY <1>0, <2>1, <3>2, <4>1 DEF Active
      <4> QED
        BY <2>2, <4>1, <4>2 DEF PreparedOnce
    <3>3. CASE c # pq
      <4>1. tasks'[c] = tasks[c] /\ (Active(c)' <=> Active(c))
        BY <1>0, <2>1, <3>3, PairType DEF Active
      <4> QED
        BY <2>1, <2>2, <3>1, <4>1, SettledOnce DEF Settled
    <3> QED
      BY <3>2, <3>3
  <2> QED
    BY <1>1, <1>2, <2>1, <2>2
<1>6. ASSUME NEW t \in tasks[pq], LoadOutbox(pq, t) PROVE HistoryInv'
  <2> DEFINE u == [step |-> "flush", records |-> outbox[pq[1]]]
             T == (tasks[pq] \ {t}) \cup {u}
  <2>1. /\ t.step = "load" /\ tasks' = [tasks EXCEPT ![pq] = T]
        /\ UNCHANGED <<store, links, ready, chan, answering, applying, hist, due>>
    BY <1>6 DEF LoadOutbox, Continue
  <2>2. T = {u} /\ Active(pq)
    BY <1>0, <2>1 DEF PreparedOnce
  <2>3. (\A v, w \in T : v = w) /\ \A v \in T : Active(pq)
    BY <2>2
  <2> HIDE DEF T, u
  <2> QED
    BY <1>1, <1>2, <1>3, <2>1, <2>3
<1>7. ASSUME NEW t \in tasks[pq], FlushNext(pq, t) PROVE HistoryInv'
  <2>1. t.step = "flush" /\ t.records \in SUBSET Items
    BY <1>7, <1>0, TaskType DEF FlushNext
  <2>2. PICK i \in t.records : \E u :
          /\ tasks' = [tasks EXCEPT ![pq] = (@ \ {t}) \cup {u}]
          /\ chan' = chan \/ chan' = [chan EXCEPT ![pq] = Sent(pq, Item(i))]
    BY <1>7 DEF FlushNext, Continue
  <2>8. PICK u :
          /\ tasks' = [tasks EXCEPT ![pq] = (@ \ {t}) \cup {u}]
          /\ chan' = chan \/ chan' = [chan EXCEPT ![pq] = Sent(pq, Item(i))]
    BY <2>2
  <2>3. UNCHANGED <<store, links, ready, answering, applying, hist, due>>
    BY <1>7 DEF FlushNext
  <2> DEFINE T == (tasks[pq] \ {t}) \cup {u}
  <2>4. T = {u} /\ Active(pq) /\ tasks' = [tasks EXCEPT ![pq] = T]
    BY <1>0, <2>1, <2>8 DEF PreparedOnce
  <2>5. Item(i) \in Wire /\ Item(i).type \notin {"request", "complete"}
    BY <2>1, ItemType DEF Item
  <2>6. \A c \in Pairs : Light(chan[c], chan'[c])
    BY <2>8, <2>5 DEF Sent, Light, TypeOK
  <2>7. (\A v, w \in T : v = w) /\ \A v \in T : Active(pq)
    BY <2>4
  <2> HIDE DEF T
  <2> QED
    BY <1>1, <1>3, <2>3, <2>4, <2>6, <2>7
<1>8. ASSUME NEW t \in tasks[pq], MarkOutboxAttempt(pq, t) PROVE HistoryInv'
  <2> DEFINE U == IF Active(pq) THEN {[step |-> "flush", records |-> t.records]} ELSE {}
             T == (tasks[pq] \ {t}) \cup U
  <2>1. /\ tasks' = [tasks EXCEPT ![pq] = T]
        /\ UNCHANGED <<store, links, ready, chan, answering, applying, hist, due>>
    BY <1>8 DEF MarkOutboxAttempt, Continue
  <2>2. T = U
    BY <1>0 DEF PreparedOnce
  <2>3. (\A v, w \in U : v = w) /\ \A v \in U : Active(pq)
    OBVIOUS
  <2> HIDE DEF T, U
  <2> QED
    BY <1>1, <1>2, <1>3, <2>1, <2>2, <2>3
<1> QED
  BY <1>4, <1>5, <1>6, <1>7, <1>8

(* Asking for history opens a transfer where nothing of one was left.      *)
LEMMA RequestStep ==
    ASSUME TypeOK, HistoryInv, NEW pq \in Pairs, NEW t \in tasks[pq], RequestHistory(pq, t)
    PROVE  HistoryInv'
<1> DEFINE known == Page(store[pq[1]] \cap Messages, 0) \cup Page(store[pq[1]] \cap Events, 0)
           m == Ask(FirstPage, known)
           rev == Rev(pq)
<1>1. /\ PreparedOnce(pq) /\ t.step = "flush" /\ rev \in Pairs /\ rev # pq /\ Rev(rev) = pq
      /\ tasks' = [tasks EXCEPT ![pq] = (@ \ {t}) \cup {}]
      /\ UNCHANGED <<store, links, ready, answering, applying>>
  BY PairType DEF RequestHistory, Continue, HistoryInv, Rev
<1>2. Idle(pq) /\ Active(pq) /\ tasks'[pq] = {}
  BY <1>1 DEF PreparedOnce, TypeOK
<1>3. \A c \in Pairs : c # pq => tasks'[c] = tasks[c]
  BY <1>1 DEF TypeOK
<1>4. \A c \in Pairs : Active(c)' = Active(c)
  BY <1>1 DEF Active
<1>5. /\ m \in Wire /\ m.type = "request" /\ m.req.id = 1 /\ m.req.known \subseteq store[pq[1]]
      /\ Agrees(m.req, FirstPage, store[pq[1]])
  <2>1. known \in SUBSET Items /\ FirstPage \in HistoryState /\ known \subseteq store[pq[1]]
    BY StoreType, FirstAskType DEF Page
  <2> HIDE DEF known
  <2>2. m \in Wire
    BY <2>1, AskType
  <2>3. /\ m.type = "request" /\ m.req.id = 1 /\ m.req.known = known
        /\ m.req.mBefore = FirstPage.mBefore /\ m.req.eBefore = FirstPage.eBefore
        /\ m.req.mDone = FirstPage.mDone /\ m.req.eDone = FirstPage.eDone
        /\ FirstPage.id = 1
    BY DEF Ask, FirstPage
  <2> HIDE DEF m
  <2> QED
    BY <2>1, <2>2, <2>3 DEF Agrees
<1> DEFINE Opens == /\ hist' = [hist EXCEPT ![pq] = FirstPage]
                    /\ chan' = [chan EXCEPT ![pq] = Append(@, m)]
                    /\ due' = [due EXCEPT ![pq] = store[pq[2]]]
<1>6. Opens \/ (hist' = hist /\ chan' = chan /\ due' = due)
  BY DEF RequestHistory
<1> HIDE DEF known, m, rev
<1>7. \A p : Got(p)' = Got(p)
  BY <1>1 DEF Got
<1>8. ASSUME NEW c \in Pairs, ~Opens \/ c # pq PROVE Steady(c)
  <2>1. hist'[c] = hist[c] /\ due'[c] = due[c] /\ answering' = answering /\ store' = store
    BY <1>1, <1>6, <1>8 DEF TypeOK
  <2>2. chan'[c] = chan[c] \/ c = pq
    BY <1>6 DEF TypeOK
  <2>3. chan'[Rev(c)] = chan[Rev(c)] \/ chan'[Rev(c)] = Append(chan[Rev(c)], m)
    BY <1>6, PairType DEF TypeOK
  <2>4. c = pq => chan'[c] = chan[c]
    BY <1>6, <1>8
  <2>5. AskFlow(chan[c], chan'[c]) /\ AnswerFlow(chan[Rev(c)], chan'[Rev(c)])
    BY <1>5, <2>2, <2>3, <2>4 DEF AskFlow, AnswerFlow
  <2> QED
    BY <1>7, <2>1, <2>5 DEF Steady
<1>9. ASSUME NEW c \in Pairs, c # pq PROVE PairInv(c)'
  <2>1. Settled(c) /\ PairInv(c)
    BY <1>1, <1>3, <1>4, <1>9 DEF Settled, HistoryInv, PairInv
  <2> QED
    BY <1>8, <1>9, <2>1, SteadyPair
<1>10. PreparedOnce(pq)'
  <2>1. CASE ~Opens
    <3>1. Idle(pq)'
      BY <1>2, <1>8, <2>1, SteadyIdle
    <3> QED
      BY <1>2, <3>1 DEF PreparedOnce
  <2>2. CASE Opens
    BY <1>2, <1>4 DEF PreparedOnce
  <2> QED
    BY <2>1, <2>2
<1>11. Transferred(pq)'
  <2>1. CASE ~Opens
    BY <1>8, <2>1, SteadyTransfer DEF HistoryInv
  <2>2. CASE Opens
    <3>1. /\ hist'[pq] = FirstPage /\ due'[pq] = store[pq[2]] /\ chan'[pq] = Append(chan[pq], m)
          /\ chan'[rev] = chan[rev] /\ answering'[rev] = {} /\ store' = store
          /\ Without(chan[pq], "request") /\ Without(chan[rev], "complete")
          /\ chan[pq] \in Seq(Wire)
      BY <1>1, <1>2, <1>6, <2>2 DEF Idle, TypeOK, rev
    <3>2. \A i : ~Seen(FirstPage, i)
      BY DEF Seen, Past, FirstPage
    <3>3. Asks(chan'[pq], answering'[rev], FirstPage, store[pq[1]])
      <4>1. ASSUME NEW k \in 1..Len(chan'[pq]), chan'[pq][k].type = "request"
            PROVE  chan'[pq][k] = m
        BY <1>5, <3>1, <4>1 DEF Without
      <4> QED
        BY <1>5, <3>1, <4>1 DEF Asks
    <3>4. \A D, H : Answers(chan'[rev], FirstPage, D, H)
      BY <3>1 DEF Answers, Without
    <3> QED
      BY <3>1, <3>2, <3>3, <3>4 DEF Transferred, rev
  <2> QED
    BY <2>1, <2>2
<1> QED
  BY <1>9, <1>10, <1>11 DEF HistoryInv, PairInv

(* A response answers the open page, as far as the channel takes it.       *)
LEMMA RespondStep ==
    ASSUME TypeOK, HistoryInv, NEW pq \in Pairs, NEW r \in answering[pq], Respond(pq, r)
    PROVE  HistoryInv'
<1> DEFINE rev == Rev(pq)
           S == store[pq[1]]
           h == hist[rev]
           M == PageOf(S \cap Messages, r.mDone, r.mBefore)
           E == PageOf(S \cap Events, r.eDone, r.eBefore)
           m == Final(r.id, M, E)
           A == M \ r.known
           B == E \ r.known
           w == Response(r.id, M, E, A, B)
           room == MaxBuffer - Len(chan[pq])
           n == IF Len(w) < room THEN Len(w) ELSE room
           u == SubSeq(w, 1, n)
<1>1. /\ chan' = [chan EXCEPT ![pq] = @ \o u]
      /\ answering' = [answering EXCEPT ![pq] = @ \ {r}]
      /\ UNCHANGED <<store, links, ready, tasks, applying, hist, due>>
  BY DEF Respond, Response, Final, PageOf
<1>2. /\ r \in Request /\ r.id \in Nat /\ chan[pq] \in Seq(Wire) /\ room \in Int
      /\ rev \in Pairs /\ rev # pq /\ Rev(rev) = pq /\ rev[2] = pq[1] /\ rev[1] = pq[2]
  <2>1. r \in Request /\ chan[pq] \in Seq(Wire) /\ MaxBuffer \in Nat
    BY ChatAssumption DEF TypeOK
  <2> QED
    BY <2>1, PairType DEF Request, Rev
<1>3. M \in SUBSET Items /\ E \in SUBSET Items /\ S \in SUBSET Items
  BY StoreType DEF PageOf
<1>4. m.id = r.id /\ m.type = "complete"
  BY DEF Final
<1> HIDE DEF M, E
<1>5. A \in SUBSET Items /\ B \in SUBSET Items
  BY <1>3
<1> HIDE DEF A, B
<1>6. /\ w \in Seq(Wire) /\ Len(w) \in Nat /\ Len(w) > 0 /\ w[Len(w)] = m
      /\ \A k \in 1..(Len(w) - 1) : w[k].type = "chunk"
      /\ \A i \in A \cup B : Brings(w, Len(w), r.id, i)
  <2>1. r.id \in Nat
    BY <1>2
  <2> DEFINE id == r.id
  <2>2. id \in Nat
    BY <2>1
  <2> HIDE DEF S, h, rev, m, w, id
  <2>3. LET v == Response(id, M, E, A, B) IN
           /\ v \in Seq(Wire) /\ Len(v) \in Nat /\ Len(v) > 0
           /\ v[Len(v)] = Final(id, M, E)
           /\ \A k \in 1..(Len(v) - 1) : v[k].type = "chunk"
           /\ \A i \in A \cup B : Brings(v, Len(v), id, i)
    BY <1>3, <1>5, <2>2, ResponseWires
  <2> QED
    BY <2>3 DEF w, m, id
<1> HIDE DEF w, m, room
<1>7. n \in Int /\ n <= Len(w) /\ u \in Seq(Wire)
  BY <1>2, <1>6
<1>8. Without(u, "request")
  <2>1. m.type = "complete"
    BY <1>4
  <2>2. \A k \in 1..Len(w) : w[k].type # "request"
    <3> SUFFICES ASSUME NEW k \in 1..Len(w) PROVE w[k].type # "request"
      OBVIOUS
    <3>1. k = Len(w) \/ k \in 1..(Len(w) - 1)
      BY <1>6
    <3> QED
      BY <1>6, <2>1, <3>1
  <2>3. \A k \in 1..Len(u) : k \in 1..Len(w) /\ u[k] = w[k]
    BY <1>6, <1>7
  <2> QED
    BY <2>2, <2>3 DEF Without
<1>9. ASSUME NEW c \in Pairs, c # rev PROVE PairInv(c)'
  <2>1. Rev(c) # pq
    BY <1>2, <1>9, PairType DEF Rev
  <2>2. /\ hist'[c] = hist[c] /\ due'[c] = due[c] /\ store' = store /\ Got(c[1])' = Got(c[1])
        /\ answering'[Rev(c)] = answering[Rev(c)] /\ chan'[Rev(c)] = chan[Rev(c)]
    BY <1>1, <2>1, PairType DEF TypeOK, Got
  <2>3. chan'[c] = chan[c] \/ chan'[c] = chan[c] \o u
    BY <1>1 DEF TypeOK
  <2>4. AskFlow(chan[c], chan'[c]) /\ AnswerFlow(chan[Rev(c)], chan'[Rev(c)])
    BY <1>7, <1>8, <2>2, <2>3 DEF AskFlow, AnswerFlow
  <2>5. Steady(c)
    BY <2>2, <2>4 DEF Steady
  <2>6. Settled(c) /\ PairInv(c)
    BY <1>1 DEF Settled, Active, HistoryInv, PairInv
  <2> QED
    BY <2>5, <2>6, SteadyPair
<1>10. PreparedOnce(rev)'
  <2>1. PreparedOnce(rev) /\ ~Idle(rev)
    BY <1>2 DEF HistoryInv, Idle
  <2> QED
    BY <1>1, <2>1 DEF PreparedOnce, Active
<1>11. ASSUME hist[rev] # NoRequest
       PROVE  Answers(chan[pq] \o u, h, due[rev], Got(rev[1]))
  <2>1. /\ due[rev] \subseteq S
        /\ \A i \in due[rev] : Seen(h, i) => i \in Got(rev[1])
        /\ Asks(chan[rev], answering[pq], h, store[rev[1]])
        /\ Answers(chan[pq], h, due[rev], Got(rev[1]))
    BY <1>2, <1>11 DEF HistoryInv, Transferred
  <2>2. Agrees(r, h, store[rev[1]]) /\ store[rev[1]] \subseteq Got(rev[1])
    BY <2>1 DEF Asks, Got
  <2>3. h \in HistoryState /\ r.id <= h.id
    BY <1>2, <1>11, <2>2 DEF TypeOK, Agrees
  <2>4. ASSUME r.id = h.id, NEW i \in due[rev], Ends(m, i)
        PROVE  i \in Got(rev[1]) \/ Brings(w, Len(w), r.id, i)
    <3> DEFINE G == Got(rev[1])
               D == due[rev]
               K == store[rev[1]]
    <3>1. /\ D \in SUBSET S /\ K \subseteq G /\ \A j \in D : Seen(h, j) => j \in G
          /\ Agrees(r, h, K)
      BY <2>1, <2>2
    <3>7. r.id = h.id /\ r \in Request /\ h \in HistoryState
      BY <1>2, <2>3, <2>4
    <3> HIDE DEF G, D, K
    <3>2. i \in D
      BY DEF D
    <3>4. /\ M = PageOf(S \cap Messages, r.mDone, r.mBefore)
          /\ E = PageOf(S \cap Events, r.eDone, r.eBefore)
      BY DEF M, E
    <3>5. S \in SUBSET Items
      BY <1>3
    <3> HIDE DEF S, h
    <3>6. LET N == PageOf(S \cap Messages, r.mDone, r.mBefore)
              F == PageOf(S \cap Events, r.eDone, r.eBefore)
          IN  \A j \in D : Ends(Final(r.id, N, F), j) =>
                 j \in G \/ j \in (N \ r.known) \cup (F \ r.known)
      <4> HIDE DEF m, rev, n, u
      <4> QED
        BY <3>1, <3>5, <3>7, ResponseCovers
    <3>3. i \in G \/ i \in (M \ r.known) \cup (E \ r.known)
      BY <2>4, <3>2, <3>4, <3>6 DEF m
    <3> QED
      BY <1>6, <3>3 DEF A, B, G
  <2> HIDE DEF h
  <2> QED
    BY <1>2, <1>4, <1>6, <1>7, <2>1, <2>3, <2>4, ResponseAnswers
<1>12. Transferred(rev)'
  <2> SUFFICES ASSUME hist[rev] # NoRequest PROVE Transferred(rev)'
    BY <1>1 DEF Transferred
  <2>1. /\ due[rev] \subseteq store[rev[2]]
        /\ \A i \in due[rev] : Seen(h, i) => i \in Got(rev[1])
        /\ Asks(chan[rev], answering[pq], h, store[rev[1]])
    BY <1>2 DEF HistoryInv, Transferred
  <2>2. /\ chan'[rev] = chan[rev] /\ chan'[pq] = chan[pq] \o u
        /\ answering'[pq] = answering[pq] \ {r}
        /\ hist' = hist /\ due' = due /\ store' = store /\ Got(rev[1])' = Got(rev[1])
    BY <1>1, <1>2 DEF TypeOK, Got
  <2>3. Asks(chan'[rev], answering'[pq], h, store[rev[1]])
    BY <2>1, <2>2 DEF Asks
  <2> HIDE DEF u
  <2> QED
    BY <1>2, <1>11, <2>1, <2>2, <2>3 DEF Transferred
<1> QED
  BY <1>9, <1>10, <1>12 DEF HistoryInv, PairInv

(* Taking the oldest message of a channel leaves every pair alone but the  *)
(* two that the channel belongs to.                                        *)
LEMMA PoppedOthers ==
    ASSUME TypeOK, HistoryInv, NEW pq \in Pairs, chan[pq] # <<>>, chan' = Popped(pq),
           UNCHANGED <<store, links, ready, tasks, hist, due>>,
           \A p \in Peers : \A i : i \in Got(p) => i \in Got(p)',
           \A c \in Pairs : c # pq => answering'[Rev(c)] \in SUBSET answering[Rev(c)],
           NEW c \in Pairs, c # pq, c # Rev(pq) \/ Head1(pq).type # "chunk"
    PROVE  PairInv(c)' /\ Steady(c)
<1>1. Rev(c) = pq => c = Rev(pq)
  BY PairType DEF Rev
<1>2. chan'[c] = chan[c] /\ (Rev(c) # pq => chan'[Rev(c)] = chan[Rev(c)])
  BY PoppedType, PairType
<1>3. Rev(c) = pq => chan'[Rev(c)] = Tail(chan[Rev(c)])
  BY PoppedType
<1>4. AskFlow(chan[c], chan'[c]) /\ AnswerFlow(chan[Rev(c)], chan'[Rev(c)])
  BY <1>1, <1>2, <1>3 DEF AskFlow, AnswerFlow, Head1
<1>5. Steady(c)
  BY <1>4, PairType DEF Steady
<1>6. Settled(c) /\ PairInv(c)
  BY DEF Settled, Active, HistoryInv, PairInv
<1> QED
  BY <1>5, <1>6, SteadyPair

(* A message that comes too early belongs to no transfer of its receiver.  *)
LEMMA TooEarlyStep ==
    ASSUME TypeOK, HistoryInv, NEW pq \in Pairs, ReceiveTooEarly(pq)
    PROVE  HistoryInv'
<1> DEFINE rev == Rev(pq)
<1>1. /\ chan[pq] # <<>> /\ ~Active(rev) /\ chan' = Popped(pq)
      /\ rev \in Pairs /\ rev # pq /\ Rev(rev) = pq
      /\ UNCHANGED <<store, links, ready, tasks, answering, applying, hist, due>>
  BY PairType DEF ReceiveTooEarly, Active, Rev
<1>2. \A p : Got(p)' = Got(p)
  BY <1>1 DEF Got
<1> HIDE DEF rev
<1>3. ASSUME NEW c \in Pairs, c # pq, c # rev PROVE PairInv(c)'
  BY <1>1, <1>2, <1>3, PoppedOthers DEF rev
<1>4. PairInv(pq)'
  <2>1. /\ chan'[pq] = Tail(chan[pq]) /\ chan'[rev] = chan[rev] /\ Rev(pq) = rev
    BY <1>1, PoppedType DEF rev
  <2>2. Steady(pq)
    BY <1>1, <1>2, <2>1 DEF Steady, AskFlow, AnswerFlow
  <2>3. Settled(pq) /\ PairInv(pq)
    BY <1>1 DEF Settled, Active, HistoryInv, PairInv
  <2> QED
    BY <2>2, <2>3, SteadyPair
<1>5. PairInv(rev)'
  <2>1. PreparedOnce(rev) /\ Idle(rev)
    BY <1>1 DEF HistoryInv, PreparedOnce
  <2>2. chan'[rev] = chan[rev] /\ chan'[pq] = Tail(chan[pq]) /\ chan[pq] \in Seq(Wire)
    BY <1>1, PoppedType DEF TypeOK
  <2>3. Without(chan'[pq], "complete")
    BY <1>1, <2>1, <2>2 DEF Idle, Without
  <2>4. Idle(rev)' /\ hist'[rev] = NoRequest
    BY <1>1, <2>1, <2>2, <2>3 DEF Idle
  <2>5. PreparedOnce(rev)'
    BY <1>1, <2>1, <2>4, SettledOnce DEF Settled, Active
  <2> QED
    BY <2>4, <2>5 DEF PairInv, Transferred
<1> QED
  BY <1>3, <1>4, <1>5 DEF HistoryInv, PairInv

(* A request moves from the channel to the work of its receiver.           *)
LEMMA ReceiveRequestStep ==
    ASSUME TypeOK, HistoryInv, NEW pq \in Pairs, ReceiveRequest(pq)
    PROVE  HistoryInv'
<1> DEFINE rev == Rev(pq)
           r == Head1(pq).req
<1>1. /\ chan[pq] # <<>> /\ Head1(pq).type = "request" /\ chan' = Popped(pq)
      /\ answering' = [answering EXCEPT ![rev] = @ \cup {r}]
      /\ rev \in Pairs /\ rev # pq /\ Rev(rev) = pq
      /\ UNCHANGED <<store, links, ready, tasks, applying, hist, due>>
  BY PairType DEF ReceiveRequest, Heard, Rev
<1>2. \A p : Got(p)' = Got(p)
  BY <1>1 DEF Got
<1>3. /\ chan'[pq] = Tail(chan[pq]) /\ chan'[rev] = chan[rev] /\ Rev(pq) = rev
      /\ answering'[rev] = answering[rev] \cup {r}
      /\ chan[pq] \in Seq(Wire) /\ 1 \in 1..Len(chan[pq]) /\ Head1(pq) = chan[pq][1]
  BY <1>1, PoppedType DEF Head1, TypeOK
<1> HIDE DEF rev, r
<1>4. ASSUME NEW c \in Pairs, c # pq PROVE PairInv(c)'
  <2>1. \A d \in Pairs : d # pq => answering'[Rev(d)] \in SUBSET answering[Rev(d)]
    <3> SUFFICES ASSUME NEW d \in Pairs, d # pq PROVE answering'[Rev(d)] \in SUBSET answering[Rev(d)]
      OBVIOUS
    <3>1. Rev(d) # rev /\ Rev(d) \in Pairs
      BY PairType DEF Rev, rev
    <3> QED
      BY <1>1, <3>1 DEF TypeOK
  <2> QED
    BY <1>1, <1>2, <1>4, <2>1, PoppedOthers
<1>5. PreparedOnce(pq)'
  <2>1. PreparedOnce(pq) /\ ~Idle(pq)
    BY <1>1, <1>3 DEF HistoryInv, Idle, Without
  <2> QED
    BY <1>1, <2>1 DEF PreparedOnce, Active
<1>6. Transferred(pq)'
  <2> SUFFICES ASSUME hist[pq] # NoRequest PROVE Transferred(pq)'
    BY <1>1 DEF Transferred
  <2>1. /\ due[pq] \subseteq store[pq[2]]
        /\ \A i \in due[pq] : Seen(hist[pq], i) => i \in Got(pq[1])
        /\ Asks(chan[pq], answering[rev], hist[pq], store[pq[1]])
        /\ Answers(chan[rev], hist[pq], due[pq], Got(pq[1]))
    BY <1>3 DEF HistoryInv, Transferred
  <2>2. AskFlow(chan[pq], chan'[pq])
    BY <1>1, <1>3 DEF AskFlow
  <2>3. Asks(chan'[pq], answering[rev], hist[pq], store[pq[1]])
    BY <1>3, <2>1, <2>2, AskFlowAsks
  <2>4. Agrees(r, hist[pq], store[pq[1]])
    BY <1>1, <1>3, <2>1 DEF Asks, r
  <2>5. Asks(chan'[pq], answering'[rev], hist[pq], store[pq[1]])
    BY <1>3, <2>3, <2>4 DEF Asks
  <2> QED
    BY <1>1, <1>2, <1>3, <2>1, <2>5 DEF Transferred
<1> QED
  BY <1>4, <1>5, <1>6 DEF HistoryInv, PairInv

(* The items of a chunk of the open page are got when it is taken.         *)
LEMMA AcceptChunkStep ==
    ASSUME TypeOK, HistoryInv, NEW pq \in Pairs, AcceptChunk(pq)
    PROVE  HistoryInv'
<1> DEFINE rev == Rev(pq)
           m == Head1(pq)
<1>1. /\ chan[pq] # <<>> /\ m.type = "chunk" /\ chan' = Popped(pq)
      /\ applying' = IF Current(pq, m.id)
                       THEN [applying EXCEPT ![pq[2]] = @ \cup ({m.items} \ {{}})]
                       ELSE applying
      /\ rev \in Pairs /\ rev # pq /\ Rev(rev) = pq /\ Rev(pq) = rev /\ rev[1] = pq[2]
      /\ pq[2] \in Peers
      /\ UNCHANGED <<store, links, ready, tasks, answering, hist, due>>
  BY PairType DEF AcceptChunk, Heard, Rev
<1>2. ASSUME NEW p \in Peers, NEW i, i \in Got(p) PROVE i \in Got(p)'
  <2>1. applying[p] \subseteq applying'[p] /\ store'[p] = store[p]
    BY <1>1 DEF TypeOK
  <2> QED
    BY <1>2, <2>1 DEF Got
<1>3. /\ chan'[pq] = Tail(chan[pq]) /\ chan'[rev] = chan[rev]
      /\ chan[pq] \in Seq(Wire) /\ m = Head(chan[pq])
  BY <1>1, PoppedType DEF Head1, TypeOK
<1>4. ASSUME hist[rev] # NoRequest, hist[rev].id = m.id, NEW i \in m.items
      PROVE  i \in Got(rev[1])'
  <2>1. m.items # {} /\ m.items \in {m.items} \ {{}}
    BY <1>4
  <2>2. m.items \in applying'[rev[1]]
    BY <1>1, <1>4, <2>1 DEF Current, TypeOK
  <2> QED
    BY <1>4, <2>2 DEF Got
<1> HIDE DEF rev, m
<1>5. ASSUME NEW c \in Pairs, c # pq, c # rev PROVE PairInv(c)'
  <2>1. \A p \in Peers : \A i : i \in Got(p) => i \in Got(p)'
    BY <1>2
  <2> QED
    BY <1>1, <1>5, <2>1, PoppedOthers
<1>6. PairInv(pq)'
  <2>1. AskFlow(chan[pq], chan'[pq]) /\ AnswerFlow(chan[rev], chan'[rev])
    BY <1>1, <1>3 DEF AskFlow, AnswerFlow
  <2>2. Steady(pq)
    BY <1>1, <1>2, <2>1, PairType DEF Steady
  <2>3. Settled(pq) /\ PairInv(pq)
    BY <1>1 DEF Settled, Active, HistoryInv, PairInv
  <2> QED
    BY <2>2, <2>3, SteadyPair
<1>7. PreparedOnce(rev)'
  <2>1. PreparedOnce(rev) /\ Settled(rev)
    BY <1>1 DEF HistoryInv, Settled, Active
  <2>2. Idle(rev) => Idle(rev)'
    BY <1>1, <1>3 DEF Idle, Without
  <2> QED
    BY <1>1, <2>1, <2>2, SettledOnce
<1>8. Transferred(rev)'
  <2> SUFFICES ASSUME hist[rev] # NoRequest PROVE Transferred(rev)'
    BY <1>1 DEF Transferred
  <2>1. /\ due[rev] \subseteq store[rev[2]]
        /\ \A i \in due[rev] : Seen(hist[rev], i) => i \in Got(rev[1])
        /\ Asks(chan[rev], answering[pq], hist[rev], store[rev[1]])
        /\ Answers(chan[pq], hist[rev], due[rev], Got(rev[1]))
    BY <1>1 DEF HistoryInv, Transferred
  <2> DEFINE G == Got(rev[1])
             K == Got(rev[1])'
  <2>2. G \subseteq K
    BY <1>1, <1>2
  <2>3. hist[rev].id = m.id => m.items \subseteq K
    BY <1>4
  <2>4. Answers(chan[pq], hist[rev], due[rev], G)
    BY <2>1
  <2> HIDE DEF G, K
  <2>5. Answers(chan'[pq], hist[rev], due[rev], K)
    BY <1>1, <1>3, <2>2, <2>3, <2>4, ChunkAnswers
  <2>6. \A i \in due[rev] : Seen(hist[rev], i) => i \in K
    BY <2>1, <2>2 DEF G
  <2> QED
    BY <1>1, <1>3, <2>1, <2>5, <2>6 DEF Transferred, K
<1> QED
  BY <1>5, <1>6, <1>7, <1>8 DEF HistoryInv, PairInv

(* When the open page completes, all that it and the pages before cover    *)
(* has been got.                                                           *)
LEMMA CompletedGot ==
    ASSUME TypeOK, NEW pq \in Pairs, Completes(pq), Transferred(Rev(pq)),
           Current(pq, Head1(pq).id), NEW i \in due[Rev(pq)],
           Seen(hist[Rev(pq)], i) \/ Ends(Head1(pq), i)
    PROVE  i \in Got(pq[2])
<1> DEFINE rev == Rev(pq)
           s == chan[pq]
<1>1. /\ rev \in Pairs /\ Rev(rev) = pq /\ rev[1] = pq[2]
      /\ s # <<>> /\ s \in Seq(Wire) /\ Head1(pq) = Head(s)
  BY PairType DEF Rev, Completes, Heard, Head1, TypeOK
<1>2. /\ \A j \in due[rev] : Seen(hist[rev], j) => j \in Got(rev[1])
      /\ Answers(s, hist[rev], due[rev], Got(rev[1]))
  BY <1>1 DEF Transferred, Current
<1>3. CASE Seen(hist[rev], i)
  BY <1>1, <1>2, <1>3
<1>4. CASE Ends(Head1(pq), i)
  <2>1. /\ 1 \in 1..Len(s) /\ s[1] = Head1(pq) /\ s[1].type = "complete"
        /\ s[1].id = hist[rev].id
    BY <1>1 DEF Completes, Current
  <2>2. i \in Got(rev[1]) \/ Brings(s, 1, hist[rev].id, i)
    BY <1>2, <1>4, <2>1 DEF Answers
  <2>3. ~Brings(s, 1, hist[rev].id, i)
    BY DEF Brings
  <2> QED
    BY <1>1, <2>2, <2>3
<1> QED
  BY <1>3, <1>4

(* The page after has passed what the pages before have and what this one  *)
(* covers.                                                                 *)
LEMMA SeenNext ==
    ASSUME NEW h, NEW m, NEW i, Seen(NextPage(h, m), i)
    PROVE  Seen(h, i) \/ Ends(m, i)
BY DEF Seen, Ends, Past, NextPage

(* A transfer that ends has covered everything.                            *)
LEMMA SeenAll ==
    ASSUME NEW h, NEW m, NextPage(h, m).mDone, NextPage(h, m).eDone, NEW i
    PROVE  Seen(h, i) \/ Ends(m, i)
BY DEF Seen, Ends, Past, NextPage

(* The end of a page opens the next one, or closes the transfer.           *)
LEMMA AcceptCompleteStep ==
    ASSUME TypeOK, HistoryInv, NEW pq \in Pairs, AcceptComplete(pq)
    PROVE  HistoryInv'
<1> DEFINE rev == Rev(pq)
           m == Head1(pq)
           next == NextPage(hist[rev], m)
           ask == Ask(next, {})
<1>1. /\ Completes(pq) /\ chan[pq] # <<>> /\ m.type = "complete"
      /\ rev \in Pairs /\ rev # pq /\ Rev(rev) = pq /\ Rev(pq) = rev /\ rev[1] = pq[2]
      /\ UNCHANGED <<store, links, ready, tasks, answering, applying>>
  BY PairType DEF AcceptComplete, Completes, Heard, Rev
<1>2. /\ chan[pq] \in Seq(Wire) /\ chan[rev] \in Seq(Wire) /\ m \in Wire /\ m = Head(chan[pq])
      /\ Popped(pq) \in [Pairs -> Seq(Wire)]
      /\ Popped(pq)[pq] = Tail(chan[pq]) /\ \A c \in Pairs : c # pq => Popped(pq)[c] = chan[c]
  BY <1>1, PoppedType DEF Head1, TypeOK
<1>3. \A p : Got(p)' = Got(p)
  BY <1>1 DEF Got
<1>4. PreparedOnce(rev) /\ ~Idle(rev) /\ Transferred(rev)
  <2>1. chan[pq][1].type = "complete" /\ 1 \in 1..Len(chan[pq])
    BY <1>1, <1>2
  <2> QED
    BY <1>1, <2>1 DEF HistoryInv, Idle, Without
<1>5. PreparedOnce(rev)'
  BY <1>1, <1>4 DEF PreparedOnce, Active
<1>6. ASSUME Outcome(pq) = "continued"
      PROVE  /\ hist[rev] \in HistoryState /\ next \in HistoryState /\ next.id = hist[rev].id + 1
             /\ ask \in Wire /\ ask.type = "request" /\ Current(pq, m.id)
             /\ hist' = [hist EXCEPT ![rev] = next] /\ due' = due
             /\ chan' = [Popped(pq) EXCEPT ![rev] = Append(@, ask)]
  <2>1. Current(pq, m.id) /\ hist[rev] \in HistoryState
    BY <1>1, <1>6 DEF Outcome, Current, TypeOK
  <2>2. next \in HistoryState /\ next.id = hist[rev].id + 1
    BY <1>1, <1>2, <2>1, NextPageType DEF NextPage
  <2>3. ask \in Wire /\ ask.type = "request"
    BY <2>2, AskType DEF Ask
  <2> QED
    BY <1>6, <2>1, <2>2, <2>3 DEF AcceptComplete
<1>7. ASSUME Outcome(pq) # "continued"
      PROVE  /\ chan' = Popped(pq) /\ \A c \in Pairs : c # rev => hist'[c] = hist[c] /\ due'[c] = due[c]
             /\ (hist'[rev] = hist[rev] /\ due'[rev] = due[rev]) \/ hist'[rev] = NoRequest
  <2>1. chan' = Popped(pq)
    BY <1>7 DEF AcceptComplete
  <2>2. CASE Outcome(pq) = "ignored"
    BY <2>1, <2>2 DEF AcceptComplete
  <2>3. CASE Outcome(pq) # "ignored"
    <3>1. hist' = [hist EXCEPT ![rev] = NoRequest] /\ due' \in {due, [due EXCEPT ![rev] = {}]}
      BY <1>7, <2>3 DEF AcceptComplete
    <3> QED
      BY <1>1, <2>1, <3>1 DEF TypeOK
  <2> QED
    BY <2>2, <2>3
<1> HIDE DEF rev, m, next, ask
<1>8. ASSUME NEW c \in Pairs, c # rev PROVE PairInv(c)'
  <2>1. hist'[c] = hist[c] /\ due'[c] = due[c]
    BY <1>6, <1>7, <1>8 DEF TypeOK
  <2>2. Rev(c) # pq
    BY <1>1, <1>8, PairType DEF Rev
  <2>3. AskFlow(chan[c], chan'[c])
    <3>1. chan'[c] = Popped(pq)[c]
      BY <1>2, <1>6, <1>7, <1>8
    <3> QED
      BY <1>1, <1>2, <3>1 DEF AskFlow
  <2>4. AnswerFlow(chan[Rev(c)], chan'[Rev(c)])
    <3>1. Rev(c) \in Pairs /\ Popped(pq)[Rev(c)] = chan[Rev(c)]
      BY <1>2, <2>2, PairType
    <3>2. \/ chan'[Rev(c)] = chan[Rev(c)]
          \/ ask \in Wire /\ ask.type = "request" /\ chan'[Rev(c)] = Append(chan[Rev(c)], ask)
      BY <1>2, <1>6, <1>7, <3>1
    <3> QED
      BY <3>2 DEF AnswerFlow
  <2>5. Steady(c)
    BY <1>1, <1>3, <2>1, <2>3, <2>4 DEF Steady
  <2>6. Settled(c) /\ PairInv(c)
    BY <1>1 DEF Settled, Active, HistoryInv, PairInv
  <2> QED
    BY <2>5, <2>6, SteadyPair
<1>9. CASE Outcome(pq) = "continued"
  <2>1. /\ hist'[rev] = next /\ due' = due /\ chan'[pq] = Tail(chan[pq])
        /\ chan'[rev] = Append(chan[rev], ask)
    BY <1>1, <1>2, <1>6, <1>9 DEF TypeOK
  <2>2. hist[rev] # NoRequest
    BY <1>6, <1>9, NoRequestAssumption
  <2>3. /\ due[rev] \subseteq store[rev[2]]
        /\ Asks(chan[rev], answering[pq], hist[rev], store[rev[1]])
        /\ Answers(chan[pq], hist[rev], due[rev], Got(rev[1]))
    BY <1>1, <1>4, <2>2 DEF Transferred
  <2>4. \A i \in due[rev] : Seen(next, i) => i \in Got(rev[1])
    <3> SUFFICES ASSUME NEW i \in due[rev], Seen(next, i) PROVE i \in Got(rev[1])
      OBVIOUS
    <3>1. Seen(hist[rev], i) \/ Ends(m, i)
      BY SeenNext DEF next
    <3> QED
      BY <1>1, <1>4, <1>6, <1>9, <3>1, CompletedGot DEF rev, m
  <2>5. Asks(chan'[rev], answering'[pq], next, store'[rev[1]])
    <3>1. answering[pq] \in SUBSET Request
      BY DEF TypeOK
    <3> DEFINE A == answering[pq]
               h == hist[rev]
               S == store[rev[1]]
               s == chan[rev]
    <3>2. /\ A \in SUBSET Request /\ h \in HistoryState /\ next \in HistoryState
          /\ next.id = h.id + 1 /\ s \in Seq(Wire) /\ Asks(s, A, h, S)
      BY <1>2, <1>6, <1>9, <2>3, <3>1
    <3> HIDE DEF A, h, S, s
    <3>3. Asks(Append(s, Ask(next, {})), A, next, S)
      BY <3>2, NextAsks
    <3> QED
      BY <1>1, <2>1, <3>3 DEF A, S, s, ask
  <2>6. Answers(chan'[pq], next, due[rev], Got(rev[1]))
    BY <1>1, <1>2, <1>6, <1>9, <2>1, <2>3, NextAnswers
  <2>7. Transferred(rev)'
    BY <1>1, <1>3, <2>1, <2>3, <2>4, <2>5, <2>6 DEF Transferred
  <2> QED
    BY <1>5, <1>8, <2>7 DEF HistoryInv, PairInv
<1>10. CASE Outcome(pq) # "continued"
  <2>1. CASE hist'[rev] = NoRequest
    BY <1>5, <1>8, <2>1 DEF HistoryInv, PairInv, Transferred
  <2>2. CASE hist'[rev] = hist[rev] /\ due'[rev] = due[rev]
    <3>1. AskFlow(chan[rev], chan'[rev]) /\ AnswerFlow(chan[pq], chan'[pq])
      BY <1>1, <1>2, <1>7, <1>10 DEF AskFlow, AnswerFlow
    <3>2. Steady(rev)
      BY <1>1, <1>3, <2>2, <3>1 DEF Steady
    <3>3. Transferred(rev)'
      BY <1>1, <1>4, <3>2, SteadyTransfer
    <3> QED
      BY <1>5, <1>8, <3>3 DEF HistoryInv, PairInv
  <2> QED
    BY <1>7, <1>10, <2>1, <2>2
<1> QED
  BY <1>9, <1>10

(* Closing forgets the transfers of the channels that close, and no other. *)
LEMMA CloseStep ==
    ASSUME TypeOK, HistoryInv, NEW S, Close(S), store' = store,
           \A c \in Pairs : c \in S <=> Rev(c) \in S,
           \A c \in S : \A t \in tasks'[c] : t \in tasks[c] /\ t.step = "mark",
           \A c \in Pairs \ S : tasks'[c] = tasks[c],
           \A c \in Pairs \ S : applying'[c[1]] = applying[c[1]]
    PROVE  HistoryInv'
<1>1. ASSUME NEW c \in Pairs, c \in S PROVE PairInv(c)'
  <2>1. /\ hist'[c] = NoRequest /\ answering'[Rev(c)] = {} /\ chan'[c] = <<>> /\ chan'[Rev(c)] = <<>>
        /\ c \notin links'
    BY <1>1, PairType DEF Close
  <2>2. Idle(c)'
    BY <2>1 DEF Idle, Without
  <2>3. PreparedOnce(c)
    BY DEF HistoryInv
  <2> QED
    BY <1>1, <2>1, <2>2, <2>3 DEF PairInv, PreparedOnce, Transferred
<1>2. ASSUME NEW c \in Pairs, c \notin S PROVE PairInv(c)'
  <2>1. /\ hist'[c] = hist[c] /\ due'[c] = due[c] /\ chan'[c] = chan[c]
        /\ answering'[Rev(c)] = answering[Rev(c)] /\ chan'[Rev(c)] = chan[Rev(c)]
        /\ tasks'[c] = tasks[c] /\ (c \in links' <=> c \in links) /\ Got(c[1])' = Got(c[1])
    BY <1>2, PairType DEF Close, Got
  <2>2. Active(c)' <=> Active(c)
    BY <1>2, PairType DEF Close, Active
  <2>3. Steady(c) /\ Settled(c) /\ PairInv(c)
    BY <2>1, <2>2 DEF Steady, Settled, AskFlow, AnswerFlow, HistoryInv, PairInv
  <2> QED
    BY <2>3, SteadyPair
<1> QED
  BY <1>1, <1>2 DEF HistoryInv, PairInv

(* Every step keeps it.                                                    *)
LEMMA HistoryStep ==
    ASSUME TypeOK, HistoryInv, [Next]_vars
    PROVE  HistoryInv'
<1>1. ASSUME NEW pq \in Pairs, LoseChannel(pq) \/ Renew(pq) PROVE HistoryInv'
  <2> DEFINE S == {pq, Rev(pq)}
  <2>1. /\ Close(S) /\ UNCHANGED <<store, applying>>
        /\ tasks' = [c \in Pairs |-> IF c \in S THEN {t \in tasks[c] : t.step = "mark"}
                                     ELSE tasks[c]]
    BY <1>1 DEF LoseChannel, Renew, Disconnect
  <2>2. \A c \in Pairs : c \in S <=> Rev(c) \in S
    <3>1. \A c \in Pairs : Rev(Rev(c)) = c
      BY PairType DEF Rev
    <3> QED
      BY <3>1
  <2>3. S \subseteq Pairs
    BY PairType
  <2> HIDE DEF S
  <2> QED
    BY <2>1, <2>2, <2>3, CloseStep
<1>2. ASSUME NEW p \in Peers, Restart(p) PROVE HistoryInv'
  <2> DEFINE S == Touching(p)
  <2>1. /\ Close(S) /\ store' = store
        /\ tasks' = [c \in Pairs |-> IF c[1] = p THEN {}
                                     ELSE IF c[2] = p THEN {t \in tasks[c] : t.step = "mark"}
                                     ELSE tasks[c]]
        /\ applying' = [applying EXCEPT ![p] = {}]
    BY <1>2 DEF Restart
  <2>2. \A c \in Pairs : (c \in S <=> Rev(c) \in S) /\ (c \in S <=> p = c[1] \/ p = c[2])
    BY PairType DEF Touching
  <2>3. S \subseteq Pairs
    BY DEF Touching
  <2> HIDE DEF S
  <2>4. /\ \A c \in S : \A t \in tasks'[c] : t \in tasks[c] /\ t.step = "mark"
        /\ \A c \in Pairs \ S : tasks'[c] = tasks[c]
        /\ \A c \in Pairs \ S : applying'[c[1]] = applying[c[1]]
    BY <2>1, <2>2, <2>3, PairType DEF TypeOK
  <2> QED
    BY <2>1, <2>2, <2>4, CloseStep
<1>3. CASE UNCHANGED vars
  BY <1>3, LiveSteps
<1>4. ASSUME NEW i \in Items, Enqueue(i) \/ Compose(i) \/ Expire(i) PROVE HistoryInv'
  BY <1>4, LiveSteps
<1>5. ASSUME NEW p \in Peers,
             \/ Persist(p)
             \/ \E qi \in storing[p] : PersistItemFails(p, qi[1], qi[2])
             \/ \E c \in applying[p] : PersistFromHistoryFails(p, c)
      PROVE  HistoryInv'
  BY <1>5, LiveSteps
<1>6. ASSUME NEW pq \in Pairs, Connect(pq) \/ MarkPeerReady(pq) PROVE HistoryInv'
  BY <1>6, PrepareSteps
<1>7. ASSUME NEW pq \in Pairs, Prepare(pq) PROVE HistoryInv'
  BY <1>7, PrepareSteps, RequestStep DEF Prepare
<1>8. ASSUME NEW pq \in Pairs, Receive(pq) PROVE HistoryInv'
  BY <1>8, LiveSteps, TooEarlyStep, ReceiveRequestStep, AcceptChunkStep, AcceptCompleteStep
     DEF Receive
<1>9. ASSUME NEW pq \in Pairs, Answer(pq) PROVE HistoryInv'
  BY <1>9, RespondStep DEF Answer
<1> QED
  BY <1>1, <1>2, <1>3, <1>4, <1>5, <1>6, <1>7, <1>8, <1>9 DEF Next, Fault

(* A history transfer that runs to its end leaves no gap, over any number  *)
(* of pages of messages and events, whatever the peers store meanwhile and *)
(* however often channels are lost and peers restart: the requests and     *)
(* answers of a connection belong to one transfer, each page is answered   *)
(* in full or not completed, and its cursors skip nothing.                 *)
THEOREM HistoryHasNoGaps == Spec => []HistoryComplete
<1> DEFINE IInv == TypeOK /\ HistoryInv
<1>1. Init => IInv
  <2> SUFFICES ASSUME Init PROVE HistoryInv
    BY TypeInit
  <2>1. ASSUME NEW c \in Pairs PROVE PreparedOnce(c) /\ Transferred(c)
    BY PairType DEF Init, PreparedOnce, Idle, Without, Transferred
  <2> QED
    BY <2>1 DEF HistoryInv
<1>2. IInv /\ [Next]_vars => IInv'
  BY TypeStep, HistoryStep
<1>3. IInv => HistoryComplete
  <2> SUFFICES ASSUME TypeOK, HistoryInv, NEW pq \in Pairs, Completes(pq),
                      Outcome(pq) = "finished", NEW i \in due[Rev(pq)]
               PROVE  i \in store[pq[2]] \cup UNION applying[pq[2]]
    BY DEF HistoryComplete
  <2>1. /\ Current(pq, Head1(pq).id)
        /\ NextPage(hist[Rev(pq)], Head1(pq)).mDone /\ NextPage(hist[Rev(pq)], Head1(pq)).eDone
    BY DEF Outcome
  <2>2. Transferred(Rev(pq))
    BY PairType DEF HistoryInv
  <2>3. i \in Got(pq[2])
    BY <2>1, <2>2, SeenAll, CompletedGot
  <2> QED
    BY <2>3 DEF Got
<1> QED
  BY <1>1, <1>2, <1>3, PTL DEF Spec
=============================================================================
