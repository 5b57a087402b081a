-------------------------- MODULE SignalingProofs --------------------------
(***************************************************************************)
(* What holds of Signaling for any channels, broadcasts, backoff and       *)
(* budgets: a provider that says it reconnects, and a broadcast that waits *)
(* for a connection, are pursued; and the mesh hears no signal of a        *)
(* session that a newer one has replaced.  And of Call, which joins the    *)
(* rooms Signaling connects, for any peers: a call that has ended keeps    *)
(* no connection.                                                          *)
(***************************************************************************)
EXTENDS Signaling, CallState, FiniteSetTheorems, WellFoundedInduction, TLAPS

USE DEF None, Rooms, Reopeners, Time, Status

(* k differs from l at most in status, timer and attempts.                  *)
Kept(l, k) ==
    /\ k.channel = l.channel /\ k.room = l.room /\ k.disconnecting = l.disconnecting
    /\ k.user = l.user /\ k.connect = l.connect /\ k.next = l.next
    /\ k.pending = l.pending /\ k.closing = l.closing /\ k.reopening = l.reopening

(* The helpers that schedule keep the types, and a timer that runs.         *)
LEMMA ScheduledFields ==
    ASSUME NEW l \in Link
    PROVE  /\ Scheduled(l) \in Link /\ Kept(l, Scheduled(l))
           /\ Scheduled(l).status = l.status
           /\ l.timer => Scheduled(l).timer
           /\ Named(l) /\ ~l.disconnecting => Scheduled(l).timer
<1>1. l.attempts \in 0..MaxBackoff /\ MaxBackoff \in Nat
  BY SignalingAssumption DEF Link
<1> DEFINE a == IF l.attempts < MaxBackoff THEN l.attempts + 1 ELSE l.attempts
           k == [l EXCEPT !.timer = TRUE, !.attempts = a]
<1>2. a \in 0..MaxBackoff
  BY <1>1
<1>3. k \in Link /\ Kept(l, k) /\ k.status = l.status /\ k.timer = TRUE
  BY <1>2 DEF Link, Kept
<1>4. Scheduled(l) = IF l.disconnecting \/ l.timer \/ ~Named(l) THEN l ELSE k
  BY DEF Scheduled
<1> HIDE DEF k
<1>5. QED
  BY <1>3, <1>4 DEF Kept

LEMMA ReconnectingFields ==
    ASSUME NEW l \in Link
    PROVE  /\ Reconnecting(l) \in Link /\ Kept(l, Reconnecting(l))
           /\ Reconnecting(l).status = "reconnecting"
           /\ l.timer => Reconnecting(l).timer
           /\ Named(l) /\ ~l.disconnecting => Reconnecting(l).timer
<1> DEFINE k == [l EXCEPT !.status = "reconnecting"]
<1>1. k \in Link /\ Kept(l, k) /\ k.status = "reconnecting" /\ k.timer = l.timer
  BY DEF Link, Kept
<1>2. Reconnecting(l) = Scheduled(k)
  BY DEF Reconnecting
<1> HIDE DEF k
<1>3. QED
  BY <1>1, <1>2, ScheduledFields DEF Kept, Named

LEMMA ToldClosedFields ==
    ASSUME NEW l \in Link, NEW c \in Channels
    PROVE  /\ ToldClosed(l, c) \in Link /\ Kept(l, ToldClosed(l, c))
           /\ ToldClosed(l, c).status = IF l.pending = c THEN "disconnected" ELSE "reconnecting"
           /\ l.timer => ToldClosed(l, c).timer
           /\ Named(l) /\ ~l.disconnecting /\ l.pending # c => ToldClosed(l, c).timer
<1>1. CASE l.pending = c
  BY <1>1 DEF ToldClosed, Link, Kept
<1>2. CASE l.pending # c
  BY <1>2, ReconnectingFields DEF ToldClosed
<1>3. QED
  BY <1>1, <1>2

(* A new channel is one that nothing refers to.                             *)
LEMMA FreeChannel ==
    ASSUME NEW c \in NextFree
    PROVE  /\ c \in Channels /\ c # link.channel /\ c # link.pending /\ ~ch[c].track
           /\ c \notin link.closing /\ \A r \in link.reopening : r[1] # c
           /\ \A w \in remote.wire : w.c # c
BY DEF NextFree, Gone, Free

(* The states of a channel that was given up, and of a new one.             *)
LEMMA ChannelTypes ==
    ASSUME TypeOK, NEW c \in Channels
    PROVE  /\ c # None /\ NoChannel \in Channel /\ Removed(c) \in Channel
           /\ Orphans(c) \subseteq Channel /\ Answered(c) \in Channel
           /\ \A room \in Rooms, by \in {"connect", "reopen"} : Opened(by, room) \in Channel
<1>1. c # None /\ NoChannel \in Channel /\ ch[c] \in Channel
  BY SignalingAssumption DEF TypeOK, Channel, NoChannel
<1>2. Removed(c) \in Channel /\ Answered(c) \in Channel
  BY <1>1 DEF Removed, Answered, Channel, NoChannel
<1>3. [ch[c] EXCEPT !.state = "joined", !.peer = None] \in Channel
  BY <1>1 DEF Channel
<1>4. \A room \in Rooms, by \in {"connect", "reopen"} : Opened(by, room) \in Channel
  BY DEF Opened, NoChannel, Channel
<1>5. QED
  BY <1>1, <1>2, <1>3, <1>4 DEF Orphans

(* What waitForConnected() does to the fields.                              *)
LEMMA WaitFields ==
    ASSUME TypeOK, NEW s \in Senders, NEW k \in 0..2, NEW l \in Link,
           WaitForConnected(s, k, l)
    PROVE  /\ link' \in Link /\ Kept(l, link') /\ snd' \in [Senders -> Send]
           /\ link'.status = l.status
           /\ l.timer => link'.timer
           /\ snd'[s].at = "wait" => /\ ~Connected(l) /\ Named(l) /\ ~l.disconnecting
                                     /\ link'.timer
           /\ snd'[s].at # "send"
           /\ \A t \in Senders : t # s => snd'[t] = snd[t]
<1>1. snd \in [Senders -> Send]
  BY DEF TypeOK
<1> DEFINE go == [Idle EXCEPT !.at = "go", !.k = k]
           wait == [Idle EXCEPT !.at = "wait", !.k = k]
<1>2. go \in Send /\ go.at = "go" /\ wait \in Send /\ wait.at = "wait"
  BY DEF Idle, Send
<1>3. Idle \in Send /\ Idle.at = "idle"
  BY DEF Idle, Send
<1>4. WaitForConnected(s, k, l) <=>
        IF Connected(l) THEN link' = l /\ snd' = [snd EXCEPT ![s] = go]
        ELSE IF l.disconnecting \/ ~Named(l) THEN link' = l /\ snd' = [snd EXCEPT ![s] = Idle]
        ELSE link' = Scheduled(l) /\ snd' = [snd EXCEPT ![s] = wait]
  BY DEF WaitForConnected
<1> HIDE DEF go, wait
<1>5. CASE Connected(l)
  BY <1>1, <1>2, <1>4, <1>5 DEF Kept
<1>6. CASE ~Connected(l) /\ (l.disconnecting \/ ~Named(l))
  BY <1>1, <1>3, <1>4, <1>6 DEF Kept
<1>7. CASE ~Connected(l) /\ ~(l.disconnecting \/ ~Named(l))
  BY <1>1, <1>2, <1>4, <1>7, ScheduledFields
<1>8. QED
  BY <1>5, <1>6, <1>7

(* An event takes from the budget.                                          *)
LEMMA BudgetType ==
    ASSUME TypeOK, Event \/ Move
    PROVE  budget' \in Nat \X Nat
<1>1. budget \in Nat \X Nat /\ budget[1] \in Nat /\ budget[2] \in Nat
  BY DEF TypeOK
<1>2. CASE Event
  <2>1. budget' = <<budget[1] - 1, budget[2]>> /\ budget[1] - 1 \in Nat
    BY <1>1, <1>2 DEF Event
  <2>2. QED
    BY <1>1, <2>1
<1>3. CASE Move
  <2>1. budget' = <<budget[1], budget[2] - 1>> /\ budget[2] - 1 \in Nat
    BY <1>1, <1>3 DEF Move
  <2>2. QED
    BY <1>1, <2>1
<1>4. QED
  BY <1>2, <1>3

(* The fields after the first half of disconnect(), its second half and the *)
(* start of connect().                                                      *)
LEMMA ClosingFields ==
    ASSUME NEW l \in Link, l.channel # None, NEW then \in {"no", "disconnect", "digest"}
    PROVE  /\ Closing(l, then) \in Link
           /\ Closing(l, then).channel = None /\ Closing(l, then).room = l.room
           /\ Closing(l, then).disconnecting = TRUE /\ Closing(l, then).status = l.status
           /\ Closing(l, then).connect = then /\ Closing(l, then).user = l.user
           /\ Closing(l, then).next = l.next /\ Closing(l, then).pending = l.pending
           /\ Closing(l, then).closing = l.closing \cup {l.channel}
           /\ Closing(l, then).reopening = l.reopening
<1> DEFINE left == l.closing \cup {l.channel}
<1>1. left \in SUBSET Channels
  BY DEF Link
<1>2. 0 \in 0..MaxBackoff
  BY SignalingAssumption
<1>3. Closing(l, then) = [l EXCEPT !.disconnecting = TRUE, !.timer = FALSE, !.attempts = 0,
                                   !.channel = None, !.connect = then, !.closing = left]
  BY DEF Closing
<1> HIDE DEF left
<1>4. QED
  <2>1. Closing(l, then) \in Link
    BY <1>1, <1>2, <1>3 DEF Link
  <2>2. QED
    BY <1>3, <2>1 DEF Link, left

LEMMA ClosedFields ==
    ASSUME NEW l \in Link
    PROVE  /\ Closed(l) \in Link
           /\ Closed(l).channel = l.channel /\ Closed(l).room = None
           /\ Closed(l).disconnecting = FALSE /\ Closed(l).status = "disconnected"
           /\ Closed(l).connect = l.connect /\ Closed(l).user = l.user
           /\ Closed(l).next = l.next /\ Closed(l).pending = l.pending
           /\ Closed(l).closing = l.closing /\ Closed(l).reopening = l.reopening
BY DEF Closed, Link

LEMMA RejectingFields ==
    ASSUME NEW l \in Link
    PROVE  /\ Rejecting(l) \in Link
           /\ Rejecting(l).channel = l.channel /\ Rejecting(l).room = l.room
           /\ Rejecting(l).disconnecting = l.disconnecting /\ Rejecting(l).status = l.status
           /\ Rejecting(l).connect = l.connect /\ Rejecting(l).next = l.next
           /\ Rejecting(l).user = IF l.user = "joining" THEN "failed" ELSE l.user
           /\ Rejecting(l).pending = None /\ Rejecting(l).closing = l.closing
           /\ Rejecting(l).timer = l.timer /\ Rejecting(l).reopening = l.reopening
<1> DEFINE u == IF l.user = "joining" THEN "failed" ELSE l.user
<1>1. u \in {"new", "joining", "in", "failed", "left"}
  BY DEF Link
<1>2. Rejecting(l) = [l EXCEPT !.pending = None, !.user = u]
  BY DEF Rejecting
<1> HIDE DEF u
<1>3. Rejecting(l) \in Link
  BY <1>1, <1>2 DEF Link
<1>4. QED
  BY <1>2, <1>3 DEF Link, u

LEMMA DigestingFields ==
    ASSUME NEW l \in Link
    PROVE  /\ Digesting(l) \in Link
           /\ Digesting(l).channel = l.channel /\ Digesting(l).room = l.room
           /\ Digesting(l).disconnecting = FALSE /\ Digesting(l).status = "connecting"
           /\ Digesting(l).connect = "digest" /\ Digesting(l).user = l.user
           /\ Digesting(l).next = l.next /\ Digesting(l).pending = l.pending
           /\ Digesting(l).closing = l.closing /\ Digesting(l).reopening = l.reopening
BY DEF Digesting, Link

(* Whoever waited no longer does.                                           *)
LEMMA WaitersGone ==
    ASSUME TypeOK
    PROVE  /\ Rejected \in [Senders -> Send] /\ Woken \in [Senders -> Send]
           /\ \A s \in Senders : /\ Rejected[s].at # "wait" /\ Woken[s].at # "wait"
                                 /\ Rejected[s].at = "send" => Rejected[s] = snd[s]
                                 /\ Woken[s].at = "send" => Woken[s] = snd[s]
<1>1. snd \in [Senders -> Send]
  BY DEF TypeOK
<1>2. Idle \in Send /\ Idle.at = "idle"
  BY DEF Idle, Send
<1>3. \A s \in Senders : /\ [snd[s] EXCEPT !.at = "go"] \in Send
                         /\ [snd[s] EXCEPT !.at = "go"].at = "go"
  BY <1>1 DEF Send
<1>4. QED
  BY <1>1, <1>2, <1>3 DEF Rejected, Woken, Waiting

(* What presence changes of the view keeps its type.                        *)
LEMMA ViewTypes ==
    ASSUME NEW v \in View, TypeOK
    PROVE  /\ ViewOfConnect(v) \in View /\ ViewOfClosed(v) \in View
           /\ \A p \in Time : Reconciled(v, p) \in View
           /\ ChannelInv => Reconcile(v, link) \in View
<1>1. ViewOfConnect(v) \in View /\ ViewOfClosed(v) \in View
  BY DEF ViewOfConnect, ViewOfClosed, View
<1>2. remote.clock \in Nat
  BY DEF TypeOK, Remotes
<1>3. ASSUME NEW p \in Time PROVE Reconciled(v, p) \in View
  <2>1. CASE p = None
    BY <2>1 DEF Reconciled, View
  <2>2. CASE p # None
    <3> DEFINE d == IF v.seen \in {None, p} THEN v.departed
                    ELSE IF p > remote.clock THEN p ELSE remote.clock
               n == IF p > v.newest THEN p ELSE v.newest
    <3>1. d \in Nat /\ n \in Nat
      BY <1>2 DEF View
    <3>2. Reconciled(v, p) = [v EXCEPT !.leaving = FALSE, !.seen = p, !.departed = d, !.newest = n]
      BY <2>2 DEF Reconciled
    <3> HIDE DEF d, n
    <3>3. QED
      BY <3>1, <3>2 DEF View
  <2>3. QED
    BY <2>1, <2>2
<1>4. ASSUME link.channel # None PROVE ch[link.channel].peer \in Time
  BY <1>4 DEF TypeOK, Link, Channel
<1>5. QED
  BY <1>1, <1>3, <1>4 DEF Reconcile

-----------------------------------------------------------------------------
(* The invariant behind NobodyWaitsInVain is kept by every action.          *)
PInv == TypeOK /\ ChannelInv /\ SessionInv /\ PursuitInv

(* connect() of the call that joins.                                        *)
LEMMA ConnectStep ==
    ASSUME PInv, Connect
    PROVE  PInv'
<1>1. link \in Link
  BY DEF PInv, TypeOK
<1>2. Digesting(link) \in Link /\ link' = [Digesting(link) EXCEPT !.user = "joining"]
  BY <1>1, DigestingFields DEF Connect
<1>3. /\ link' \in Link /\ link'.channel = link.channel /\ link'.room = link.room
      /\ link'.disconnecting = FALSE /\ link'.status = "connecting" /\ link'.connect = "digest"
      /\ link'.user = "joining" /\ link'.next = link.next /\ link'.pending = link.pending
      /\ link'.closing = link.closing
  BY <1>1, <1>2, DigestingFields DEF Link
<1>4. /\ link.user = "new" /\ link.channel = None /\ link.closing = {} /\ link.pending = None
      /\ ~Named(link)
  BY DEF Connect, PInv, ChannelInv, SessionInv
<1>5. TypeOK'
  BY <1>3, ViewTypes DEF Connect, PInv, TypeOK
<1>6. ChannelInv'
  BY <1>3, <1>4 DEF Connect, PInv, ChannelInv, Named
<1>7. SessionInv'
  BY <1>3, <1>4 DEF Connect, PInv, SessionInv
<1>8. PursuitInv'
  BY <1>3, <1>4 DEF Connect, PInv, PursuitInv, Waiting
<1>9. QED
  BY <1>5, <1>6, <1>7, <1>8 DEF PInv

(* connect() of the call that moves, which disconnects first.               *)
LEMMA RotateStep ==
    ASSUME PInv, Rotate
    PROVE  PInv'
<1>1. link \in Link /\ link.channel # None /\ link.user = "in" /\ link.closing = {}
  BY DEF Rotate, PInv, TypeOK, ChannelInv, SessionInv
<1>2. link' = [Closing(link, "disconnect") EXCEPT !.next = 2]
  BY DEF Rotate
<1> DEFINE l == Closing(link, "disconnect")
<1>3. /\ l \in Link /\ l.channel = None /\ l.room = link.room /\ l.disconnecting = TRUE
      /\ l.connect = "disconnect" /\ l.user = "in" /\ l.pending = link.pending
      /\ l.closing = {link.channel} /\ link' = [l EXCEPT !.next = 2]
  BY <1>1, <1>2, ClosingFields
<1> HIDE DEF l
<1>4. /\ link' \in Link /\ link'.channel = None /\ link'.room = link.room
      /\ link'.disconnecting = TRUE /\ link'.connect = "disconnect" /\ link'.user = "in"
      /\ link'.next = 2 /\ link'.pending = link.pending /\ link'.closing = {link.channel}
  BY <1>3 DEF Link
<1>5. TypeOK'
  BY <1>4, BudgetType, WaitersGone, ViewTypes DEF Rotate, PInv, TypeOK
<1>6. ChannelInv'
  BY <1>4 DEF Rotate, PInv, ChannelInv, Named
<1>7. SessionInv'
  BY <1>4, WaitersGone DEF Rotate, PInv, SessionInv
<1>8. PursuitInv'
  BY <1>4, WaitersGone DEF Rotate, PInv, PursuitInv, Waiting
<1>9. QED
  BY <1>5, <1>6, <1>7, <1>8 DEF PInv

(* The channel that connect() opens.                                        *)
LEMMA SubscribeStep ==
    ASSUME PInv, Subscribe
    PROVE  PInv'
<1>1. link \in Link /\ ch \in [Channels -> Channel] /\ link.connect = "digest" /\ link.channel = None
  BY DEF Subscribe, PInv, TypeOK, ChannelInv
<1>2. PICK c \in NextFree :
        /\ ch' = [ch EXCEPT ![c] = Opened("connect", link.next)]
        /\ link' = [link EXCEPT !.connect = "no", !.room = link.next, !.channel = c, !.pending = c]
  BY DEF Subscribe
<1>3. /\ c \in Channels /\ c # None /\ ~link.disconnecting /\ link.closing = {}
      /\ link.next \in Rooms /\ link.next # None
  BY <1>1, FreeChannel, SignalingAssumption DEF PInv, ChannelInv, Link
<1>4. /\ link' \in Link /\ link'.channel = c /\ link'.room = link.next
      /\ link'.disconnecting = FALSE /\ link'.connect = "no" /\ link'.user = link.user
      /\ link'.status = link.status /\ link'.next = link.next /\ link'.pending = c
      /\ link'.closing = {} /\ link'.timer = link.timer /\ link'.reopening = link.reopening
  BY <1>1, <1>2, <1>3 DEF Link
<1>5. /\ Opened("connect", link.next) \in Channel /\ ch' \in [Channels -> Channel]
      /\ ch'[c].state = "joining" /\ ch'[c].by = "connect" /\ ~ch'[c].track
      /\ \A d \in Channels : d # c => ch'[d] = ch[d]
  BY <1>1, <1>2, <1>3 DEF Opened, NoChannel, Channel
<1>6. TypeOK'
  BY <1>4, <1>5 DEF Subscribe, PInv, TypeOK
<1>7. ChannelInv'
  BY <1>1, <1>3, <1>4, <1>5 DEF PInv, ChannelInv, Named
<1>8. SessionInv'
  BY <1>1, <1>3, <1>4 DEF Subscribe, PInv, SessionInv
<1>9. PursuitInv'
  BY <1>1, <1>3, <1>4, <1>5 DEF Subscribe, PInv, PursuitInv, Waiting
<1>10. QED
  BY <1>6, <1>7, <1>8, <1>9 DEF PInv

(* connect() gives up.                                                      *)
LEMMA ConnectTimeoutStep ==
    ASSUME PInv, ConnectTimeout
    PROVE  PInv'
<1>1. link \in Link /\ Rejecting(link) \in Link
  BY RejectingFields DEF PInv, TypeOK
<1>2. link.pending # None /\ link' = [Rejecting(link) EXCEPT !.status = "error"]
  BY DEF ConnectTimeout
<1>3. /\ link' \in Link /\ link'.channel = link.channel /\ link'.room = link.room
      /\ link'.disconnecting = link.disconnecting /\ link'.connect = link.connect
      /\ link'.user = (IF link.user = "joining" THEN "failed" ELSE link.user)
      /\ link'.status = "error" /\ link'.next = link.next /\ link'.pending = None
      /\ link'.closing = link.closing /\ link'.timer = link.timer
      /\ link'.reopening = link.reopening
  BY <1>1, <1>2, RejectingFields DEF Link
<1>4. TypeOK'
  BY <1>3 DEF ConnectTimeout, PInv, TypeOK
<1>5. ChannelInv'
  BY <1>3 DEF ConnectTimeout, PInv, ChannelInv, Named
<1>6. SessionInv'
  BY <1>3 DEF ConnectTimeout, PInv, SessionInv, Named
<1>7. PursuitInv'
  BY <1>3 DEF ConnectTimeout, PInv, PursuitInv, Waiting, Pursued
<1>8. QED
  BY <1>4, <1>5, <1>6, <1>7 DEF PInv

(* The call leaves.                                                         *)
LEMMA LeaveStep ==
    ASSUME PInv, Leave
    PROVE  PInv'
<1>1. link \in Link /\ view \in View
  BY DEF PInv, TypeOK
<1>2. view' \in View
  <2>1. ViewOfConnect(view) \in View
    BY <1>1, ViewTypes DEF PInv
  <2> DEFINE w == ViewOfConnect(view)
             a == IF link.channel = None THEN None ELSE w.seen
             b == IF link.channel = None THEN {} ELSE w.processed
  <2>2. a \in Nat /\ b \in SUBSET Nat
    BY <2>1 DEF View
  <2>3. view' = [w EXCEPT !.seen = a, !.processed = b]
    BY DEF Leave
  <2> HIDE DEF w, a, b
  <2>4. QED
    BY <2>1, <2>2, <2>3 DEF View, w
<1>3. snd' = Rejected /\ UNCHANGED <<ch, remote, budget>>
  BY DEF Leave
<1>4. CASE link.channel = None
  <2> DEFINE l == [link EXCEPT !.timer = FALSE, !.attempts = 0]
  <2>1. 0 \in 0..MaxBackoff
    BY SignalingAssumption
  <2>2. l \in Link
    BY <1>1, <2>1 DEF Link
  <2>3. l.channel = None /\ l.closing = link.closing /\ l.connect = link.connect
        /\ l.next = link.next
    BY <1>1, <1>4 DEF Link
  <2> DEFINE k == Closed(l)
  <2>4. link' = [k EXCEPT !.user = "left"]
    BY <1>4 DEF Leave
  <2> HIDE DEF l
  <2>5. /\ k \in Link /\ k.channel = None /\ k.room = None /\ k.disconnecting = FALSE
        /\ k.connect = link.connect /\ k.next = link.next /\ k.closing = link.closing
    BY <2>3, <2>2, ClosedFields
  <2> HIDE DEF k
  <2>6. /\ link' \in Link /\ link'.channel = None /\ link'.room = None
        /\ link'.disconnecting = FALSE /\ link'.connect = link.connect /\ link'.user = "left"
        /\ link'.next = link.next /\ link'.closing = link.closing
    BY <2>4, <2>5 DEF Link
  <2>7. TypeOK'
    BY <1>2, <1>3, <2>6, WaitersGone DEF PInv, TypeOK
  <2>8. ChannelInv'
    BY <1>3, <1>4, <2>6 DEF PInv, ChannelInv, Named
  <2>9. SessionInv'
    BY <1>3, <2>6, WaitersGone DEF PInv, SessionInv
  <2>10. PursuitInv'
    BY <1>3, <2>6, WaitersGone DEF PInv, PursuitInv, Waiting
  <2>11. QED
    BY <2>7, <2>8, <2>9, <2>10 DEF PInv
<1>5. CASE link.channel # None
  <2>1. link.closing = {} /\ link.connect = "no"
    BY <1>5, <1>1 DEF PInv, ChannelInv, Link
  <2> DEFINE l == Closing(link, "no")
  <2>2. link' = [l EXCEPT !.user = "left"]
    BY <1>5, <2>1 DEF Leave
  <2>3. /\ l \in Link /\ l.channel = None /\ l.room = link.room /\ l.disconnecting = TRUE
        /\ l.connect = "no" /\ l.next = link.next /\ l.closing = {link.channel}
    BY <1>1, <1>5, <2>1, ClosingFields
  <2> HIDE DEF l
  <2>4. /\ link' \in Link /\ link'.channel = None /\ link'.room = link.room
        /\ link'.disconnecting = TRUE /\ link'.connect = "no" /\ link'.user = "left"
        /\ link'.next = link.next /\ link'.closing = {link.channel}
    BY <2>2, <2>3 DEF Link
  <2>5. TypeOK'
    BY <1>2, <1>3, <2>4, WaitersGone DEF PInv, TypeOK
  <2>6. ChannelInv'
    BY <1>3, <2>4 DEF PInv, ChannelInv, Named
  <2>7. SessionInv'
    BY <1>3, <2>4, WaitersGone DEF PInv, SessionInv
  <2>8. PursuitInv'
    BY <1>3, <2>4, WaitersGone DEF PInv, PursuitInv, Waiting
  <2>9. QED
    BY <2>5, <2>6, <2>7, <2>8 DEF PInv
<1>6. QED
  BY <1>4, <1>5

(* What a channel becomes that the provider gave up.                        *)
LEMMA OrphanFields ==
    ASSUME TypeOK, NEW c \in Channels, NEW o \in Orphans(c) \cup {Removed(c)}
    PROVE  o \in Channel /\ o.state \in {"none", "joined"}
<1>1. ch[c] \in Channel
  BY DEF TypeOK
<1>2. Removed(c).state = "none"
  BY DEF Removed, NoChannel
<1>3. [ch[c] EXCEPT !.state = "joined", !.peer = None].state = "joined"
  BY <1>1 DEF Channel
<1>4. QED
  BY <1>2, <1>3, ChannelTypes DEF Orphans

(* The end of disconnect().                                                 *)
LEMMA DisconnectedStep ==
    ASSUME PInv, NEW c \in Channels, NEW answers \in BOOLEAN, Disconnected(c, answers)
    PROVE  PInv'
<1>1. link \in Link /\ ch \in [Channels -> Channel] /\ view \in View /\ c \in link.closing
  BY DEF PInv, TypeOK, Disconnected
<1>2. link.channel = None /\ link.closing = {c} /\ link.connect # "digest"
  BY <1>1 DEF PInv, ChannelInv, Link
<1>3. budget' \in Nat \X Nat
  BY BudgetType DEF Disconnected, Removal, Fault, PInv, TypeOK
<1>4. PICK o \in Orphans(c) \cup {Removed(c)} : ch' = [ch EXCEPT ![c] = o]
  BY DEF Disconnected, Removal
<1>5. o \in Channel /\ o.state # "joining"
  BY <1>4, OrphanFields DEF PInv
<1> DEFINE e == [link EXCEPT !.closing = @ \ {c}]
           l == Closed(e)
<1>6. link' = (IF link.connect = "disconnect" THEN Digesting(l) ELSE l)
  BY DEF Disconnected
<1>7. e \in Link /\ e.channel = None /\ e.closing = {} /\ e.connect = link.connect
      /\ e.user = link.user /\ e.next = link.next /\ e.pending = link.pending
  BY <1>1, <1>2 DEF Link
<1> HIDE DEF e
<1>8. /\ l \in Link /\ l.channel = None /\ l.room = None /\ l.disconnecting = FALSE
      /\ l.closing = {} /\ l.connect = link.connect /\ l.user = link.user
      /\ l.next = link.next /\ l.pending = link.pending
  BY <1>7, ClosedFields
<1> HIDE DEF l
<1>9. /\ link' \in Link /\ link'.channel = None /\ link'.room = None
      /\ link'.disconnecting = FALSE /\ link'.closing = {} /\ link'.user = link.user
      /\ link'.next = link.next /\ link'.pending = link.pending
      /\ link'.connect = IF link.connect = "disconnect" THEN "digest" ELSE link.connect
  BY <1>6, <1>8, DigestingFields
<1>10. view' \in View
  BY <1>1, ViewTypes DEF Disconnected, PInv
<1>11. TypeOK'
  BY <1>1, <1>3, <1>4, <1>5, <1>9, <1>10 DEF Disconnected, PInv, TypeOK
<1>12. ChannelInv'
  BY <1>1, <1>4, <1>5, <1>9 DEF PInv, ChannelInv, Named
<1>13. SessionInv'
  BY <1>1, <1>2, <1>9 DEF Disconnected, PInv, SessionInv, Named
<1>14. PursuitInv'
  BY <1>2, <1>9 DEF Disconnected, PInv, PursuitInv, Waiting
<1>15. QED
  BY <1>11, <1>12, <1>13, <1>14 DEF PInv

(* The timer ends.                                                          *)
LEMMA ReconnectTimerStep ==
    ASSUME PInv, ReconnectTimer
    PROVE  PInv'
<1>1. link \in Link /\ UNCHANGED <<ch, snd, view, remote, budget>>
  BY DEF PInv, TypeOK, ReconnectTimer
<1>2. PICK i \in Reopeners :
        link' = [link EXCEPT !.timer = FALSE,
                             !.reopening = IF ReopensAt(link)
                                           THEN @ \cup {<<link.channel, i>>} ELSE @]
  BY DEF ReconnectTimer
<1> DEFINE w == IF ReopensAt(link) THEN link.reopening \cup {<<link.channel, i>>}
                ELSE link.reopening
<1>3. w \in SUBSET (Channels \X Reopeners)
  BY <1>1 DEF Link, PInv, ChannelInv, ReopensAt
<1>4. link.channel # None => w # {}
  BY DEF PInv, ChannelInv, ReopensAt
<1>5. link' = [link EXCEPT !.timer = FALSE, !.reopening = w]
  BY <1>2
<1> HIDE DEF w
<1>6. /\ link' \in Link /\ link'.channel = link.channel /\ link'.room = link.room
      /\ link'.disconnecting = link.disconnecting /\ link'.closing = link.closing
      /\ link'.user = link.user /\ link'.next = link.next /\ link'.pending = link.pending
      /\ link'.connect = link.connect /\ link'.status = link.status /\ link'.reopening = w
  BY <1>1, <1>3, <1>5 DEF Link
<1>7. TypeOK'
  BY <1>1, <1>6 DEF PInv, TypeOK
<1>8. ChannelInv' /\ SessionInv'
  BY <1>1, <1>6 DEF PInv, ChannelInv, SessionInv, Named
<1>9. PursuitInv'
  BY <1>1, <1>4, <1>6 DEF PInv, PursuitInv, Pursued, Waiting
<1>10. QED
  BY <1>7, <1>8, <1>9 DEF PInv

(* reopenChannel() puts a new channel in place, or finds the provider       *)
(* disconnected.                                                            *)
LEMMA ReopenStep ==
    ASSUME PInv, NEW r \in link.reopening, NEW answers \in BOOLEAN, Reopen(r, answers)
    PROVE  PInv'
<1>1. link \in Link /\ ch \in [Channels -> Channel] /\ UNCHANGED <<snd, view, remote>>
  BY DEF PInv, TypeOK, Reopen
<1>2. budget' \in Nat \X Nat
  BY BudgetType DEF Reopen, Fault, PInv, TypeOK
<1> DEFINE c == r[1]
           told == answers /\ ch[c].state # "none" /\ c = link.channel /\ ~link.disconnecting
           t == IF told THEN ToldClosed(link, c) ELSE link
           l == [t EXCEPT !.reopening = @ \ {r}]
<1>3. PICK o \in Orphans(c) \cup {Removed(c)} :
        IF ReopensAt(l)
        THEN \E d \in NextFree :
               /\ link' = [l EXCEPT !.channel = d]
               /\ ch' = [Superseded(c) EXCEPT ![c] = o, ![d] = Opened("reopen", link.room)]
        ELSE link' = l /\ ch' = [ch EXCEPT ![c] = o]
  BY DEF Reopen
<1>4. c \in Channels /\ c # None
  BY <1>1, SignalingAssumption DEF Link
<1>5. o \in Channel /\ o.state # "joining"
  BY <1>3, <1>4, OrphanFields DEF PInv
<1>6. t \in Link /\ Kept(link, t) /\ (t.status = link.status \/ t.status # "connected")
  BY <1>1, <1>4, ToldClosedFields DEF Kept
<1> HIDE DEF t
<1>7. /\ l \in Link /\ l.channel = link.channel /\ l.room = link.room
      /\ l.disconnecting = link.disconnecting /\ l.closing = link.closing
      /\ l.user = link.user /\ l.next = link.next /\ l.pending = link.pending
      /\ l.connect = link.connect /\ l.status = t.status
  BY <1>6 DEF Link, Kept
<1> HIDE DEF l, c
<1>8. CASE ReopensAt(l)
  <2>1. PICK d \in NextFree :
          /\ link' = [l EXCEPT !.channel = d]
          /\ ch' = [Superseded(c) EXCEPT ![c] = o, ![d] = Opened("reopen", link.room)]
    BY <1>3, <1>8
  <2>2. Named(link) /\ ~link.disconnecting /\ link.channel \in Channels /\ link.room \in Rooms
    BY <1>1, <1>7, <1>8 DEF ReopensAt, Named, PInv, ChannelInv, Link
  <2>3. link.closing = {} /\ link.connect = "no"
    BY <1>1, <2>2 DEF PInv, ChannelInv, Link
  <2>4. d \in Channels /\ d # None /\ d # c /\ d # link.channel /\ d # link.pending
    BY FreeChannel, SignalingAssumption DEF c
  <2>5. /\ link' \in Link /\ link'.channel = d /\ link'.room = link.room
        /\ link'.disconnecting = FALSE /\ link'.closing = {} /\ link'.user = link.user
        /\ link'.next = link.next /\ link'.pending = link.pending /\ link'.connect = "no"
        /\ link'.status = l.status
    BY <1>7, <2>1, <2>2, <2>3, <2>4 DEF Link
  <2>6. Superseded(c) \in [Channels -> Channel]
        /\ \A e \in Channels : Superseded(c)[e].state = "joining" => Superseded(c)[e] = ch[e]
    BY <1>1, <2>2 DEF Superseded, Channel
  <2>7. Opened("reopen", link.room) \in Channel /\ Opened("reopen", link.room).state = "joining"
        /\ Opened("reopen", link.room).by = "reopen" /\ ~Opened("reopen", link.room).track
    BY <1>4, <2>2, ChannelTypes DEF PInv, Opened, NoChannel
  <2>8. ch' \in [Channels -> Channel] /\ ch'[d] = Opened("reopen", link.room)
        /\ \A e \in Channels : e # d /\ ch'[e].state = "joining" => ch'[e] = ch[e]
    BY <1>4, <1>5, <2>1, <2>4, <2>6, <2>7
  <2>9. TypeOK'
    BY <1>1, <1>2, <2>5, <2>8 DEF PInv, TypeOK
  <2>10. ChannelInv'
    BY <2>2, <2>4, <2>5, <2>7, <2>8 DEF PInv, ChannelInv, Named
  <2>11. SessionInv'
    BY <1>1, <2>2, <2>4, <2>5 DEF PInv, SessionInv, Named
  <2>12. PursuitInv'
    BY <1>1, <1>6, <1>7, <2>4, <2>5, <2>7, <2>8 DEF PInv, PursuitInv, Pursued, Waiting
  <2>13. QED
    BY <2>9, <2>10, <2>11, <2>12 DEF PInv
<1>9. CASE ~ReopensAt(l)
  <2>1. link' = l /\ ch' = [ch EXCEPT ![c] = o]
    BY <1>3, <1>9
  <2>2. link.channel = None
    BY <1>7, <1>9 DEF ReopensAt, Named, PInv, ChannelInv
  <2>3. TypeOK'
    BY <1>1, <1>2, <1>5, <1>7, <2>1 DEF PInv, TypeOK
  <2>4. ChannelInv'
    BY <1>1, <1>4, <1>5, <1>7, <2>1, <2>2 DEF PInv, ChannelInv, Named
  <2>5. SessionInv'
    BY <1>1, <1>7, <2>1 DEF PInv, SessionInv, Named
  <2>6. PursuitInv'
    BY <1>1, <1>7, <2>1, <2>2 DEF PInv, PursuitInv, Waiting
  <2>7. QED
    BY <2>3, <2>4, <2>5, <2>6 DEF PInv
<1>10. QED
  BY <1>8, <1>9

(* client.channel() throws.                                                 *)
LEMMA ReopenFailsStep ==
    ASSUME PInv, NEW r \in link.reopening, ReopenFails(r)
    PROVE  PInv'
<1>1. link \in Link /\ UNCHANGED <<ch, snd, view, remote>>
  BY DEF PInv, TypeOK, ReopenFails
<1> DEFINE l == [link EXCEPT !.reopening = @ \ {r}]
<1>2. /\ l \in Link /\ l.channel = link.channel /\ l.room = link.room
      /\ l.disconnecting = link.disconnecting /\ l.closing = link.closing
      /\ l.user = link.user /\ l.next = link.next /\ l.pending = link.pending
      /\ l.connect = link.connect
  BY <1>1 DEF Link
<1>3. link' = Reconnecting(l) /\ Named(l) /\ ~l.disconnecting
  BY <1>2 DEF ReopenFails, ReopensAt, Named
<1> HIDE DEF l
<1>4. /\ link' \in Link /\ Kept(l, link') /\ link'.status = "reconnecting" /\ link'.timer
  BY <1>2, <1>3, ReconnectingFields
<1>5. TypeOK'
  BY <1>1, <1>4, BudgetType DEF PInv, TypeOK, ReopenFails, Fault
<1>6. ChannelInv' /\ SessionInv'
  BY <1>1, <1>2, <1>4 DEF PInv, ChannelInv, SessionInv, Named, Kept
<1>7. PursuitInv'
  BY <1>1, <1>2, <1>4 DEF PInv, PursuitInv, Pursued, Waiting, Kept
<1>8. QED
  BY <1>5, <1>6, <1>7 DEF PInv

(* SUBSCRIBED.                                                              *)
LEMMA JoinsStep ==
    ASSUME PInv, NEW c \in Channels, Joins(c)
    PROVE  PInv'
<1>1. /\ link \in Link /\ ch \in [Channels -> Channel] /\ snd \in [Senders -> Send]
      /\ c = link.channel /\ c # None /\ ch[c].state # "none"
      /\ UNCHANGED <<view, remote, budget>>
  BY SignalingAssumption DEF PInv, TypeOK, Joins
<1>2. ~link.disconnecting /\ Named(link) /\ Heeded(c)
  BY <1>1 DEF PInv, ChannelInv, Heeded
<1>3. /\ ch' \in [Channels -> Channel] /\ ch'[c].state = "joined" /\ ch'[c].track
      /\ ch'[c].by = ch[c].by /\ \A d \in Channels : d # c => ch'[d] = ch[d]
  <2> DEFINE n == [ch[c] EXCEPT !.state = "joined", !.track = TRUE]
  <2>1. ch' = [ch EXCEPT ![c] = n]
    BY <1>1, <1>2 DEF Joins, Channel
  <2>2. n \in Channel /\ n.state = "joined" /\ n.track /\ n.by = ch[c].by
    BY <1>1 DEF Channel
  <2> HIDE DEF n
  <2>3. QED
    BY <1>1, <2>1, <2>2
<1>4. CASE ch[c].by = "connect"
  <2>1. link' = [link EXCEPT !.timer = FALSE, !.attempts = 0, !.status = "connected"]
        /\ BecomesConnected
    BY <1>2, <1>4 DEF Joins
  <2>2. 0 \in 0..MaxBackoff
    BY SignalingAssumption
  <2>3. link' \in Link /\ Kept(link, link') /\ link'.status = "connected"
    BY <1>1, <2>1, <2>2 DEF Link, Kept
  <2>4. snd' \in [Senders -> Send]
        /\ \A s \in Senders : /\ snd'[s].at # "wait"
                              /\ snd'[s].at = "send" => snd'[s] = snd[s]
    <3>1. CASE link.status = "connected"
      BY <1>1, <2>1, <3>1 DEF BecomesConnected, PInv, PursuitInv, Waiting
    <3>2. CASE link.status # "connected"
      BY <2>1, <3>2, WaitersGone DEF BecomesConnected, PInv
    <3>3. QED
      BY <3>1, <3>2
  <2>5. TypeOK'
    BY <1>1, <1>3, <2>3, <2>4 DEF PInv, TypeOK
  <2>6. ChannelInv'
    BY <1>1, <1>3, <2>3 DEF PInv, ChannelInv, Named, Kept
  <2>7. SessionInv'
    BY <1>1, <2>3, <2>4 DEF PInv, SessionInv, Named, Kept
  <2>8. PursuitInv'
    BY <2>3, <2>4 DEF PursuitInv, Waiting
  <2>9. QED
    BY <2>5, <2>6, <2>7, <2>8 DEF PInv
<1>5. CASE ch[c].by # "connect"
  <2>1. UNCHANGED <<link, snd>> /\ ch[c].by = "reopen"
    BY <1>1, <1>5 DEF Joins, Channel
  <2>2. TypeOK'
    BY <1>1, <1>3, <2>1 DEF PInv, TypeOK
  <2>3. ChannelInv'
    BY <1>1, <1>3, <2>1 DEF PInv, ChannelInv, Named
  <2>4. SessionInv'
    BY <2>1 DEF PInv, SessionInv, Named
  <2>5. PursuitInv'
    BY <1>1, <1>3, <2>1 DEF PInv, PursuitInv, Pursued, Waiting
  <2>6. QED
    BY <2>2, <2>3, <2>4, <2>5 DEF PInv
<1>6. QED
  BY <1>4, <1>5

(* CHANNEL_ERROR, TIMED_OUT or CLOSED.                                      *)
LEMMA BreaksStep ==
    ASSUME PInv, NEW c \in Channels, Breaks(c)
    PROVE  PInv'
<1>1. /\ link \in Link /\ ch \in [Channels -> Channel]
      /\ c = link.channel /\ c # None /\ UNCHANGED <<snd, view, remote>>
  BY SignalingAssumption DEF PInv, TypeOK, Breaks
<1>2. ~link.disconnecting /\ Named(link) /\ Heeded(c)
  BY <1>1 DEF PInv, ChannelInv, Heeded
<1>3. /\ ch' \in [Channels -> Channel] /\ ch'[c].state = "broken"
      /\ ch'[c].by = ch[c].by /\ \A d \in Channels : d # c => ch'[d] = ch[d]
  <2> DEFINE n == [ch[c] EXCEPT !.state = "broken", !.peer = None]
  <2>1. ch' = [ch EXCEPT ![c] = n]
    BY <1>1 DEF Breaks, Channel
  <2>2. n \in Channel /\ n.state = "broken" /\ n.by = ch[c].by
    BY <1>1 DEF Channel
  <2> HIDE DEF n
  <2>3. QED
    BY <1>1, <2>1, <2>2
<1>4. budget' \in Nat \X Nat
  BY BudgetType DEF Breaks, Fault, PInv
<1>5. CASE link' = ToldClosed(link, c)
  <2>1. /\ link' \in Link /\ Kept(link, link') /\ (link.timer => link'.timer)
        /\ link'.status = IF link.pending = c THEN "disconnected" ELSE "reconnecting"
        /\ (link.pending # c => link'.timer)
    BY <1>1, <1>2, <1>5, ToldClosedFields
  <2>2. TypeOK'
    BY <1>1, <1>3, <1>4, <2>1 DEF PInv, TypeOK
  <2>3. ChannelInv' /\ SessionInv'
    BY <1>1, <1>3, <2>1 DEF PInv, ChannelInv, SessionInv, Named, Kept
  <2>4. link'.timer \/ (ch[c].by = "connect" /\ link'.status = "disconnected")
    BY <1>1, <2>1 DEF PInv, ChannelInv
  <2>5. link'.status # "connected"
    BY <2>1
  <2>6. PursuitInv'
    BY <1>1, <1>3, <2>1, <2>4, <2>5 DEF PInv, PursuitInv, Pursued, Waiting, Kept
  <2>7. QED
    BY <2>2, <2>3, <2>6 DEF PInv
<1>6. CASE link.pending = c /\ link' = [Rejecting(link) EXCEPT !.status = "error"]
  <2> DEFINE l == Rejecting(link)
  <2>1. /\ l \in Link /\ l.channel = link.channel /\ l.room = link.room
        /\ l.disconnecting = link.disconnecting /\ l.connect = link.connect
        /\ l.next = link.next /\ l.pending = None /\ l.closing = link.closing
        /\ l.timer = link.timer /\ l.reopening = link.reopening
        /\ l.user = (IF link.user = "joining" THEN "failed" ELSE link.user)
    BY <1>1, RejectingFields
  <2>2. link' = [l EXCEPT !.status = "error"]
    BY <1>6
  <2> HIDE DEF l
  <2>3. link' \in Link /\ Kept(l, link') /\ link'.status = "error" /\ link'.timer = l.timer
    BY <2>1, <2>2 DEF Link, Kept
  <2>4. TypeOK'
    BY <1>1, <1>3, <1>4, <2>3 DEF PInv, TypeOK
  <2>5. ChannelInv'
    BY <1>1, <1>3, <2>1, <2>3 DEF PInv, ChannelInv, Named, Kept
  <2>6. SessionInv'
    BY <1>1, <1>2, <2>1, <2>3 DEF PInv, SessionInv, Named, Kept
  <2>7. ch[c].by = "connect"
    BY <1>1, <1>6 DEF PInv, ChannelInv
  <2>8. PursuitInv'
    BY <1>1, <1>3, <2>1, <2>3, <2>7 DEF PInv, PursuitInv, Pursued, Waiting, Kept
  <2>9. QED
    BY <2>4, <2>5, <2>6, <2>8 DEF PInv
<1>7. QED
  BY <1>2, <1>5, <1>6 DEF Breaks

(* The answer to track() arrives at a channel object.                       *)
LEMMA AnsweredFields ==
    ASSUME PInv, NEW c \in Channels, ch[c].track, ch' = [ch EXCEPT ![c] = Answered(c)]
    PROVE  /\ ch' \in [Channels -> Channel] /\ ~ch'[c].track /\ ch'[c].state = ch[c].state
           /\ ch[c].state # "joining" /\ (ch[c].state # "none" => ch'[c].by = ch[c].by)
           /\ (ch[c].state # "none" => ch'[c].peer = ch[c].peer)
           /\ \A d \in Channels : d # c => ch'[d] = ch[d]
<1>1. ch \in [Channels -> Channel] /\ ch[c].state # "joining"
  BY DEF PInv, TypeOK, ChannelInv
<1> DEFINE n == Answered(c)
<1>2. ch' = [ch EXCEPT ![c] = n]
  OBVIOUS
<1>3. CASE ch[c].state = "none"
  <2>1. n = NoChannel /\ NoChannel \in Channel /\ NoChannel.state = "none" /\ ~NoChannel.track
    BY <1>3, ChannelTypes DEF PInv, Answered, NoChannel
  <2> HIDE DEF n
  <2>2. QED
    BY <1>2, <1>1, <1>3, <2>1
<1>4. CASE ch[c].state # "none"
  <2>1. n = [ch[c] EXCEPT !.track = FALSE]
    BY <1>4 DEF Answered
  <2>2. n \in Channel /\ n.state = ch[c].state /\ ~n.track /\ n.by = ch[c].by
        /\ n.peer = ch[c].peer
    BY <1>1, <2>1 DEF Channel
  <2> HIDE DEF n
  <2>3. QED
    BY <1>2, <1>1, <2>2
<1>5. QED
  BY <1>3, <1>4

(* track() answers.                                                         *)
LEMMA TrackedStep ==
    ASSUME PInv, NEW c \in Channels, Tracked(c)
    PROVE  PInv'
<1>1. /\ link \in Link /\ ch \in [Channels -> Channel] /\ snd \in [Senders -> Send]
      /\ c # None /\ link.channel \in Channels \cup {None} /\ UNCHANGED <<remote, budget>>
  BY SignalingAssumption DEF PInv, TypeOK, Link, Tracked
<1>2. /\ ch' \in [Channels -> Channel] /\ ~ch'[c].track /\ ch'[c].state = ch[c].state
      /\ ch[c].state # "joining" /\ (ch[c].state # "none" => ch'[c].by = ch[c].by)
      /\ \A d \in Channels : d # c => ch'[d] = ch[d]
  BY AnsweredFields DEF Tracked
<1>3. view' \in View
  BY ViewTypes DEF Tracked, PInv, TypeOK
<1>4. CASE ch[c].by = "connect"
  <2> DEFINE p == IF link.pending = c THEN None ELSE link.pending
             u == IF link.pending = c /\ link.user = "joining" THEN "in" ELSE link.user
  <2>1. link' = Resolved(c) /\ snd' = snd
    BY <1>4 DEF Tracked
  <2>2. p \in Channels \cup {None} /\ u \in {"new", "joining", "in", "failed", "left"}
    BY <1>1 DEF Link
  <2>3. link' = link \/ link' = [link EXCEPT !.pending = p, !.user = u]
    BY <2>1 DEF Resolved
  <2>4. link' = link => p = link.pending /\ u = link.user
    BY <1>1, <2>1 DEF Resolved, Link
  <2> HIDE DEF p, u
  <2>5. /\ link' \in Link /\ link'.channel = link.channel /\ link'.room = link.room
        /\ link'.disconnecting = link.disconnecting /\ link'.connect = link.connect
        /\ link'.next = link.next /\ link'.closing = link.closing
        /\ link'.timer = link.timer /\ link'.reopening = link.reopening
        /\ link'.status = link.status /\ link'.pending = p /\ link'.user = u
    BY <1>1, <2>2, <2>3, <2>4 DEF Link
  <2>6. TypeOK'
    BY <1>1, <1>2, <1>3, <2>1, <2>5 DEF PInv, TypeOK
  <2>7. ChannelInv'
    BY <1>1, <1>2, <2>5 DEF PInv, ChannelInv, Named, p
  <2>8. SessionInv'
    BY <1>1, <2>1, <2>5 DEF PInv, SessionInv, Named, p, u
  <2>9. PursuitInv'
    BY <1>1, <1>2, <1>4, <2>1, <2>5 DEF PInv, PursuitInv, Pursued, Waiting, p
  <2>10. QED
    BY <2>6, <2>7, <2>8, <2>9 DEF PInv
<1>5. CASE ch[c].by # "connect"
  <2>1. link' = [link EXCEPT !.timer = FALSE, !.attempts = 0, !.status = "connected"]
        /\ BecomesConnected
    BY <1>5 DEF Tracked
  <2>2. 0 \in 0..MaxBackoff
    BY SignalingAssumption
  <2>3. link' \in Link /\ Kept(link, link') /\ link'.status = "connected"
    BY <1>1, <2>1, <2>2 DEF Link, Kept
  <2>4. snd' \in [Senders -> Send]
        /\ \A s \in Senders : /\ snd'[s].at # "wait"
                              /\ snd'[s].at = "send" => snd'[s] = snd[s]
    <3>1. CASE link.status = "connected"
      BY <1>1, <2>1, <3>1 DEF BecomesConnected, PInv, PursuitInv, Waiting
    <3>2. CASE link.status # "connected"
      BY <2>1, <3>2, WaitersGone DEF BecomesConnected, PInv
    <3>3. QED
      BY <3>1, <3>2
  <2>5. TypeOK'
    BY <1>1, <1>2, <1>3, <2>3, <2>4 DEF PInv, TypeOK
  <2>6. ChannelInv'
    BY <1>1, <1>2, <2>3 DEF PInv, ChannelInv, Named, Kept
  <2>7. SessionInv'
    BY <1>1, <2>3, <2>4 DEF PInv, SessionInv, Named, Kept
  <2>8. PursuitInv'
    BY <2>3, <2>4 DEF PursuitInv, Waiting
  <2>9. QED
    BY <2>5, <2>6, <2>7, <2>8 DEF PInv
<1>6. QED
  BY <1>4, <1>5

(* ... or throws.                                                           *)
LEMMA TrackFailsStep ==
    ASSUME PInv, NEW c \in Channels, TrackFails(c)
    PROVE  PInv'
<1>1. /\ link \in Link /\ ch \in [Channels -> Channel]
      /\ c # None /\ link.channel \in Channels \cup {None} /\ UNCHANGED <<snd, view, remote>>
  BY SignalingAssumption DEF PInv, TypeOK, Link, TrackFails
<1>2. /\ ch' \in [Channels -> Channel] /\ ~ch'[c].track /\ ch'[c].state = ch[c].state
      /\ ch[c].state # "joining" /\ (ch[c].state # "none" => ch'[c].by = ch[c].by)
      /\ \A d \in Channels : d # c => ch'[d] = ch[d]
  BY AnsweredFields DEF TrackFails
<1>3. budget' \in Nat \X Nat
  BY BudgetType DEF TrackFails, Fault, PInv
<1>4. CASE ch[c].by = "connect"
  <2>1. link' = IF link.pending = c THEN Rejecting(link) ELSE link
    BY <1>4 DEF TrackFails
  <2>2. /\ link' \in Link /\ link'.channel = link.channel /\ link'.room = link.room
        /\ link'.disconnecting = link.disconnecting /\ link'.connect = link.connect
        /\ link'.next = link.next /\ link'.closing = link.closing
        /\ link'.timer = link.timer /\ link'.reopening = link.reopening
        /\ link'.status = link.status
        /\ link'.pending = (IF link.pending = c THEN None ELSE link.pending)
        /\ link'.user = IF link.pending = c /\ link.user = "joining" THEN "failed" ELSE link.user
    BY <1>1, <2>1, RejectingFields
  <2>3. TypeOK'
    BY <1>1, <1>2, <1>3, <2>2 DEF PInv, TypeOK
  <2>4. ChannelInv'
    BY <1>1, <1>2, <2>2 DEF PInv, ChannelInv, Named
  <2>5. SessionInv'
    BY <1>1, <2>2 DEF PInv, SessionInv, Named
  <2>6. PursuitInv'
    BY <1>1, <1>2, <1>4, <2>2 DEF PInv, PursuitInv, Pursued, Waiting
  <2>7. QED
    BY <2>3, <2>4, <2>5, <2>6 DEF PInv
<1>5. CASE ch[c].by # "connect"
  <2>1. /\ link' \in Link /\ Kept(link, link') /\ link'.status = "reconnecting"
        /\ (Named(link) /\ ~link.disconnecting => link'.timer)
    BY <1>1, <1>5, ReconnectingFields DEF TrackFails
  <2>2. TypeOK'
    BY <1>1, <1>2, <1>3, <2>1 DEF PInv, TypeOK
  <2>3. ChannelInv' /\ SessionInv'
    BY <1>1, <1>2, <2>1 DEF PInv, ChannelInv, SessionInv, Named, Kept
  <2>4. PursuitInv'
    BY <1>1, <2>1 DEF PInv, PursuitInv, Pursued, Waiting, Kept, ChannelInv, Named
  <2>5. QED
    BY <2>2, <2>3, <2>4 DEF PInv
<1>6. QED
  BY <1>4, <1>5

-----------------------------------------------------------------------------
(* The broadcasts.                                                          *)

(* waitForConnected() on behalf of a broadcast keeps the invariant, at once *)
(* or after the status became reconnecting.                                 *)
LEMMA WaitKeeps ==
    ASSUME PInv, NEW s \in Senders, NEW k \in 0..2, NEW l \in Link,
           Kept(link, l), l.status \in {link.status, "reconnecting"}, link.timer => l.timer,
           l = link \/ (Named(l) /\ ~l.disconnecting => l.timer),
           WaitForConnected(s, k, l), UNCHANGED <<ch, view, remote>>, budget' \in Nat \X Nat
    PROVE  PInv'
<1>1. /\ link' \in Link /\ Kept(l, link') /\ snd' \in [Senders -> Send]
      /\ link'.status = l.status /\ (l.timer => link'.timer)
      /\ (snd'[s].at = "wait" => ~Connected(l) /\ Named(l) /\ ~l.disconnecting /\ link'.timer)
      /\ snd'[s].at # "send" /\ \A t \in Senders : t # s => snd'[t] = snd[t]
  BY WaitFields DEF PInv
<1>2. Kept(link, link')
  BY <1>1 DEF Kept
<1>3. TypeOK'
  BY <1>1 DEF PInv, TypeOK
<1>4. ChannelInv'
  BY <1>2 DEF PInv, ChannelInv, Named, Kept
<1>5. SessionInv'
  BY <1>1, <1>2 DEF PInv, SessionInv, Named, Kept
<1>6. Named(l) /\ ~l.disconnecting => link.channel # None /\ l.channel # None
  BY DEF PInv, ChannelInv, Named, Kept
<1>7. Pursued => Pursued'
  BY <1>1, <1>2 DEF Pursued, Kept
<1>8. ASSUME NEW t \in Senders, Waiting(t)'
      PROVE  link'.channel # None /\ link'.status # "connected" /\ Pursued'
  <2>1. CASE t = s
    BY <1>1, <1>2, <1>6, <1>8, <2>1 DEF Waiting, Connected, Pursued, Kept
  <2>2. CASE t # s
    BY <1>1, <1>2, <1>7, <1>8, <2>2 DEF Waiting, PInv, PursuitInv, Kept
  <2>3. QED
    BY <2>1, <2>2
<1>9. ASSUME link'.channel # None, link'.status = "reconnecting"
      PROVE  Pursued' \/ (link'.pending = link'.channel /\ ch'[link'.channel].state = "joining")
  <2>1. CASE l = link
    BY <1>1, <1>2, <1>7, <1>9, <2>1 DEF PInv, PursuitInv, Kept
  <2>2. CASE l # link
    BY <1>1, <1>2, <1>9, <2>2 DEF PInv, ChannelInv, Pursued, Named, Kept
  <2>3. QED
    BY <2>1, <2>2
<1>10. PursuitInv'
  BY <1>8, <1>9 DEF PursuitInv
<1>11. QED
  BY <1>3, <1>4, <1>5, <1>10 DEF PInv

(* A broadcast that ends or begins a send, and nothing else.                *)
LEMMA SendKeeps ==
    ASSUME PInv, NEW s \in Senders, snd' \in [Senders -> Send],
           snd'[s].at # "wait", snd'[s].at = "send" => snd'[s].k < 2,
           \A t \in Senders : t # s => snd'[t] = snd[t],
           UNCHANGED <<link, ch, view, remote>>, budget' \in Nat \X Nat
    PROVE  PInv'
<1>1. TypeOK'
  BY DEF PInv, TypeOK
<1>2. ChannelInv'
  BY DEF PInv, ChannelInv, Named
<1>3. SessionInv'
  BY DEF PInv, SessionInv, Named
<1>4. PursuitInv'
  <2>1. \A t \in Senders : Waiting(t)' => Waiting(t)
    BY DEF Waiting
  <2>2. QED
    BY <2>1 DEF PInv, PursuitInv, Pursued
<1>5. QED
  BY <1>1, <1>2, <1>3, <1>4 DEF PInv

LEMMA SenderStep ==
    ASSUME PInv, NEW s \in Senders, Sender(s)
    PROVE  PInv'
<1>1. link \in Link /\ snd \in [Senders -> Send] /\ budget \in Nat \X Nat /\ Kept(link, link)
  BY DEF PInv, TypeOK, Kept
<1>2. Idle \in Send /\ Idle.at = "idle"
  BY DEF Idle, Send
<1>3. snd[s] \in Send /\ snd[s].k \in 0..2
  BY <1>1 DEF Send
<1>4. CASE Broadcast(s)
  BY <1>1, <1>4, WaitKeeps, BudgetType DEF Broadcast, PInv
<1>5. CASE Attempt(s)
  <2>1. UNCHANGED <<ch, view, remote, budget>>
    BY <1>5 DEF Attempt
  <2>2. CASE snd[s].k = 2
    BY <1>1, <1>2, <1>5, <2>1, <2>2, SendKeeps DEF Attempt
  <2>3. CASE snd[s].k # 2 /\ Connected(link) /\ Named(link)
    <3> DEFINE n == [snd[s] EXCEPT !.at = "send", !.c = link.channel]
    <3>1. UNCHANGED link /\ snd' = [snd EXCEPT ![s] = n]
      BY <1>1, <1>5, <2>3 DEF Attempt, Send
    <3>2. link.channel \in Channels \cup {None} /\ snd[s].k < 2
      BY <1>1, <1>3, <2>3 DEF Link
    <3>3. n \in Send /\ n.at = "send" /\ n.k = snd[s].k
      BY <1>3, <3>2 DEF Send
    <3> HIDE DEF n
    <3>4. QED
      BY <1>1, <2>1, <3>1, <3>2, <3>3, SendKeeps
  <2>4. CASE snd[s].k # 2 /\ ~(Connected(link) /\ Named(link))
    <3>1. WaitForConnected(s, snd[s].k + 1, link) /\ snd[s].k + 1 \in 0..2
      BY <1>3, <1>5, <2>4 DEF Attempt
    <3>2. QED
      BY <1>1, <2>1, <3>1, WaitKeeps
  <2>5. QED
    BY <2>2, <2>3, <2>4
<1>6. CASE Sent(s) \/ WaiterTimeout(s)
  BY <1>1, <1>2, <1>6, SendKeeps DEF Sent, WaiterTimeout
<1>7. CASE SendFails(s)
  <2>1. UNCHANGED <<ch, view, remote>> /\ budget' \in Nat \X Nat
    BY <1>1, <1>7, BudgetType DEF SendFails, Fault, PInv
  <2>2. snd[s].k \in {0, 1}
    BY <1>3, <1>7 DEF SendFails, PInv, SessionInv
  <2>3. CASE snd[s].k = 0 /\ ~link.disconnecting
    <3> DEFINE l == Reconnecting(link)
    <3>1. WaitForConnected(s, 1, l)
      BY <1>7, <2>3 DEF SendFails
    <3>2. /\ l \in Link /\ Kept(link, l) /\ l.status = "reconnecting"
          /\ (link.timer => l.timer) /\ (Named(link) /\ ~link.disconnecting => l.timer)
      BY <1>1, ReconnectingFields
    <3>3. Named(l) /\ ~l.disconnecting => l.timer
      BY <3>2 DEF Named, Kept
    <3> HIDE DEF l
    <3>4. QED
      BY <2>1, <3>1, <3>2, <3>3, WaitKeeps
  <2>4. CASE ~(snd[s].k = 0 /\ ~link.disconnecting)
    <3> DEFINE n == [Idle EXCEPT !.at = "go", !.k = snd[s].k + 1]
    <3>1. snd' = [snd EXCEPT ![s] = n] /\ UNCHANGED link
      BY <1>7, <2>4 DEF SendFails
    <3>2. snd[s].k + 1 \in 0..2
      BY <2>2
    <3>3. n \in Send /\ n.at = "go"
      BY <3>2 DEF Idle, Send
    <3> HIDE DEF n
    <3>4. QED
      BY <1>1, <2>1, <3>1, <3>3, SendKeeps
  <2>5. QED
    BY <2>3, <2>4
<1>8. QED
  BY <1>4, <1>5, <1>6, <1>7 DEF Sender

-----------------------------------------------------------------------------
(* Presence and messages leave the connection alone.                        *)

(* What the peer does keeps the type of the remote side.                    *)
LEMMA RemoteTypes ==
    ASSUME TypeOK,
           \/ \E room \in Rooms : RemoteJoins(room)
           \/ RemoteLeaves \/ \E targeted \in BOOLEAN : RemoteSends(targeted)
    PROVE  remote' \in Remotes
<1>1. remote \in Remotes /\ remote.clock \in Nat /\ remote.clock + 1 \in Nat /\ remote.at \in Nat
      /\ remote.room \in Rooms /\ remote.wire \subseteq Message
  BY DEF TypeOK, Remotes
<1>2. CASE \E room \in Rooms : RemoteJoins(room)
  BY <1>1, <1>2 DEF RemoteJoins, Remotes
<1>3. CASE RemoteLeaves
  BY <1>1, <1>3 DEF RemoteLeaves, Remotes
<1>4. ASSUME NEW targeted \in BOOLEAN, RemoteSends(targeted) PROVE remote' \in Remotes
  <2> DEFINE w == remote.wire \cup
        {[at |-> remote.clock + 1, session |-> remote.at, room |-> remote.room,
          targeted |-> targeted, c |-> c] :
            c \in {d \in Channels : ch[d].state = "joined" /\ ch[d].room = remote.room}}
  <2>1. w \in SUBSET Message
    BY <1>1 DEF Message
  <2>2. remote' = [remote EXCEPT !.clock = @ + 1, !.wire = w]
    BY <1>4 DEF RemoteSends
  <2> HIDE DEF w
  <2>3. QED
    BY <1>1, <2>1, <2>2 DEF Remotes
<1>5. QED
  BY <1>2, <1>3, <1>4

(* What the provider makes of presence and messages keeps the types.        *)
LEMMA ViewStepTypes ==
    ASSUME TypeOK, ChannelInv,
           \/ \E c \in Channels : Sync(c)
           \/ GraceEnds \/ \E m \in remote.wire : Receive(m) \/ Lose(m)
    PROVE  view' \in View /\ remote' \in Remotes
<1>1. view \in View /\ remote \in Remotes /\ ch \in [Channels -> Channel] /\ remote.clock \in Nat
  BY DEF TypeOK, Remotes
<1>2. ASSUME NEW m \in remote.wire PROVE [remote EXCEPT !.wire = @ \ {m}] \in Remotes
  BY <1>1 DEF Remotes
<1>3. CASE \E c \in Channels : Sync(c)
  <2>1. \A c \in Channels : Shown(c) \in Time
    BY <1>1 DEF Shown, Remotes
  <2>2. QED
    BY <1>1, <1>3, <2>1, ViewTypes DEF Sync
<1>4. CASE GraceEnds
  BY <1>1, <1>4 DEF GraceEnds, View
<1>5. ASSUME NEW m \in remote.wire, Receive(m) PROVE view' \in View /\ remote' \in Remotes
  <2> DEFINE v == IF view.seen = None THEN Reconcile(view, link) ELSE view
  <2>1. v \in View /\ m.at \in Nat
    BY <1>1, ViewTypes DEF Remotes, Message
  <2>2. view' \in {view, v, [v EXCEPT !.processed = @ \cup {m.at}]}
        /\ remote' = [remote EXCEPT !.wire = @ \ {m}]
    BY <1>5 DEF Receive
  <2> HIDE DEF v
  <2>3. [v EXCEPT !.processed = @ \cup {m.at}] \in View
    BY <2>1 DEF View
  <2>4. QED
    BY <1>1, <1>2, <2>1, <2>2, <2>3
<1>6. ASSUME NEW m \in remote.wire, Lose(m) PROVE view' \in View /\ remote' \in Remotes
  BY <1>1, <1>2, <1>6 DEF Lose
<1>7. QED
  BY <1>3, <1>4, <1>5, <1>6

(* A presence sync changes what a channel knows of the peer, nothing else.  *)
LEMMA SyncFields ==
    ASSUME TypeOK, NEW c \in Channels, Sync(c)
    PROVE  /\ ch' \in [Channels -> Channel] /\ UNCHANGED <<link, snd, remote, budget>>
           /\ \A d \in Channels : /\ ch'[d].state = ch[d].state /\ ch'[d].by = ch[d].by
                                  /\ ch'[d].track = ch[d].track /\ ch'[d].room = ch[d].room
                                  /\ ch'[d].peer = IF d = c /\ c = link.channel
                                                   THEN Shown(c) ELSE ch[d].peer
<1>1. ch \in [Channels -> Channel] /\ Shown(c) \in Time
  BY DEF TypeOK, Remotes, Shown
<1>2. CASE c = link.channel
  <2> DEFINE n == [ch[c] EXCEPT !.peer = Shown(c)]
  <2>1. ch' = [ch EXCEPT ![c] = n] /\ UNCHANGED <<link, snd, remote, budget>>
    BY <1>1, <1>2 DEF Sync, Channel
  <2>2. n \in Channel /\ n.state = ch[c].state /\ n.by = ch[c].by /\ n.track = ch[c].track
        /\ n.room = ch[c].room /\ n.peer = Shown(c)
    BY <1>1 DEF Channel
  <2> HIDE DEF n
  <2>3. QED
    BY <1>1, <1>2, <2>1, <2>2
<1>3. CASE c # link.channel
  BY <1>1, <1>3 DEF Sync
<1>4. QED
  BY <1>2, <1>3

LEMMA PresenceStep ==
    ASSUME PInv, Remote \/ \E c \in Channels : Sync(c)
    PROVE  PInv'
<1>1. link' = link /\ snd' = snd
  BY SyncFields DEF Remote, RemoteJoins, RemoteLeaves, RemoteSends, GraceEnds, Receive, Lose, Sync
<1>2. /\ ch' \in [Channels -> Channel]
      /\ \A d \in Channels : /\ ch'[d].state = ch[d].state /\ ch'[d].by = ch[d].by
                             /\ ch'[d].track = ch[d].track
  <2>1. CASE Remote
    <3>1. ch' = ch
      BY <2>1 DEF Remote, RemoteJoins, RemoteLeaves, RemoteSends, GraceEnds, Receive, Lose
    <3>2. QED
      BY <3>1 DEF PInv, TypeOK
  <2>2. CASE \E c \in Channels : Sync(c)
    BY <2>2, SyncFields DEF PInv
  <2>3. QED
    BY <2>1, <2>2
<1>3. link.channel \in Channels \cup {None}
  BY DEF PInv, TypeOK, Link
<1>4. TypeOK'
  <2>1. CASE \/ \E room \in Rooms : RemoteJoins(room)
             \/ RemoteLeaves \/ \E targeted \in BOOLEAN : RemoteSends(targeted)
    <3>1. view' = view /\ Move
      BY <2>1 DEF RemoteJoins, RemoteLeaves, RemoteSends
    <3>2. QED
      BY <1>1, <1>2, <2>1, <3>1, RemoteTypes, BudgetType DEF PInv, TypeOK
  <2>2. CASE \/ \E c \in Channels : Sync(c)
             \/ GraceEnds \/ \E m \in remote.wire : Receive(m) \/ Lose(m)
    <3>1. budget' = budget
      BY <2>2 DEF Sync, GraceEnds, Receive, Lose
    <3>2. QED
      BY <1>1, <1>2, <2>2, <3>1, ViewStepTypes DEF PInv, TypeOK
  <2>3. QED
    BY <2>1, <2>2 DEF Remote
<1>5. ChannelInv'
  BY <1>1, <1>2, <1>3 DEF PInv, ChannelInv, Named
<1>6. SessionInv'
  BY <1>1 DEF PInv, SessionInv, Named
<1>7. link.channel # None => (Pursued' <=> Pursued)
  BY <1>1, <1>2, <1>3 DEF Pursued
<1>8. PursuitInv'
  BY <1>1, <1>2, <1>3, <1>7 DEF PInv, PursuitInv, Waiting
<1>9. QED
  BY <1>4, <1>5, <1>6, <1>8 DEF PInv

-----------------------------------------------------------------------------
(* The initial states, and a step of any kind.                              *)
LEMMA PursuitInit ==
    ASSUME Init
    PROVE  PInv
<1>1. 0 \in 0..MaxBackoff
  BY SignalingAssumption
<1>2. link \in Link /\ view \in View /\ remote \in Remotes
  BY <1>1 DEF Init, Link, View, Remotes
<1>3. NoChannel \in Channel /\ NoChannel.state = "none" /\ Idle \in Send /\ Idle.at = "idle"
  BY DEF NoChannel, Channel, Idle, Send
<1>4. budget \in Nat \X Nat
  BY SignalingAssumption DEF Init
<1>5. TypeOK
  BY <1>2, <1>3, <1>4 DEF Init, TypeOK
<1>6. ChannelInv
  BY <1>3 DEF Init, ChannelInv, Named
<1>7. SessionInv
  BY <1>3 DEF Init, SessionInv, Named
<1>8. PursuitInv
  BY <1>3 DEF Init, PursuitInv, Waiting
<1>9. QED
  BY <1>5, <1>6, <1>7, <1>8 DEF PInv

LEMMA PursuitStep ==
    ASSUME PInv, [Next]_vars
    PROVE  PInv'
<1>1. CASE UNCHANGED vars
  BY <1>1 DEF vars, PInv, TypeOK, ChannelInv, SessionInv, PursuitInv, Pursued, Waiting, Named
<1>2. CASE Session
  BY <1>2, ConnectStep, RotateStep, SubscribeStep, ConnectTimeoutStep, LeaveStep,
     ReconnectTimerStep DEF Session
<1>3. CASE Reopening
  BY <1>3, ReopenStep, ReopenFailsStep DEF Reopening
<1>4. CASE Remote
  BY <1>4, PresenceStep
<1>5. ASSUME NEW c \in Channels, OnChannel(c) PROVE PInv'
  BY <1>5, JoinsStep, BreaksStep, TrackedStep, TrackFailsStep, PresenceStep, DisconnectedStep
     DEF OnChannel
<1>6. CASE \E s \in Senders : Sender(s)
  BY <1>6, SenderStep
<1>7. QED
  BY <1>1, <1>2, <1>3, <1>4, <1>5, <1>6 DEF Next

(* A provider that says it reconnects does, and no broadcast waits for a    *)
(* connection that nobody is opening, whatever timers, callbacks, removals  *)
(* and disconnects interleave (scheduleReconnect, reopenChannel,            *)
(* waitForConnected and the subscription callback).                         *)
THEOREM Pursuit == Spec => []NobodyWaitsInVain
<1>1. PInv => NobodyWaitsInVain
  BY DEF PInv, TypeOK, ChannelInv, PursuitInv, NobodyWaitsInVain, Underway, Pursued
<1>2. QED
  BY <1>1, PursuitInit, PursuitStep, PTL DEF Spec

-----------------------------------------------------------------------------
(* The invariant behind SignalsAreFresh.                                    *)
FInv == PInv /\ PresenceInv /\ RoomInv

(* What of the connection this invariant depends on.                        *)
SameRooms(l, k) == k.user = l.user /\ k.next = l.next /\ k.connect = l.connect

(* The types of what the invariant compares.                                *)
LEMMA FreshTypes ==
    ASSUME TypeOK
    PROVE  /\ view.seen \in Nat /\ view.newest \in Nat /\ view.departed \in Nat
           /\ remote.at \in Nat /\ remote.clock \in Nat /\ remote.room \in Rooms
           /\ \A m \in remote.wire : m.at \in Nat /\ m.session \in Nat /\ m.room \in Rooms
           /\ \A c \in Channels : ch[c].peer \in Nat
           /\ link.next \in Rooms /\ link.room \in Rooms \cup {None}
           /\ link.channel \in Channels \cup {None}
BY DEF TypeOK, View, Remotes, Message, Channel, Link

(* Steps that leave the peer alone, and after which the provider knows no   *)
(* newer session, keep what presence is known to show.                      *)
LEMMA PresenceFrame ==
    ASSUME FInv, remote' = remote, view'.newest = view.newest,
           view'.seen \in {None, view.newest},
           link'.channel # None => ch'[link'.channel].peer \in {None, view.newest},
           \/ link'.channel = None
           \/ /\ link.channel # None /\ link'.room = link.room
              /\ view'.departed = view.departed /\ (view'.seen = None => view.seen = None)
           \/ \A m \in remote.wire : m.room # link'.room
    PROVE  PresenceInv'
<1>1. PresenceInv
  BY DEF FInv
<1>2. ASSUME NEW m \in remote.wire
      PROVE  link'.channel # None /\ view'.seen = None /\ m.room = link'.room
               /\ (view'.departed # None => m.at > view'.departed) => m.session >= view.newest
  BY <1>1 DEF PresenceInv
<1>3. QED
  BY <1>1, <1>2 DEF PresenceInv

(* Steps by which no channel enters a room and nothing is sent keep what    *)
(* rooms were not heard.                                                    *)
LEMMA RoomFrame ==
    ASSUME FInv, remote'.wire \subseteq remote.wire,
           \A c \in Channels : ch'[c].room \in {None, ch[c].room},
           SameRooms(link, link'), link'.room \in {None, link.room}
    PROVE  RoomInv'
<1>1. \A r \in Rooms : Unheard(r) => Unheard(r)'
  BY DEF Unheard
<1>2. link.next \in Rooms
  BY FreshTypes DEF FInv, PInv
<1>3. QED
  BY <1>1, <1>2 DEF FInv, RoomInv, SameRooms, Unheard

(* reconcilePresence() learns of no newer session than one it knows.        *)
LEMMA ReconcileFields ==
    ASSUME FInv
    PROVE  /\ Reconcile(view, link).newest = view.newest
           /\ Reconcile(view, link).seen \in {None, view.newest}
           /\ Reconcile(view, link).departed = view.departed
           /\ Reconcile(view, link).processed = view.processed
           /\ Reconcile(view, link).seen = None => view.seen = None
<1>1. view \in View /\ view.seen \in {None, view.newest} /\ view.newest \in Nat
  BY FreshTypes DEF FInv, PInv, TypeOK, PresenceInv
<1>2. CASE link.channel = None \/ ~Named(link)
  BY <1>1, <1>2 DEF Reconcile
<1>3. CASE ~(link.channel = None \/ ~Named(link))
  <2> DEFINE p == ch[link.channel].peer
  <2>1. p \in {None, view.newest} /\ Reconcile(view, link) = Reconciled(view, p)
    BY <1>3 DEF FInv, PresenceInv, Reconcile
  <2> HIDE DEF p
  <2>2. CASE p = None
    BY <1>1, <2>1, <2>2 DEF Reconciled, View
  <2>3. CASE p # None
    <3>1. view.seen \in {None, p} /\ ~(p > view.newest)
      BY <1>1, <2>1, <2>3
    <3>2. Reconciled(view, p) = [view EXCEPT !.leaving = FALSE, !.seen = p,
                                             !.departed = view.departed, !.newest = view.newest]
      BY <2>3, <3>1 DEF Reconciled
    <3>3. QED
      BY <1>1, <2>1, <2>3, <3>2 DEF View
  <2>4. QED
    BY <2>2, <2>3
<1>4. QED
  BY <1>2, <1>3

(* A channel that was given up is in its room, or gone.                     *)
LEMMA OrphanRoom ==
    ASSUME TypeOK, NEW c \in Channels, NEW o \in Orphans(c) \cup {Removed(c)}
    PROVE  o.room \in {None, ch[c].room}
<1>1. Removed(c).room = None
  BY DEF Removed, NoChannel
<1>2. [ch[c] EXCEPT !.state = "joined", !.peer = None].room = ch[c].room
  BY DEF TypeOK, Channel
<1>3. QED
  BY <1>1, <1>2 DEF Orphans

(* connect(), disconnect() and what they wait for.                          *)
LEMMA SessionFresh ==
    ASSUME FInv, Session \/ \E c \in Channels, answers \in BOOLEAN : Disconnected(c, answers)
    PROVE  PresenceInv' /\ RoomInv'
<1>1. /\ link \in Link /\ view \in View /\ ch \in [Channels -> Channel]
      /\ view.seen \in {None, view.newest}
  BY DEF FInv, PInv, TypeOK, PresenceInv
<1>2. /\ ViewOfConnect(view).newest = view.newest /\ ViewOfConnect(view).seen = view.seen
      /\ ViewOfClosed(view).newest = view.newest /\ ViewOfClosed(view).seen = None
      /\ ViewOfClosed(view) \in View
  BY <1>1 DEF ViewOfConnect, ViewOfClosed, View
<1>3. CASE Connect
  <2>1. link.user = "new" /\ link.channel = None /\ link.room = None /\ link.next = 1
    BY <1>3 DEF Connect, FInv, PInv, ChannelInv, SessionInv, Named
  <2> DEFINE l == Digesting(link)
  <2>2. l \in Link /\ l.channel = None /\ l.room = None /\ l.next = 1 /\ l.connect = "digest"
        /\ link' = [l EXCEPT !.user = "joining"] /\ view' = ViewOfConnect(view)
        /\ UNCHANGED <<ch, remote>>
    BY <1>1, <1>3, <2>1, DigestingFields DEF Connect
  <2> HIDE DEF l
  <2>3. link'.channel = None /\ link'.room = None /\ link'.next = 1 /\ link'.user = "joining"
    BY <2>2 DEF Link
  <2>4. RoomInv'
    BY <2>1, <2>2, <2>3 DEF FInv, RoomInv, Unheard
  <2>5. PresenceInv'
    BY <1>1, <1>2, <2>2, <2>3, PresenceFrame
  <2>6. QED
    BY <2>4, <2>5
<1>4. CASE Rotate
  <2>1. link.channel # None /\ link.next = 1 /\ link.user = "in"
    BY <1>4 DEF Rotate, FInv, PInv, SessionInv
  <2> DEFINE l == Closing(link, "disconnect")
  <2>2. l \in Link /\ l.channel = None /\ l.user = "in"
        /\ link' = [l EXCEPT !.next = 2] /\ view' = ViewOfConnect(view) /\ UNCHANGED <<ch, remote>>
    BY <1>1, <1>4, <2>1, ClosingFields DEF Rotate
  <2> HIDE DEF l
  <2>3. link'.channel = None /\ link'.next = 2 /\ link'.user = "in"
    BY <2>2 DEF Link
  <2>4. RoomInv'
    BY <2>1, <2>2, <2>3 DEF FInv, RoomInv, Unheard
  <2>5. PresenceInv'
    BY <1>1, <1>2, <2>2, <2>3, PresenceFrame
  <2>6. QED
    BY <2>4, <2>5
<1>5. CASE Subscribe
  <2>1. PICK c \in NextFree :
          /\ ch' = [ch EXCEPT ![c] = Opened("connect", link.next)]
          /\ link' = [link EXCEPT !.connect = "no", !.room = link.next, !.channel = c,
                                  !.pending = c]
    BY <1>5 DEF Subscribe
  <2>2. UNCHANGED <<view, remote>> /\ link.connect = "digest" /\ c \in Channels
        /\ link.next \in Rooms
    BY <1>1, <1>5, FreeChannel DEF Subscribe, Link
  <2>3. link'.channel = c /\ link'.room = link.next /\ link'.next = link.next
        /\ link'.user = link.user /\ link'.connect = "no"
    BY <1>1, <2>1 DEF Link
  <2>4. ch'[c].peer = None /\ ch'[c].room = link.next
        /\ \A d \in Channels : d # c => ch'[d] = ch[d]
    BY <1>1, <2>1, <2>2 DEF Opened, NoChannel
  <2>5. Unheard(link.next) /\ link.user # "new" /\ (link.next = 1 => Unheard(2))
    BY <2>2 DEF FInv, RoomInv, PInv, SessionInv
  <2>6. PresenceInv'
    BY <1>1, <2>2, <2>3, <2>4, <2>5, PresenceFrame DEF Unheard
  <2>7. RoomInv'
    BY <2>2, <2>3, <2>4, <2>5 DEF RoomInv, Unheard
  <2>8. QED
    BY <2>6, <2>7
<1>6. CASE ConnectTimeout
  <2> DEFINE l == Rejecting(link)
  <2>1. l \in Link /\ l.channel = link.channel /\ l.room = link.room /\ l.next = link.next
        /\ l.connect = link.connect /\ l.user = (IF link.user = "joining" THEN "failed" ELSE link.user)
        /\ link' = [l EXCEPT !.status = "error"] /\ UNCHANGED <<ch, view, remote>>
    BY <1>1, <1>6, RejectingFields DEF ConnectTimeout
  <2> HIDE DEF l
  <2>2. link'.channel = link.channel /\ link'.room = link.room /\ link'.next = link.next
        /\ link'.connect = link.connect /\ (link'.user = "new" => link.user = "new")
    BY <2>1 DEF Link
  <2>3. PresenceInv'
    BY <1>1, <2>1, <2>2, PresenceFrame DEF FInv, PresenceInv
  <2>4. RoomInv'
    BY <2>1, <2>2 DEF FInv, RoomInv, Unheard
  <2>5. QED
    BY <2>3, <2>4
<1>7. CASE Leave
  <2>1. UNCHANGED <<ch, remote>>
    BY <1>7 DEF Leave
  <2>2. view'.newest = view.newest /\ view'.seen \in {None, view.newest}
    <3> DEFINE w == ViewOfConnect(view)
    <3>1. w \in View /\ w.newest = view.newest /\ w.seen = view.seen
      BY <1>1 DEF ViewOfConnect, View
    <3>2. view' = [w EXCEPT !.seen = IF link.channel = None THEN None ELSE @,
                            !.processed = IF link.channel = None THEN {} ELSE @]
      BY <1>7 DEF Leave
    <3> HIDE DEF w
    <3>3. QED
      BY <1>1, <3>1, <3>2 DEF View
  <2>3. link'.channel = None /\ link'.next = link.next /\ link'.connect = link.connect
        /\ link'.user = "left" /\ link'.room \in {None, link.room}
    <3>1. CASE link.channel = None
      <4> DEFINE l == [link EXCEPT !.timer = FALSE, !.attempts = 0]
                 k == Closed(l)
      <4>1. link' = [k EXCEPT !.user = "left"]
        BY <1>7, <3>1 DEF Leave
      <4>2. 0 \in 0..MaxBackoff
        BY SignalingAssumption
      <4>3. l \in Link
        BY <1>1, <4>2 DEF Link
      <4>4. l.channel = None /\ l.next = link.next /\ l.connect = link.connect
        BY <1>1, <3>1 DEF Link
      <4> HIDE DEF l
      <4>5. k \in Link /\ k.channel = None /\ k.room = None /\ k.next = link.next
            /\ k.connect = link.connect
        BY <4>3, <4>4, ClosedFields
      <4> HIDE DEF k
      <4>6. QED
        BY <4>1, <4>5 DEF Link
    <3>2. CASE link.channel # None
      <4> DEFINE l == Closing(link, link.connect)
      <4>1. link' = [l EXCEPT !.user = "left"] /\ link.connect \in {"no", "disconnect", "digest"}
        BY <1>1, <1>7, <3>2 DEF Leave, Link
      <4>2. l \in Link /\ l.channel = None /\ l.room = link.room /\ l.next = link.next
            /\ l.connect = link.connect
        BY <1>1, <3>2, <4>1, ClosingFields
      <4> HIDE DEF l
      <4>3. QED
        BY <4>1, <4>2 DEF Link
    <3>3. QED
      BY <3>1, <3>2
  <2>4. PresenceInv'
    BY <2>1, <2>2, <2>3, PresenceFrame
  <2>5. RoomInv'
    BY <2>1, <2>3, FreshTypes DEF FInv, PInv, RoomInv, Unheard
  <2>6. QED
    BY <2>4, <2>5
<1>8. CASE ReconnectTimer
  <2>1. link'.channel = link.channel /\ link'.room = link.room /\ SameRooms(link, link')
        /\ UNCHANGED <<ch, view, remote>>
    BY <1>1, <1>8 DEF ReconnectTimer, Link, SameRooms
  <2>2. PresenceInv'
    BY <1>1, <2>1, PresenceFrame DEF FInv, PresenceInv
  <2>3. RoomInv'
    BY <2>1, RoomFrame
  <2>4. QED
    BY <2>2, <2>3
<1>9. ASSUME NEW c \in Channels, NEW answers \in BOOLEAN, Disconnected(c, answers)
      PROVE  PresenceInv' /\ RoomInv'
  <2>1. PICK o \in Orphans(c) \cup {Removed(c)} : ch' = [ch EXCEPT ![c] = o]
    BY <1>9 DEF Disconnected, Removal
  <2>2. o.room \in {None, ch[c].room}
    BY <2>1, OrphanRoom DEF FInv, PInv
  <2>3. link.channel = None /\ UNCHANGED remote
    BY <1>1, <1>9 DEF Disconnected, FInv, PInv, ChannelInv
  <2> DEFINE e == [link EXCEPT !.closing = @ \ {c}]
             l == Closed(e)
  <2>4. link' = (IF link.connect = "disconnect" THEN Digesting(l) ELSE l)
    BY <1>9 DEF Disconnected
  <2>5. e \in Link /\ e.channel = None /\ e.connect = link.connect /\ e.user = link.user
        /\ e.next = link.next
    BY <1>1, <2>3 DEF Link
  <2> HIDE DEF e
  <2>6. l \in Link /\ l.channel = None /\ l.room = None /\ l.connect = link.connect
        /\ l.user = link.user /\ l.next = link.next
    BY <2>5, ClosedFields
  <2> HIDE DEF l
  <2>7. link'.channel = None /\ link'.room = None /\ link'.user = link.user
        /\ link'.next = link.next /\ (link'.connect # "no" => link.connect # "no")
    BY <2>4, <2>6, DigestingFields
  <2>8. view'.newest = view.newest /\ view'.seen = None
    BY <1>2, <1>9 DEF Disconnected, ViewOfConnect, View
  <2>9. PresenceInv'
    BY <2>3, <2>7, <2>8, PresenceFrame
  <2>10. \A r \in Rooms : Unheard(r) => Unheard(r)'
    BY <1>1, <2>1, <2>2, <2>3 DEF Unheard
  <2>11. RoomInv'
    BY <1>1, <2>7, <2>10, FreshTypes DEF FInv, PInv, RoomInv, Unheard
  <2>12. QED
    BY <2>9, <2>11
<1>10. QED
  BY <1>3, <1>4, <1>5, <1>6, <1>7, <1>8, <1>9 DEF Session

(* reopenChannel() gives the new channel the room of the one it replaces.   *)
LEMMA ReopeningFresh ==
    ASSUME FInv, Reopening
    PROVE  PresenceInv' /\ RoomInv'
<1>1. /\ link \in Link /\ ch \in [Channels -> Channel] /\ view.seen \in {None, view.newest}
      /\ UNCHANGED <<view, remote>>
  BY DEF FInv, PInv, TypeOK, PresenceInv, Reopening, Reopen, ReopenFails
<1>2. ASSUME NEW r \in link.reopening, NEW answers \in BOOLEAN, Reopen(r, answers)
      PROVE  PresenceInv' /\ RoomInv'
  <2> DEFINE c == r[1]
             told == answers /\ ch[c].state # "none" /\ c = link.channel /\ ~link.disconnecting
             t == IF told THEN ToldClosed(link, c) ELSE link
             l == [t EXCEPT !.reopening = @ \ {r}]
  <2>1. PICK o \in Orphans(c) \cup {Removed(c)} :
          IF ReopensAt(l)
          THEN \E d \in NextFree :
                 /\ link' = [l EXCEPT !.channel = d]
                 /\ ch' = [Superseded(c) EXCEPT ![c] = o, ![d] = Opened("reopen", link.room)]
          ELSE link' = l /\ ch' = [ch EXCEPT ![c] = o]
    BY <1>2 DEF Reopen
  <2>2. c \in Channels /\ c # None
    BY <1>1, SignalingAssumption DEF Link
  <2>3. o.room \in {None, ch[c].room}
    BY <2>1, <2>2, OrphanRoom DEF FInv, PInv
  <2>4. t \in Link /\ Kept(link, t)
    BY <1>1, <2>2, ToldClosedFields DEF Kept
  <2> HIDE DEF t
  <2>5. /\ l \in Link /\ l.channel = link.channel /\ l.room = link.room
        /\ l.disconnecting = link.disconnecting /\ SameRooms(link, l)
    BY <2>4 DEF Link, Kept, SameRooms
  <2> HIDE DEF l, c
  <2>6. CASE ReopensAt(l)
    <3>1. PICK d \in NextFree :
            /\ link' = [l EXCEPT !.channel = d]
            /\ ch' = [Superseded(c) EXCEPT ![c] = o, ![d] = Opened("reopen", link.room)]
      BY <2>1, <2>6
    <3>2. Named(link) /\ link.channel \in Channels /\ link.channel # None /\ link.room \in Rooms
      BY <1>1, <2>5, <2>6 DEF ReopensAt, Named, FInv, PInv, ChannelInv, Link
    <3>3. d \in Channels /\ d # c
      BY FreeChannel DEF c
    <3>4. link'.channel = d /\ link'.room = link.room /\ SameRooms(link, link')
      BY <2>5, <3>1 DEF Link, SameRooms
    <3>5. DOMAIN Superseded(c) = Channels
          /\ \A e \in Channels : Superseded(c)[e].room = ch[e].room
      BY <1>1, <3>2 DEF Superseded, Channel
    <3>6. Opened("reopen", link.room).peer = None /\ Opened("reopen", link.room).room = link.room
      BY DEF Opened, NoChannel
    <3>7. ch'[d].peer = None /\ ch'[d].room = link.room
          /\ \A e \in Channels : e # d => ch'[e].room \in {None, ch[e].room}
      BY <2>2, <2>3, <3>1, <3>3, <3>5, <3>6
    <3>8. PresenceInv'
      BY <1>1, <3>2, <3>4, <3>7, PresenceFrame
    <3>9. link.user # "new" /\ link.connect = "no"
      BY <1>1, <3>2 DEF FInv, PInv, SessionInv, ChannelInv, Named, Link
    <3>10. link.next = 1 => link.room = 1
      BY <3>2 DEF FInv, RoomInv
    <3>11. RoomInv'
      BY <1>1, <3>4, <3>7, <3>9, <3>10 DEF FInv, RoomInv, Unheard, SameRooms
    <3>12. QED
      BY <3>8, <3>11
  <2>7. CASE ~ReopensAt(l)
    <3>1. link' = l /\ ch' = [ch EXCEPT ![c] = o]
      BY <2>1, <2>7
    <3>2. link.channel = None
      BY <2>5, <2>7 DEF ReopensAt, Named, FInv, PInv, ChannelInv
    <3>3. PresenceInv'
      BY <1>1, <2>5, <3>1, <3>2, PresenceFrame
    <3>4. RoomInv'
      BY <1>1, <2>2, <2>3, <2>5, <3>1, RoomFrame
    <3>5. QED
      BY <3>3, <3>4
  <2>8. QED
    BY <2>6, <2>7
<1>3. ASSUME NEW r \in link.reopening, ReopenFails(r)
      PROVE  PresenceInv' /\ RoomInv'
  <2> DEFINE l == [link EXCEPT !.reopening = @ \ {r}]
  <2>1. l \in Link /\ l.channel = link.channel /\ l.room = link.room /\ SameRooms(link, l)
        /\ link' = Reconnecting(l) /\ UNCHANGED ch
    BY <1>1, <1>3 DEF Link, ReopenFails, SameRooms
  <2> HIDE DEF l
  <2>2. link'.channel = link.channel /\ link'.room = link.room /\ SameRooms(link, link')
    BY <2>1, ReconnectingFields DEF Kept, SameRooms
  <2>3. PresenceInv'
    BY <1>1, <2>1, <2>2, PresenceFrame DEF FInv, PresenceInv
  <2>4. RoomInv'
    BY <1>1, <2>1, <2>2, RoomFrame
  <2>5. QED
    BY <2>3, <2>4
<1>4. QED
  BY <1>2, <1>3 DEF Reopening

(* What the service does to a channel changes no room.                      *)
LEMMA ChannelFresh ==
    ASSUME FInv, NEW c \in Channels, Joins(c) \/ Breaks(c) \/ Tracked(c) \/ TrackFails(c)
    PROVE  PresenceInv' /\ RoomInv'
<1>1. /\ link \in Link /\ ch \in [Channels -> Channel] /\ view.seen \in {None, view.newest}
      /\ link.channel \in Channels \cup {None} /\ c # None
      /\ link.channel # None => ch[link.channel].peer \in {None, view.newest}
  BY SignalingAssumption DEF FInv, PInv, TypeOK, PresenceInv, Link
<1>2. link'.channel = link.channel /\ link'.room = link.room
      /\ (link'.user = "new" => link.user = "new")
      /\ link'.next = link.next /\ link'.connect = link.connect
  <2>1. CASE Joins(c)
    BY <1>1, <2>1 DEF Joins, Link
  <2>2. CASE Breaks(c)
    <3> DEFINE k == Rejecting(link)
    <3>1. CASE link' = [k EXCEPT !.status = "error"]
      <4>1. k \in Link /\ k.channel = link.channel /\ k.room = link.room /\ k.next = link.next
            /\ k.connect = link.connect /\ (k.user = "new" => link.user = "new")
        BY <1>1, RejectingFields
      <4> HIDE DEF k
      <4>2. QED
        BY <3>1, <4>1 DEF Link
    <3>2. CASE link' = link \/ link' = ToldClosed(link, c)
      BY <1>1, <3>2, ToldClosedFields DEF Kept
    <3>3. QED
      BY <2>2, <3>1, <3>2 DEF Breaks
  <2>3. CASE Tracked(c)
    BY <1>1, <2>3 DEF Tracked, Resolved, Link
  <2>4. CASE TrackFails(c)
    BY <1>1, <2>4, RejectingFields, ReconnectingFields DEF TrackFails, Kept
  <2>5. QED
    BY <2>1, <2>2, <2>3, <2>4
<1>3. /\ remote' = remote /\ view'.newest = view.newest /\ view'.seen \in {None, view.newest}
      /\ view'.departed = view.departed /\ (view'.seen = None => view.seen = None)
  BY <1>1, ReconcileFields DEF Joins, Breaks, Tracked, TrackFails
<1>4. \A d \in Channels : /\ ch'[d].room \in {None, ch[d].room}
                          /\ ch[d].state # "none" => ch'[d].peer \in {None, ch[d].peer}
  <2>1. CASE Joins(c) \/ Breaks(c)
    BY <1>1, <2>1 DEF Joins, Breaks, Channel
  <2>2. CASE Tracked(c) \/ TrackFails(c)
    <3>1. Answered(c).room \in {None, ch[c].room}
          /\ (ch[c].state # "none" => Answered(c).peer = ch[c].peer)
      BY <1>1 DEF Answered, NoChannel, Channel
    <3>2. ch' = [ch EXCEPT ![c] = Answered(c)]
      BY <2>2 DEF Tracked, TrackFails
    <3>3. QED
      BY <1>1, <3>1, <3>2
  <2>3. QED
    BY <2>1, <2>2
<1>5. link'.channel # None => ch'[link'.channel].peer \in {None, view.newest}
  BY <1>1, <1>2, <1>4 DEF FInv, PInv, ChannelInv
<1>6. PresenceInv'
  BY <1>2, <1>3, <1>5, PresenceFrame
<1>7. RoomInv'
  BY <1>2, <1>3, <1>4, FreshTypes DEF FInv, PInv, RoomInv, Unheard
<1>8. QED
  BY <1>6, <1>7

(* The broadcasts change neither.                                           *)
LEMMA SenderFresh ==
    ASSUME FInv, NEW s \in Senders, Sender(s)
    PROVE  PresenceInv' /\ RoomInv'
<1>1. link \in Link /\ view.seen \in {None, view.newest} /\ UNCHANGED <<ch, view, remote>>
  BY DEF FInv, PInv, TypeOK, PresenceInv, Sender, Broadcast, Attempt, Sent, SendFails,
         WaiterTimeout
<1>2. Kept(link, link')
  <2>1. Kept(link, link) /\ Kept(link, Scheduled(link))
    BY <1>1, ScheduledFields DEF Kept
  <2> DEFINE l == Reconnecting(link)
  <2>2. l \in Link /\ Kept(link, l)
    BY <1>1, ReconnectingFields
  <2> HIDE DEF l
  <2>3. Kept(link, Scheduled(l))
    BY <2>2, ScheduledFields DEF Kept
  <2>4. link' \in {link, Scheduled(link), l, Scheduled(l)}
    BY DEF Sender, Broadcast, Attempt, Sent, SendFails, WaiterTimeout, WaitForConnected, l
  <2>5. QED
    BY <2>1, <2>2, <2>3, <2>4
<1>3. PresenceInv'
  BY <1>1, <1>2, PresenceFrame DEF FInv, PresenceInv, Kept
<1>4. RoomInv'
  BY <1>1, <1>2, RoomFrame DEF Kept, SameRooms
<1>5. QED
  BY <1>3, <1>4

(* What the peer does: a new session is newer than all, and what is sent    *)
(* comes from the session that is there.                                    *)
LEMMA PeerFresh ==
    ASSUME FInv,
           \/ \E room \in Rooms : RemoteJoins(room)
           \/ RemoteLeaves \/ \E targeted \in BOOLEAN : RemoteSends(targeted)
    PROVE  PresenceInv' /\ RoomInv'
<1>1. /\ remote \in Remotes /\ remote.at \in Nat /\ remote.clock \in Nat /\ view.newest \in Nat
      /\ \A m \in remote.wire : m.at \in Nat /\ m.session \in Nat
      /\ UNCHANGED <<link, ch, view>>
  BY FreshTypes DEF FInv, PInv, TypeOK, RemoteJoins, RemoteLeaves, RemoteSends
<1>2. PresenceInv
  BY DEF FInv
<1>3. ASSUME remote'.clock = remote.clock + 1, remote'.wire = remote.wire,
             remote'.at \in {None, remote.clock + 1}
      PROVE  PresenceInv' /\ RoomInv'
  <2>1. PresenceInv'
    BY <1>1, <1>2, <1>3 DEF PresenceInv
  <2>2. RoomInv'
    BY <1>1, <1>3 DEF FInv, RoomInv, Unheard
  <2>3. QED
    BY <2>1, <2>2
<1>4. CASE \E room \in Rooms : RemoteJoins(room)
  BY <1>1, <1>3, <1>4 DEF RemoteJoins, Remotes
<1>5. CASE RemoteLeaves
  BY <1>1, <1>3, <1>5 DEF RemoteLeaves, Remotes
<1>6. ASSUME NEW targeted \in BOOLEAN, RemoteSends(targeted) PROVE PresenceInv' /\ RoomInv'
  <2> DEFINE new == {[at |-> remote.clock + 1, session |-> remote.at, room |-> remote.room,
                      targeted |-> targeted, c |-> c] :
                        c \in {d \in Channels : ch[d].state = "joined" /\ ch[d].room = remote.room}}
  <2>1. remote.at # None /\ remote' = [remote EXCEPT !.clock = @ + 1, !.wire = @ \cup new]
    BY <1>6 DEF RemoteSends
  <2>2. \A m \in new : /\ m.at = remote.clock + 1 /\ m.session = remote.at
                       /\ \E c \in Channels : ch[c].room = m.room
    OBVIOUS
  <2> HIDE DEF new
  <2>3. remote'.clock = remote.clock + 1 /\ remote'.wire = remote.wire \cup new
        /\ remote'.at = remote.at
    BY <1>1, <2>1 DEF Remotes
  <2>4. view.newest <= remote.at
    BY <1>2, <2>1 DEF PresenceInv
  <2>5. ASSUME NEW m \in remote'.wire
        PROVE  /\ m.at <= remote'.clock
               /\ m.at >= view.newest => m.session >= view.newest
               /\ m.at >= remote.at => m.session >= remote.at
               /\ link.channel # None /\ view.seen = None /\ m.room = link.room
                    /\ (view.departed # None => m.at > view.departed) => m.session >= view.newest
               /\ \A n \in remote'.wire : m.at = n.at => m.session = n.session
    <3>1. CASE m \in new
      <4>1. \A n \in remote.wire : n.at <= remote.clock
        BY <1>2 DEF PresenceInv
      <4>2. QED
        BY <1>1, <2>2, <2>3, <2>4, <3>1, <4>1
    <3>2. CASE m \in remote.wire
      <4>1. m.at <= remote.clock
        BY <1>2, <3>2 DEF PresenceInv
      <4>2. QED
        BY <1>1, <1>2, <2>2, <2>3, <3>2, <4>1 DEF PresenceInv
    <3>3. QED
      BY <2>3, <2>5, <3>1, <3>2
  <2>6. PresenceInv'
    BY <1>1, <1>2, <2>3, <2>5 DEF PresenceInv
  <2>7. \A r \in Rooms : Unheard(r) => Unheard(r)'
    BY <1>1, <2>2, <2>3 DEF Unheard
  <2>8. RoomInv'
    BY <1>1, <2>7, FreshTypes DEF FInv, PInv, RoomInv
  <2>9. QED
    BY <2>6, <2>8
<1>7. QED
  BY <1>4, <1>5, <1>6

(* A presence sync shows the session that is there, the newest one.         *)
LEMMA SyncFresh ==
    ASSUME FInv, NEW c \in Channels, Sync(c)
    PROVE  PresenceInv' /\ RoomInv'
<1>1. /\ link \in Link /\ view \in View /\ link.channel \in Channels \cup {None}
      /\ view.seen \in {None, view.newest} /\ view.newest \in Nat
      /\ remote.at \in Nat /\ c # None /\ UNCHANGED <<link, remote>>
      /\ \A m \in remote.wire : m.at \in Nat /\ m.session \in Nat
  BY FreshTypes, SyncFields, SignalingAssumption DEF FInv, PInv, TypeOK, PresenceInv
<1>2. /\ ch' \in [Channels -> Channel]
      /\ \A d \in Channels : /\ ch'[d].room = ch[d].room
                             /\ ch'[d].peer = IF d = c /\ c = link.channel
                                              THEN Shown(c) ELSE ch[d].peer
  BY SyncFields DEF FInv, PInv
<1>3. RoomInv'
  BY <1>1, <1>2, RoomFrame DEF SameRooms
<1>4. CASE c # link.channel
  <2>1. view' = Reconcile(view, link)
    BY <1>4 DEF Sync
  <2>2. QED
    BY <1>1, <1>2, <1>3, <1>4, <2>1, ReconcileFields, PresenceFrame DEF FInv, PresenceInv
<1>5. CASE c = link.channel
  <2>1. Named(link) /\ view' = Reconciled(view, Shown(c)) /\ ch'[c].peer = Shown(c)
    BY <1>1, <1>2, <1>5 DEF Sync, FInv, PInv, ChannelInv
  <2>2. CASE Shown(c) = None
    <3>1. view'.newest = view.newest /\ view'.seen = view.seen /\ view'.departed = view.departed
      BY <1>1, <2>1, <2>2 DEF Reconciled, View
    <3>2. PresenceInv'
      BY <1>1, <1>2, <1>5, <2>1, <2>2, <3>1, PresenceFrame
    <3>3. QED
      BY <1>3, <3>2
  <2>3. CASE Shown(c) # None
    <3>1. Shown(c) = remote.at /\ remote.at # None /\ view.newest <= remote.at
      BY <2>3 DEF Shown, FInv, PresenceInv
    <3> DEFINE d == IF view.seen \in {None, remote.at} THEN view.departed
                    ELSE IF remote.at > remote.clock THEN remote.at ELSE remote.clock
               n == IF remote.at > view.newest THEN remote.at ELSE view.newest
    <3>2. view' = [view EXCEPT !.leaving = FALSE, !.seen = remote.at, !.departed = d, !.newest = n]
      BY <2>1, <3>1 DEF Reconciled
    <3>3. n = remote.at
      BY <1>1, <3>1
    <3> HIDE DEF d, n
    <3>4. view'.seen = remote.at /\ view'.newest = remote.at
      BY <1>1, <3>2, <3>3 DEF View
    <3>5. PresenceInv'
      BY <1>1, <1>5, <2>1, <3>1, <3>4 DEF FInv, PresenceInv
    <3>6. QED
      BY <1>3, <3>5
  <2>4. QED
    BY <2>2, <2>3
<1>6. QED
  BY <1>4, <1>5

(* The grace period, and what is delivered or lost.                         *)
LEMMA DeliveryFresh ==
    ASSUME FInv, GraceEnds \/ \E m \in remote.wire : Receive(m) \/ Lose(m)
    PROVE  PresenceInv' /\ RoomInv'
<1>1. /\ view \in View /\ remote \in Remotes /\ UNCHANGED <<link, ch>>
      /\ view.newest \in Nat /\ remote.clock \in Nat
      /\ \A m \in remote.wire : m.at \in Nat /\ m.session \in Nat
      /\ view.seen \in {None, view.newest} /\ view.newest <= remote.clock
  BY FreshTypes DEF FInv, PInv, TypeOK, PresenceInv, GraceEnds, Receive, Lose
<1>2. CASE GraceEnds
  <2>1. view'.newest = view.newest /\ view'.seen = None /\ view'.departed = remote.clock
        /\ remote' = remote
    BY <1>1, <1>2 DEF GraceEnds, View
  <2>2. PresenceInv'
    BY <1>1, <2>1 DEF FInv, PresenceInv
  <2>3. RoomInv'
    BY <1>1, <2>1, RoomFrame DEF SameRooms
  <2>4. QED
    BY <2>2, <2>3
<1>3. ASSUME NEW m \in remote.wire, Receive(m) \/ Lose(m) PROVE PresenceInv' /\ RoomInv'
  <2>1. /\ remote'.wire \subseteq remote.wire /\ remote'.clock = remote.clock
        /\ remote'.at = remote.at
    BY <1>1, <1>3 DEF Receive, Lose, Remotes
  <2>2. /\ view'.newest = view.newest /\ view'.seen \in {None, view.newest}
        /\ view'.departed = view.departed /\ (view'.seen = None => view.seen = None)
    <3>1. CASE view' = view
      BY <1>1, <3>1
    <3>2. CASE Receive(m) /\ view' # view
      <4> DEFINE v == IF view.seen = None THEN Reconcile(view, link) ELSE view
      <4>1. view' \in {v, [v EXCEPT !.processed = @ \cup {m.at}]}
        BY <3>2 DEF Receive
      <4>2. /\ v \in View /\ v.newest = view.newest /\ v.seen \in {None, view.newest}
            /\ v.departed = view.departed /\ (v.seen = None => view.seen = None)
        BY <1>1, ReconcileFields, ViewTypes DEF FInv, PInv
      <4> HIDE DEF v
      <4>3. QED
        BY <4>1, <4>2 DEF View
    <3>3. QED
      BY <1>3, <3>1, <3>2 DEF Lose
  <2>3. PresenceInv'
    BY <1>1, <2>1, <2>2 DEF FInv, PresenceInv
  <2>4. RoomInv'
    BY <1>1, <2>1, RoomFrame DEF SameRooms
  <2>5. QED
    BY <2>3, <2>4
<1>4. QED
  BY <1>2, <1>3

LEMMA FreshInit ==
    ASSUME Init
    PROVE  FInv
<1>1. NoChannel.room = None /\ NoChannel.peer = None
  BY DEF NoChannel
<1>2. PresenceInv
  BY DEF Init, PresenceInv
<1>3. RoomInv
  BY <1>1 DEF Init, RoomInv, Unheard
<1>4. QED
  BY <1>2, <1>3, PursuitInit DEF FInv

LEMMA FreshStep ==
    ASSUME FInv, [Next]_vars
    PROVE  FInv'
<1>1. CASE UNCHANGED vars
  BY <1>1, PursuitStep DEF vars, FInv, PresenceInv, RoomInv, Unheard
<1>2. CASE Session \/ Reopening
  BY <1>2, SessionFresh, ReopeningFresh, PursuitStep DEF FInv
<1>3. CASE Remote
  BY <1>3, PeerFresh, DeliveryFresh, PursuitStep DEF FInv, Remote
<1>4. ASSUME NEW c \in Channels, OnChannel(c) PROVE FInv'
  BY <1>4, SessionFresh, ChannelFresh, SyncFresh, PursuitStep DEF FInv, OnChannel
<1>5. CASE \E s \in Senders : Sender(s)
  BY <1>5, SenderFresh, PursuitStep DEF FInv
<1>6. QED
  BY <1>1, <1>2, <1>3, <1>4, <1>5 DEF Next

(* The mesh hears no signal of a session that a newer one has replaced for  *)
(* it (acceptMessage and reconcilePresence), whatever channel objects,      *)
(* syncs, departures and grace periods interleave with what is delivered.   *)
THEOREM Freshness == Spec => SignalsAreFresh
<1> DEFINE Heard == ~link.disconnecting => \A m \in remote.wire :
                        m.at \in view'.processed \ view.processed => m.session >= view.newest
<1>1. FInv /\ [Next]_vars => [Heard]_vars
  <2> SUFFICES ASSUME FInv, Next, ~link.disconnecting, NEW m \in remote.wire,
                      m.at \in view'.processed, m.at \notin view.processed
               PROVE  m.session >= view.newest
    BY DEF vars
  <2>1. view \in View /\ \A c \in Channels : Reconciled(view, Shown(c)).processed = view.processed
    BY DEF FInv, PInv, TypeOK, Reconciled, View
  <2>2. Reconcile(view, link).processed = view.processed
    BY ReconcileFields
  <2>3. /\ ViewOfConnect(view).processed = view.processed /\ ViewOfConnect(view) \in View
        /\ ViewOfClosed(view).processed = {} /\ ViewOfConnect(ViewOfClosed(view)).processed = {}
    BY <2>1 DEF ViewOfConnect, ViewOfClosed, View
  <2>4. PICK n \in remote.wire : Receive(n)
    <3>1. CASE Session
      <4>1. view'.processed \subseteq view.processed
        <5>1. CASE Leave
          BY <2>3, <5>1 DEF Leave, View
        <5>2. CASE ~Leave
          BY <2>3, <3>1, <5>2 DEF Session, Connect, Rotate, Subscribe, ConnectTimeout,
                                  ReconnectTimer
        <5>3. QED
          BY <5>1, <5>2
      <4>2. QED
        BY <4>1
    <3>2. CASE Reopening
      BY <3>2 DEF Reopening, Reopen, ReopenFails
    <3>3. ASSUME NEW c \in Channels, OnChannel(c) PROVE FALSE
      BY <2>1, <2>2, <2>3, <3>3 DEF OnChannel, Joins, Breaks, Tracked, TrackFails, Sync,
                                    Disconnected
    <3>4. CASE \E s \in Senders : Sender(s)
      BY <3>4 DEF Sender, Broadcast, Attempt, Sent, SendFails, WaiterTimeout
    <3>5. CASE Remote
      <4>1. CASE GraceEnds
        BY <2>1, <4>1 DEF GraceEnds, View
      <4>2. CASE ~GraceEnds
        BY <3>5, <4>2 DEF Remote, RemoteJoins, RemoteLeaves, RemoteSends, Lose
      <4>3. QED
        BY <4>1, <4>2
    <3>6. QED
      BY <3>1, <3>2, <3>3, <3>4, <3>5 DEF Next
  <2> DEFINE v == IF view.seen = None THEN Reconcile(view, link) ELSE view
  <2>5. Named(link) /\ n.room = link.room /\ Accepts(v, n)
        /\ view' = [v EXCEPT !.processed = @ \cup {n.at}]
    BY <2>2, <2>4 DEF Receive
  <2>6. /\ v \in View /\ v.processed = view.processed /\ v.seen \in {None, view.newest}
        /\ v.departed = view.departed /\ (v.seen = None => view.seen = None)
    BY <2>1, <2>2, ReconcileFields, ViewTypes DEF FInv, PInv, PresenceInv
  <2> HIDE DEF v
  <2>7. m.at = n.at
    BY <2>5, <2>6 DEF View
  <2>8. m.session = n.session /\ link.channel # None
    BY <2>5, <2>7 DEF FInv, PInv, ChannelInv, PresenceInv
  <2>9. n.session >= view.newest
    BY <2>5, <2>6, <2>8 DEF Accepts, FInv, PresenceInv
  <2>10. QED
    BY <2>8, <2>9
<1>2. QED
  BY <1>1, FreshInit, FreshStep, PTL DEF Spec, SignalsAreFresh

(* ------------------------------------------------------------------------ *)
(* The call.  Its controller, asynchronous functions, group, joins and      *)
(* disturbances are variables of their own.                                 *)
(* ------------------------------------------------------------------------ *)
Cal == INSTANCE Call

HIDE DEF None, Rooms, Reopeners, Time, Status

(* ---- Folds over a finite set ------------------------------------------- *)
Pick(set) == CHOOSE x \in set : TRUE

LEMMA PickSmaller ==
    ASSUME NEW D, IsFiniteSet(D), NEW t \in SUBSET D, t # {}
    PROVE  /\ Pick(t) \in D /\ t \ {Pick(t)} \in SUBSET D
           /\ Cardinality(t) \in Nat /\ Cardinality(t \ {Pick(t)}) \in Nat
           /\ Cardinality(t \ {Pick(t)}) = Cardinality(t) - 1 /\ Cardinality(t) # 0
<1>1. Pick(t) \in t
  BY DEF Pick
<1>2. IsFiniteSet(t)
  BY FS_Subset
<1>3. Cardinality(t) \in Nat /\ IsFiniteSet(t \ {Pick(t)}) /\ Cardinality(t) # 0
  BY <1>2, FS_CardinalityType, FS_RemoveElement, FS_EmptySet
<1> QED
  BY <1>1, <1>2, <1>3, FS_RemoveElement, FS_CardinalityType

LEMMA LeastNat ==
    ASSUME NEW S \in SUBSET Nat, S # {}
    PROVE  \E x \in S : \A y \in S : x <= y
<1> DEFINE R == {ss \in Nat \X Nat : ss[1] < ss[2]}
<1>1. OpToRel(<, Nat) = R
  BY DEF OpToRel
<1>2. IsWellFoundedOn(R, Nat)
  BY <1>1, NatLessThanWellFounded
<1>3. PICK x \in S : \A y \in S : <<y, x>> \notin R
  BY <1>2, WFMin
<1>4. ASSUME NEW y \in S PROVE x <= y
  <2>1. x \in Nat /\ y \in Nat
    OBVIOUS
  <2>2. ~(y < x)
    BY <1>3, <2>1
  <2> QED
    BY <2>1, <2>2
<1> QED
  BY <1>4

(* What holds of the empty set, and of a set when it holds without the      *)
(* element a fold takes next, holds of every finite set.                    *)
LEMMA FoldInduction ==
    ASSUME NEW D, IsFiniteSet(D), NEW G, {} \in G,
           \A t \in SUBSET D : t # {} /\ t \ {Pick(t)} \in G => t \in G
    PROVE  D \in G
<1> DEFINE Bad == {n \in Nat : \E t \in SUBSET D : Cardinality(t) = n /\ t \notin G}
<1>1. Bad = {}
  <2> SUFFICES ASSUME Bad # {} PROVE FALSE
    OBVIOUS
  <2>1. PICK n \in Bad : \A m \in Bad : n <= m
    <3>1. Bad \in SUBSET Nat
      OBVIOUS
    <3> HIDE DEF Bad
    <3> QED
      BY <3>1, LeastNat
  <2>2. PICK t \in SUBSET D : Cardinality(t) = n /\ t \notin G
    OBVIOUS
  <2>3. t # {}
    BY <2>2
  <2> DEFINE u == t \ {Pick(t)}
  <2>4. u \in SUBSET D /\ Cardinality(u) \in Nat /\ Cardinality(u) = n - 1 /\ n # 0 /\ n \in Nat
    BY <2>2, <2>3, PickSmaller
  <2>5. u \notin G
    BY <2>2, <2>3
  <2>6. Cardinality(u) \in Bad
    BY <2>4, <2>5
  <2> HIDE DEF u, Bad
  <2>7. n <= Cardinality(u)
    BY <2>1, <2>6
  <2> QED
    BY <2>4, <2>7
<1>2. Cardinality(D) \in Nat
  BY FS_CardinalityType
<1>3. D \in SUBSET D
  OBVIOUS
<1> QED
  BY <1>1, <1>2, <1>3

(* A fold of a function that stays within a set is defined.                 *)
Folded(f, b, g, t) == g[t] = IF t = {} THEN b ELSE f[Pick(t)][g[t \ {Pick(t)}]]

LEMMA FoldExists ==
    ASSUME NEW D, IsFiniteSet(D), NEW V, NEW f \in [D -> [V -> V]], NEW b \in V
    PROVE  \E g \in [SUBSET D -> V] : \A t \in SUBSET D : Folded(f, b, g, t)
<1> DEFINE Upto(n) == {t \in SUBSET D : Cardinality(t) <= n}
           Good(n) == \E g \in [Upto(n) -> V] : \A t \in Upto(n) : Folded(f, b, g, t)
           Bad == {n \in Nat : ~Good(n)}
<1>1. \A t \in SUBSET D : IsFiniteSet(t) /\ Cardinality(t) \in Nat /\ (Cardinality(t) = 0 <=> t = {})
  BY FS_Subset, FS_CardinalityType, FS_EmptySet
<1>2. Good(0)
  <2> DEFINE g == [t \in Upto(0) |-> b]
  <2>1. \A t \in Upto(0) : t = {}
    BY <1>1
  <2>2. g \in [Upto(0) -> V] /\ \A t \in Upto(0) : Folded(f, b, g, t)
    BY <2>1 DEF Folded
  <2> QED
    BY <2>2
<1>3. ASSUME NEW m \in Nat, m # 0, Good(m - 1)
      PROVE  Good(m)
  <2>1. PICK g \in [Upto(m - 1) -> V] : \A t \in Upto(m - 1) : Folded(f, b, g, t)
    BY <1>3
  <2> DEFINE h == [t \in Upto(m) |-> IF t = {} THEN b ELSE f[Pick(t)][g[t \ {Pick(t)}]]]
  <2>2. ASSUME NEW t \in Upto(m), t # {}
        PROVE  Pick(t) \in D /\ t \ {Pick(t)} \in Upto(m - 1) /\ t \ {Pick(t)} \in Upto(m)
    BY <2>2, PickSmaller
  <2>3. h \in [Upto(m) -> V]
    <3>1. ASSUME NEW t \in Upto(m)
          PROVE  (IF t = {} THEN b ELSE f[Pick(t)][g[t \ {Pick(t)}]]) \in V
      <4>1. CASE t = {}
        BY <4>1
      <4>2. CASE t # {}
        <5>1. g[t \ {Pick(t)}] \in V /\ f[Pick(t)] \in [V -> V]
          BY <2>2, <4>2
        <5> QED
          BY <4>2, <5>1
      <4> QED
        BY <4>1, <4>2
    <3> QED
      BY <3>1
  <2>4. ASSUME NEW r \in Upto(m - 1)
        PROVE  r \in Upto(m) /\ h[r] = g[r]
    <3>1. r \in Upto(m)
      BY <1>1
    <3>2. Folded(f, b, g, r)
      BY <2>1
    <3> QED
      BY <3>1, <3>2 DEF Folded
  <2>5. ASSUME NEW t \in Upto(m)
        PROVE  Folded(f, b, h, t)
    <3>1. CASE t = {}
      BY <3>1 DEF Folded
    <3>2. CASE t # {}
      <4>1. h[t \ {Pick(t)}] = g[t \ {Pick(t)}]
        BY <2>2, <2>4, <3>2
      <4>2. h[t] = f[Pick(t)][g[t \ {Pick(t)}]]
        BY <3>2
      <4> QED
        BY <3>2, <4>1, <4>2 DEF Folded
    <3> QED
      BY <3>1, <3>2
  <2> HIDE DEF h
  <2> QED
    BY <2>3, <2>5
<1>4. Bad = {}
  <2> SUFFICES ASSUME Bad # {} PROVE FALSE
    OBVIOUS
  <2>2. PICK m \in Bad : \A n \in Bad : m <= n
    <3>1. Bad \in SUBSET Nat
      OBVIOUS
    <3> HIDE DEF Bad
    <3> QED
      BY <3>1, LeastNat
  <2>3. m \in Nat /\ ~Good(m)
    OBVIOUS
  <2> HIDE DEF Good
  <2>4. m # 0
    BY <1>2, <2>3
  <2>5. m - 1 \in Nat /\ ~(m <= m - 1)
    BY <2>3, <2>4
  <2>6. Good(m - 1)
    BY <2>2, <2>5
  <2> QED
    BY <1>3, <2>3, <2>4, <2>6
<1>5. Cardinality(D) \in Nat /\ \A t \in SUBSET D : Cardinality(t) <= Cardinality(D)
  BY FS_Subset, FS_CardinalityType
<1>6. Upto(Cardinality(D)) = SUBSET D
  BY <1>5
<1>7. Good(Cardinality(D))
  <2> HIDE DEF Good
  <2> QED
    BY <1>4, <1>5
<1> HIDE DEF Upto
<1> QED
  BY <1>6, <1>7

(* ---- The controller ----------------------------------------------------- *)

Values(f) == {f[p] : p \in Peers} \cup {0}

(* What the handlers of peers make of a controller: the same session, with  *)
(* other connections, challenges and admissions.                            *)
Made(c) ==
    [life : {c.life}, room : {c.room}, rendezvous : {c.rendezvous}, sig : {c.sig}, trans : {c.trans},
     bound : {c.bound}, ready : {c.ready}, trusted : {c.trusted}, revoked : {c.revoked},
     challenge : [Peers -> Values(c.challenge)],
     attempts : [Peers -> Values(c.attempts)],
     timer : SUBSET Peers, done : SUBSET Peers, ident : SUBSET Peers, revOnly : SUBSET Peers, pendRev : SUBSET Peers,
     link : [Cal!Sessions -> [Peers -> {"none", "new", "open", "shut"}]], media : [Cal!Sessions -> SUBSET Peers],
     wire : SUBSET c.wire, online : {c.online}, present : {c.present}, outdated : {c.outdated}]

(* The challenges and proofs on the way.                                    *)
Wired(w) == \A m \in w : m \in [type : {m.type}, n : {m.n}, peer : Peers, nonce : {m.nonce}, good : {m.good}]

Shape(c) ==
    /\ c \in Made(c)
    /\ c.life \in Nat /\ c.room \in BOOLEAN /\ c.present \subseteq Peers
    /\ Wired(c.wire)

(* Connections are only added at the transport of the session.              *)
OwnLinks(c, d) ==
    \A n \in Cal!Sessions, p \in Peers : d.link[n][p] # "none" => c.link[n][p] # "none" \/ n = c.trans

Handled(c) == {d \in Made(c) : OwnLinks(c, d)}

LEMMA HandledAgain ==
    ASSUME NEW c, Shape(c), NEW d \in Handled(c)
    PROVE  /\ Shape(d) /\ Handled(d) \subseteq Handled(c) /\ c \in Handled(c)
           /\ d.life = c.life /\ d.room = c.room /\ d.trans = c.trans /\ d.ready = c.ready /\ d.sig = c.sig
           /\ d.trusted = c.trusted /\ d.revoked = c.revoked /\ d.present = c.present /\ d.online = c.online
           /\ d.bound = c.bound /\ d.outdated = c.outdated
<1>1. d \in Made(c) /\ OwnLinks(c, d)
  BY DEF Handled
<1>2. /\ d.life = c.life /\ d.room = c.room /\ d.trans = c.trans /\ d.ready = c.ready /\ d.sig = c.sig
      /\ d.trusted = c.trusted /\ d.revoked = c.revoked /\ d.present = c.present /\ d.online = c.online
      /\ d.bound = c.bound /\ d.outdated = c.outdated /\ d.rendezvous = c.rendezvous
      /\ d.wire \subseteq c.wire
      /\ d.challenge \in [Peers -> Values(c.challenge)]
      /\ d.attempts \in [Peers -> Values(c.attempts)]
  BY <1>1 DEF Made
<1>3. d \in Made(d)
  <2>1. d.challenge \in [Peers -> Values(d.challenge)] /\ d.attempts \in [Peers -> Values(d.attempts)]
    BY <1>2 DEF Values
  <2> QED
    BY <1>1, <2>1 DEF Made
<1>4. Shape(d)
  BY <1>2, <1>3 DEF Shape, Wired
<1>5. ASSUME NEW e \in Handled(d) PROVE e \in Handled(c)
  <2>1. e \in Made(d) /\ OwnLinks(d, e)
    BY <1>5 DEF Handled
  <2>2. Values(d.challenge) \subseteq Values(c.challenge)
    BY <1>2 DEF Values
  <2>3. Values(d.attempts) \subseteq Values(c.attempts)
    BY <1>2 DEF Values
  <2>4. /\ e.challenge \in [Peers -> Values(d.challenge)]
        /\ e.attempts \in [Peers -> Values(d.attempts)]
    BY <2>1 DEF Made
  <2>5. /\ e.challenge \in [Peers -> Values(c.challenge)]
        /\ e.attempts \in [Peers -> Values(c.attempts)]
    BY <2>2, <2>3, <2>4
  <2>6. e \in Made(c)
    BY <1>2, <2>1, <2>5 DEF Made
  <2>7. OwnLinks(c, e)
    BY <1>1, <1>2, <2>1 DEF OwnLinks
  <2> QED
    BY <2>6, <2>7 DEF Handled
<1>6. c \in Handled(c)
  BY DEF Handled, Shape, OwnLinks
<1> QED
  BY <1>2, <1>4, <1>5, <1>6

(* The fields the handlers of a peer write.                                 *)
LEMMA FieldsHandled ==
    ASSUME NEW c, Shape(c), NEW p \in Peers
    PROVE  /\ [c EXCEPT !.timer = @ \cup {p}] \in Handled(c)
           /\ [c EXCEPT !.pendRev = @ \cup {p}] \in Handled(c)
           /\ [c EXCEPT !.pendRev = @ \ {p}] \in Handled(c)
           /\ [c EXCEPT !.done = @ \ {p}] \in Handled(c)
           /\ [c EXCEPT !.done = @ \ {p}, !.ident = @ \ {p}] \in Handled(c)
           /\ [c EXCEPT !.done = @ \ {p}, !.ident = @ \ {p}, !.revOnly = @ \ {p}, !.pendRev = @ \ {p}] \in Handled(c)
BY DEF Shape, Made, Handled, OwnLinks

LEMMA ForgetHandled ==
    ASSUME NEW c, Shape(c), NEW p \in Peers
    PROVE  Cal!Forget(c, p) \in Handled(c)
<1> DEFINE d == [c EXCEPT !.challenge[p] = 0, !.attempts[p] = 0, !.timer = @ \ {p}]
<1>1. [c.challenge EXCEPT ![p] = 0] \in [Peers -> Values(c.challenge)]
  BY DEF Shape, Made, Values
<1>2. [c.attempts EXCEPT ![p] = 0] \in [Peers -> Values(c.attempts)]
  BY DEF Shape, Made, Values
<1>3. d \in Made(c)
  BY <1>1, <1>2 DEF Shape, Made
<1>4. d.link = c.link
  BY DEF Shape, Made
<1>5. OwnLinks(c, d)
  BY <1>4 DEF OwnLinks
<1> QED
  BY <1>3, <1>5 DEF Handled, Cal!Forget

LEMMA DisconnectHandled ==
    ASSUME NEW c, Shape(c), NEW n, NEW who
    PROVE  /\ Cal!Disconnect(c, n, who) \in Handled(c)
           /\ \A p \in Peers \cap who : n \in Cal!Sessions => Cal!Disconnect(c, n, who).link[n][p] = "none"
<1> DEFINE d == Cal!Disconnect(c, n, who)
           l == [c.link EXCEPT ![n] = [p \in Peers |-> IF p \in who THEN "none" ELSE c.link[n][p]]]
           m == [c.media EXCEPT ![n] = c.media[n] \ who]
           w == {x \in c.wire : ~(x.n = n /\ x.peer \in who)}
<1>1. c.link \in [Cal!Sessions -> [Peers -> {"none", "new", "open", "shut"}]] /\ c.media \in [Cal!Sessions -> SUBSET Peers]
  BY DEF Shape, Made
<1>2. l \in [Cal!Sessions -> [Peers -> {"none", "new", "open", "shut"}]]
  <2>1. CASE n \in Cal!Sessions
    BY <1>1, <2>1
  <2>2. CASE n \notin Cal!Sessions
    BY <1>1, <2>2
  <2> QED
    BY <2>1, <2>2
<1>3. m \in [Cal!Sessions -> SUBSET Peers]
  BY <1>1
<1>4. w \subseteq c.wire
  OBVIOUS
<1>5. \A k \in Cal!Sessions, p \in Peers : l[k][p] # "none" => c.link[k][p] # "none"
  BY <1>1
<1>6. n \in Cal!Sessions => \A p \in Peers \cap who : l[n][p] = "none"
  BY <1>1
<1>7. d = [c EXCEPT !.link = l, !.media = m, !.wire = w]
  BY DEF Cal!Disconnect, Shape, Made
<1> HIDE DEF l, m, w, d
<1>8. d \in Made(c) /\ d.link = l
  BY <1>2, <1>3, <1>4, <1>7 DEF Shape, Made
<1>9. OwnLinks(c, d)
  BY <1>5, <1>8 DEF OwnLinks
<1> QED
  BY <1>6, <1>8, <1>9 DEF Handled, d

LEMMA ConnectHandled ==
    ASSUME NEW c, Shape(c), NEW p \in Peers
    PROVE  Cal!ConnectPeer(c, c.trans, p) \in Handled(c)
<1> DEFINE n == c.trans
           l == [c.link EXCEPT ![n] = [c.link[n] EXCEPT ![p] = "new"]]
           d == [c EXCEPT !.link = l]
<1>1. c.link \in [Cal!Sessions -> [Peers -> {"none", "new", "open", "shut"}]]
  BY DEF Shape, Made
<1>2. l \in [Cal!Sessions -> [Peers -> {"none", "new", "open", "shut"}]]
  <2>1. CASE n \in Cal!Sessions
    BY <1>1, <2>1
  <2>2. CASE n \notin Cal!Sessions
    BY <1>1, <2>2
  <2> QED
    BY <2>1, <2>2
<1>3. \A k \in Cal!Sessions, q \in Peers : l[k][q] # "none" => c.link[k][q] # "none" \/ k = c.trans
  BY <1>1
<1> HIDE DEF l
<1>4. d \in Made(c) /\ d.link = l
  BY <1>2 DEF Shape, Made
<1>5. OwnLinks(c, d)
  BY <1>3, <1>4 DEF OwnLinks
<1>6. [c EXCEPT !.link[n][p] = "new"] = d
  BY DEF l, Shape, Made
<1>7. c \in Handled(c)
  BY DEF Handled, Shape, OwnLinks
<1> QED
  BY <1>4, <1>5, <1>6, <1>7 DEF Handled, Cal!ConnectPeer

LEMMA AdmissionHandled ==
    ASSUME NEW c, Shape(c), NEW p \in Peers
    PROVE  /\ Cal!Schedule(c, p) \in Handled(c) /\ Cal!Admit(c, p) \in Handled(c)
           /\ Cal!EnforceMeshCapacity(c) \in Handled(c) /\ Cal!Engage(c, p) \in Handled(c)
           /\ Cal!DisconnectPeer(c, c.trans, p) \in Handled(c)
<1>1. c \in Handled(c)
  BY DEF Handled, Shape, OwnLinks
<1>2. Cal!Schedule(c, p) \in Handled(c) /\ Cal!Admit(c, p) \in Handled(c)
  BY <1>1, FieldsHandled DEF Cal!Schedule, Cal!Admit
<1>3. Cal!EnforceMeshCapacity(c) \in Handled(c)
  BY <1>1, DisconnectHandled DEF Cal!EnforceMeshCapacity
<1>4. Cal!Engage(c, p) \in Handled(c)
  <2> DEFINE d == Cal!Schedule(c, p)
  <2>1. d \in Handled(c)
    BY <1>2
  <2> HIDE DEF d
  <2>2. Shape(d) /\ Handled(d) \subseteq Handled(c) /\ d.trans = c.trans
    BY <2>1, HandledAgain
  <2>3. Cal!ConnectPeer(d, d.trans, p) \in Handled(d)
    BY <2>2, ConnectHandled
  <2> QED
    BY <2>2, <2>3 DEF Cal!Engage, d
<1>5. Cal!DisconnectPeer(c, c.trans, p) \in Handled(c)
  BY DisconnectHandled DEF Cal!DisconnectPeer
<1> QED
  BY <1>2, <1>3, <1>4, <1>5

LEMMA OneOf == ASSUME NEW e PROVE (CHOOSE r \in {e} : TRUE) = e
OBVIOUS

LEMMA EngageIfFitsHandled ==
    ASSUME NEW c, Shape(c), NEW p \in Peers
    PROVE  Cal!EngageIfFits(c, p) \in Handled(c)
<1> DEFINE a == Cal!Admit(c, p)
           b == Cal!EnforceMeshCapacity(a)
           d == IF Cal!Fits(b, p) /\ b.ready THEN Cal!Engage(b, p) ELSE b
<1>1. a \in Handled(c) /\ Shape(a) /\ Handled(a) \subseteq Handled(c)
  BY AdmissionHandled, HandledAgain
<1>2. b \in Handled(a) /\ Shape(b) /\ Handled(b) \subseteq Handled(a)
  <2> HIDE DEF a
  <2> QED
    BY <1>1, AdmissionHandled, HandledAgain
<1>3. d \in Handled(b)
  <2> HIDE DEF b
  <2> QED
    BY <1>2, AdmissionHandled, HandledAgain
<1>4. d \in Handled(c)
  BY <1>1, <1>2, <1>3
<1>5. Cal!EngageIfFits(c, p) = CHOOSE r \in {IF Cal!Fits(v, p) /\ v.ready THEN Cal!Engage(v, p) ELSE v : v \in {b}} : TRUE
  BY DEF Cal!EngageIfFits, Cal!With
<1>6. {IF Cal!Fits(v, p) /\ v.ready THEN Cal!Engage(v, p) ELSE v : v \in {b}} = {d}
  OBVIOUS
<1> HIDE DEF d
<1>7. Cal!EngageIfFits(c, p) = d
  BY <1>5, <1>6, OneOf
<1> QED
  BY <1>4, <1>7

(* connectPresentAdmittedCallPeers, which goes through the peers present.   *)
LEMMA ConnectPresentHandled ==
    ASSUME IsFiniteSet(Peers), NEW c, Shape(c), NEW life
    PROVE  Cal!ConnectPresent(c, life) \in Handled(c)
<1> DEFINE D == Cal!PresencePeers(c)
           F(a, p) == IF Cal!IsAdmitted(a, p) THEN Cal!EngageIfFits(a, p) ELSE a
           Steps(it) == it = [t \in SUBSET D |-> IF t = {} THEN c
                                ELSE CHOOSE r \in {F(v, Pick(t)) : v \in {it[t \ {Pick(t)}]}} : TRUE]
           Iter == CHOOSE it : Steps(it)
<1>1. D \subseteq Peers /\ IsFiniteSet(D)
  BY FS_Subset DEF Cal!PresencePeers, Shape
<1>2. ASSUME NEW a \in Handled(c), NEW p \in D PROVE F(a, p) \in Handled(c)
  <2>1. Shape(a) /\ Handled(a) \subseteq Handled(c) /\ p \in Peers
    BY <1>1, HandledAgain
  <2> QED
    BY <2>1, EngageIfFitsHandled
<1>3. c \in Handled(c)
  BY DEF Handled, Shape, OwnLinks
<1>4. Cal!ConnectPresent(c, life) = IF ~Cal!IsActive(c, life) \/ ~c.ready THEN c ELSE Iter[D]
  BY DEF Cal!ConnectPresent, Cal!Each, Cal!FoldSet, Cal!MapThenFoldSet, Cal!With, Pick
<1>5. \A a, p : (CHOOSE r \in {F(v, p) : v \in {a}} : TRUE) = F(a, p)
  <2> TAKE a, p
  <2>1. {F(v, p) : v \in {a}} = {F(a, p)}
    OBVIOUS
  <2> HIDE DEF F
  <2> QED
    BY <2>1, OneOf
<1> HIDE DEF F, D
<1>6. \E it : Steps(it)
  <2> DEFINE f == [p \in D |-> [a \in Handled(c) |-> F(a, p)]]
  <2>1. f \in [D -> [Handled(c) -> Handled(c)]]
    BY <1>2
  <2>2. PICK g \in [SUBSET D -> Handled(c)] : \A t \in SUBSET D : Folded(f, c, g, t)
    <3> HIDE DEF f
    <3> QED
      BY <1>1, <1>3, <2>1, FoldExists
  <2>3. ASSUME NEW t \in SUBSET D, t # {}
        PROVE  g[t] = CHOOSE r \in {F(v, Pick(t)) : v \in {g[t \ {Pick(t)}]}} : TRUE
    <3>1. Pick(t) \in D /\ t \ {Pick(t)} \in SUBSET D
      BY <1>1, <2>3, PickSmaller
    <3>2. g[t \ {Pick(t)}] \in Handled(c)
      BY <3>1
    <3>3. g[t] = f[Pick(t)][g[t \ {Pick(t)}]]
      BY <2>2, <2>3 DEF Folded
    <3>4. g[t] = F(g[t \ {Pick(t)}], Pick(t))
      BY <3>1, <3>2, <3>3
    <3> QED
      BY <1>5, <3>4
  <2>4. g[{}] = c
    BY <2>2 DEF Folded
  <2> DEFINE B(t) == IF t = {} THEN c ELSE CHOOSE r \in {F(v, Pick(t)) : v \in {g[t \ {Pick(t)}]}} : TRUE
  <2>5. \A t \in SUBSET D : g[t] = B(t)
    BY <2>3, <2>4
  <2>6. g = [t \in SUBSET D |-> B(t)]
    <3> HIDE DEF B
    <3> QED
      BY <2>5
  <2> QED
    BY <2>6
<1>7. Steps(Iter)
  BY <1>6
<1> HIDE DEF Iter
<1>8. Iter[{}] = c /\ \A t \in SUBSET D : t # {} => Iter[t] = F(Iter[t \ {Pick(t)}], Pick(t))
  BY <1>5, <1>7
<1>9. Iter[D] \in Handled(c)
  <2> DEFINE G == {t \in SUBSET D : Iter[t] \in Handled(c)}
  <2>1. {} \in G
    BY <1>3, <1>8
  <2>2. ASSUME NEW t \in SUBSET D, t # {}, t \ {Pick(t)} \in G PROVE t \in G
    <3>1. Pick(t) \in D /\ Iter[t \ {Pick(t)}] \in Handled(c)
      BY <1>1, <2>2, PickSmaller
    <3>2. F(Iter[t \ {Pick(t)}], Pick(t)) \in Handled(c)
      BY <1>2, <3>1
    <3> QED
      BY <1>8, <2>2, <3>2
  <2> HIDE DEF G
  <2>3. D \in G
    BY <1>1, <2>1, <2>2, FoldInduction
  <2> QED
    BY <2>3 DEF G
<1> QED
  BY <1>3, <1>4, <1>9

LEMMA JoinedHandled ==
    ASSUME NEW c, Shape(c), NEW p \in Peers
    PROVE  Cal!PeerJoined(c, p) \in Handled(c)
<1> DEFINE a == [c EXCEPT !.pendRev = @ \ {p}]
           b == Cal!Forget(a, p)
<1>0. c \in Handled(c) /\ a \in Handled(c)
  BY FieldsHandled DEF Handled, Shape, OwnLinks
<1>1. c \in Handled(c) /\ a \in Handled(c) /\ Shape(a) /\ Handled(a) \subseteq Handled(c)
  <2> HIDE DEF a
  <2> QED
    BY <1>0, HandledAgain
<1>2. b \in Handled(a) /\ Shape(b) /\ Handled(b) \subseteq Handled(a) /\ b \in Handled(b)
  <2> HIDE DEF a
  <2> QED
    BY <1>1, ForgetHandled, HandledAgain
<1>3. Cal!RejectIncompatible(c, p) \in Handled(b)
  <2> HIDE DEF b
  <2>1. Cal!DisconnectPeer(b, b.trans, p) \in Handled(b)
    BY <1>2, AdmissionHandled
  <2> QED
    BY <1>2, <2>1 DEF Cal!RejectIncompatible, b
<1>4. Cal!RejectIncompatible(c, p) \in Handled(c)
  BY <1>1, <1>2, <1>3
<1> QED
  BY <1>1, <1>4, EngageIfFitsHandled DEF Cal!PeerJoined

LEMMA LeftHandled ==
    ASSUME IsFiniteSet(Peers), NEW c, Shape(c), NEW p \in Peers
    PROVE  Cal!PeerLeft(c, p) \in Handled(c)
<1> DEFINE a == [c EXCEPT !.done = @ \ {p}, !.ident = @ \ {p}, !.revOnly = @ \ {p}, !.pendRev = @ \ {p}]
           b == Cal!Forget(a, p)
           d == IF c.trans = 0 THEN b ELSE Cal!DisconnectPeer(b, c.trans, p)
           e == Cal!ConnectPresent(d, d.life)
<1>1. a \in Handled(c) /\ Shape(a) /\ Handled(a) \subseteq Handled(c)
  BY FieldsHandled, HandledAgain
<1>2. b \in Handled(a) /\ Shape(b) /\ Handled(b) \subseteq Handled(a) /\ b \in Handled(b)
  <2> HIDE DEF a
  <2> QED
    BY <1>1, ForgetHandled, HandledAgain
<1>3. d \in Handled(b) /\ Shape(d) /\ Handled(d) \subseteq Handled(b)
  <2> HIDE DEF b
  <2>1. d \in Handled(b)
    BY <1>2, DisconnectHandled DEF Cal!DisconnectPeer
  <2> HIDE DEF d
  <2> QED
    BY <1>2, <2>1, HandledAgain
<1>4. e \in Handled(d)
  <2> HIDE DEF d
  <2> QED
    BY <1>3, ConnectPresentHandled
<1>5. Cal!PeerLeft(c, p) = CHOOSE r \in {Cal!ConnectPresent(v, v.life) : v \in {d}} : TRUE
  BY DEF Cal!PeerLeft, Cal!With
<1>6. {Cal!ConnectPresent(v, v.life) : v \in {d}} = {e}
  OBVIOUS
<1> HIDE DEF e
<1>7. Cal!PeerLeft(c, p) = e
  BY <1>5, <1>6, OneOf
<1> QED
  BY <1>1, <1>2, <1>3, <1>4, <1>7

(* The peers that a provider reports as gone, and as arrived, one by one.   *)
EachLeft(c, D) == Cal!Each(D, c, Cal!PeerLeft)
EachJoined(c, D) == Cal!Each(D, c, Cal!PeerJoined)

LEMMA EachLeftHandled ==
    ASSUME IsFiniteSet(Peers), NEW c, Shape(c), NEW D \in SUBSET Peers
    PROVE  EachLeft(c, D) \in Handled(c)
<1> DEFINE F(a, p) == Cal!PeerLeft(a, p)
           Steps(it) == it = [t \in SUBSET D |-> IF t = {} THEN c
                                ELSE CHOOSE r \in {F(v, Pick(t)) : v \in {it[t \ {Pick(t)}]}} : TRUE]
           Iter == CHOOSE it : Steps(it)
<1>1. IsFiniteSet(D)
  BY FS_Subset
<1>2. ASSUME NEW a \in Handled(c), NEW p \in D PROVE F(a, p) \in Handled(c)
  <2>1. Shape(a) /\ Handled(a) \subseteq Handled(c) /\ p \in Peers
    BY HandledAgain
  <2> QED
    BY <2>1, LeftHandled
<1>3. c \in Handled(c)
  BY DEF Handled, Shape, OwnLinks
<1>4. EachLeft(c, D) = Iter[D]
  BY DEF EachLeft, Cal!Each, Cal!FoldSet, Cal!MapThenFoldSet, Cal!With, Pick
<1>5. \A a, p : (CHOOSE r \in {F(v, p) : v \in {a}} : TRUE) = F(a, p)
  <2> TAKE a, p
  <2>1. {F(v, p) : v \in {a}} = {F(a, p)}
    OBVIOUS
  <2> HIDE DEF F
  <2> QED
    BY <2>1, OneOf
<1> HIDE DEF F
<1>6. \E it : Steps(it)
  <2> DEFINE f == [p \in D |-> [a \in Handled(c) |-> F(a, p)]]
  <2>1. f \in [D -> [Handled(c) -> Handled(c)]]
    BY <1>2
  <2>2. PICK g \in [SUBSET D -> Handled(c)] : \A t \in SUBSET D : Folded(f, c, g, t)
    <3> HIDE DEF f
    <3> QED
      BY <1>1, <1>3, <2>1, FoldExists
  <2>3. ASSUME NEW t \in SUBSET D, t # {}
        PROVE  g[t] = CHOOSE r \in {F(v, Pick(t)) : v \in {g[t \ {Pick(t)}]}} : TRUE
    <3>1. Pick(t) \in D /\ t \ {Pick(t)} \in SUBSET D
      BY <1>1, <2>3, PickSmaller
    <3>2. g[t \ {Pick(t)}] \in Handled(c)
      BY <3>1
    <3>3. g[t] = f[Pick(t)][g[t \ {Pick(t)}]]
      BY <2>2, <2>3 DEF Folded
    <3>4. g[t] = F(g[t \ {Pick(t)}], Pick(t))
      BY <3>1, <3>2, <3>3
    <3> QED
      BY <1>5, <3>4
  <2>4. g[{}] = c
    BY <2>2 DEF Folded
  <2> DEFINE B(t) == IF t = {} THEN c ELSE CHOOSE r \in {F(v, Pick(t)) : v \in {g[t \ {Pick(t)}]}} : TRUE
  <2>5. \A t \in SUBSET D : g[t] = B(t)
    BY <2>3, <2>4
  <2>6. g = [t \in SUBSET D |-> B(t)]
    <3> HIDE DEF B
    <3> QED
      BY <2>5
  <2> QED
    BY <2>6
<1>7. Steps(Iter)
  BY <1>6
<1> HIDE DEF Iter
<1>8. Iter[{}] = c /\ \A t \in SUBSET D : t # {} => Iter[t] = F(Iter[t \ {Pick(t)}], Pick(t))
  BY <1>5, <1>7
<1>9. Iter[D] \in Handled(c)
  <2> DEFINE G == {t \in SUBSET D : Iter[t] \in Handled(c)}
  <2>1. {} \in G
    BY <1>3, <1>8
  <2>2. ASSUME NEW t \in SUBSET D, t # {}, t \ {Pick(t)} \in G PROVE t \in G
    <3>1. Pick(t) \in D /\ Iter[t \ {Pick(t)}] \in Handled(c)
      BY <1>1, <2>2, PickSmaller
    <3>2. F(Iter[t \ {Pick(t)}], Pick(t)) \in Handled(c)
      BY <1>2, <3>1
    <3> QED
      BY <1>8, <2>2, <3>2
  <2> HIDE DEF G
  <2>3. D \in G
    BY <1>1, <2>1, <2>2, FoldInduction
  <2> QED
    BY <2>3 DEF G
<1> QED
  BY <1>4, <1>9

LEMMA EachJoinedHandled ==
    ASSUME IsFiniteSet(Peers), NEW c, Shape(c), NEW D \in SUBSET Peers
    PROVE  EachJoined(c, D) \in Handled(c)
<1> DEFINE F(a, p) == Cal!PeerJoined(a, p)
           Steps(it) == it = [t \in SUBSET D |-> IF t = {} THEN c
                                ELSE CHOOSE r \in {F(v, Pick(t)) : v \in {it[t \ {Pick(t)}]}} : TRUE]
           Iter == CHOOSE it : Steps(it)
<1>1. IsFiniteSet(D)
  BY FS_Subset
<1>2. ASSUME NEW a \in Handled(c), NEW p \in D PROVE F(a, p) \in Handled(c)
  <2>1. Shape(a) /\ Handled(a) \subseteq Handled(c) /\ p \in Peers
    BY HandledAgain
  <2> QED
    BY <2>1, JoinedHandled
<1>3. c \in Handled(c)
  BY DEF Handled, Shape, OwnLinks
<1>4. EachJoined(c, D) = Iter[D]
  BY DEF EachJoined, Cal!Each, Cal!FoldSet, Cal!MapThenFoldSet, Cal!With, Pick
<1>5. \A a, p : (CHOOSE r \in {F(v, p) : v \in {a}} : TRUE) = F(a, p)
  <2> TAKE a, p
  <2>1. {F(v, p) : v \in {a}} = {F(a, p)}
    OBVIOUS
  <2> HIDE DEF F
  <2> QED
    BY <2>1, OneOf
<1> HIDE DEF F
<1>6. \E it : Steps(it)
  <2> DEFINE f == [p \in D |-> [a \in Handled(c) |-> F(a, p)]]
  <2>1. f \in [D -> [Handled(c) -> Handled(c)]]
    BY <1>2
  <2>2. PICK g \in [SUBSET D -> Handled(c)] : \A t \in SUBSET D : Folded(f, c, g, t)
    <3> HIDE DEF f
    <3> QED
      BY <1>1, <1>3, <2>1, FoldExists
  <2>3. ASSUME NEW t \in SUBSET D, t # {}
        PROVE  g[t] = CHOOSE r \in {F(v, Pick(t)) : v \in {g[t \ {Pick(t)}]}} : TRUE
    <3>1. Pick(t) \in D /\ t \ {Pick(t)} \in SUBSET D
      BY <1>1, <2>3, PickSmaller
    <3>2. g[t \ {Pick(t)}] \in Handled(c)
      BY <3>1
    <3>3. g[t] = f[Pick(t)][g[t \ {Pick(t)}]]
      BY <2>2, <2>3 DEF Folded
    <3>4. g[t] = F(g[t \ {Pick(t)}], Pick(t))
      BY <3>1, <3>2, <3>3
    <3> QED
      BY <1>5, <3>4
  <2>4. g[{}] = c
    BY <2>2 DEF Folded
  <2> DEFINE B(t) == IF t = {} THEN c ELSE CHOOSE r \in {F(v, Pick(t)) : v \in {g[t \ {Pick(t)}]}} : TRUE
  <2>5. \A t \in SUBSET D : g[t] = B(t)
    BY <2>3, <2>4
  <2>6. g = [t \in SUBSET D |-> B(t)]
    <3> HIDE DEF B
    <3> QED
      BY <2>5
  <2> QED
    BY <2>6
<1>7. Steps(Iter)
  BY <1>6
<1> HIDE DEF Iter
<1>8. Iter[{}] = c /\ \A t \in SUBSET D : t # {} => Iter[t] = F(Iter[t \ {Pick(t)}], Pick(t))
  BY <1>5, <1>7
<1>9. Iter[D] \in Handled(c)
  <2> DEFINE G == {t \in SUBSET D : Iter[t] \in Handled(c)}
  <2>1. {} \in G
    BY <1>3, <1>8
  <2>2. ASSUME NEW t \in SUBSET D, t # {}, t \ {Pick(t)} \in G PROVE t \in G
    <3>1. Pick(t) \in D /\ Iter[t \ {Pick(t)}] \in Handled(c)
      BY <1>1, <2>2, PickSmaller
    <3>2. F(Iter[t \ {Pick(t)}], Pick(t)) \in Handled(c)
      BY <1>2, <3>1
    <3> QED
      BY <1>8, <2>2, <3>2
  <2> HIDE DEF G
  <2>3. D \in G
    BY <1>1, <2>1, <2>2, FoldInduction
  <2> QED
    BY <2>3 DEF G
<1> QED
  BY <1>4, <1>9

(* The same session, with connections of its own added at most.             *)
Alike(c, d) == Shape(d) /\ d.life = c.life /\ d.room = c.room /\ d.trans = c.trans /\ OwnLinks(c, d)

LEMMA HandledAlike ==
    ASSUME NEW c, Shape(c), NEW d \in Handled(c)
    PROVE  Alike(c, d)
BY HandledAgain DEF Alike, Handled

LEMMA AlikeAgain ==
    ASSUME NEW c, NEW d, NEW e, Alike(c, d), Alike(d, e)
    PROVE  Alike(c, e)
BY DEF Alike, OwnLinks

(* Fields that say nothing of the session or its connections.               *)
(* Handlers that leave the challenges alone.                                *)
LEMMA UnchallengedAlike ==
    ASSUME NEW c, Shape(c), NEW d, d \in Made(d), d.life = c.life, d.room = c.room, d.trans = c.trans, d.link = c.link,
           d.present \subseteq Peers, Wired(d.wire)
    PROVE  Alike(c, d)
BY DEF Alike, Shape, OwnLinks

LEMMA SelfMade ==
    ASSUME NEW c, Shape(c)
    PROVE  /\ \A x : [c EXCEPT !.online = x] \in Made([c EXCEPT !.online = x])
           /\ \A x : [c EXCEPT !.rendezvous = x] \in Made([c EXCEPT !.rendezvous = x])
           /\ \A x : [c EXCEPT !.sig = x] \in Made([c EXCEPT !.sig = x])
           /\ \A x : [c EXCEPT !.present = x] \in Made([c EXCEPT !.present = x])
           /\ \A x, y : [c EXCEPT !.online = x, !.present = y] \in Made([c EXCEPT !.online = x, !.present = y])
           /\ \A x, y : [c EXCEPT !.trusted = x, !.revoked = y] \in Made([c EXCEPT !.trusted = x, !.revoked = y])
           /\ \A x : [c EXCEPT !.wire = x] \in Made([c EXCEPT !.wire = x])
<1>1. c \in Made(c)
  BY DEF Shape
<1>2. ASSUME NEW x PROVE [c EXCEPT !.online = x] \in Made([c EXCEPT !.online = x])
  <2> DEFINE d == [c EXCEPT !.online = x]
  <2>1. d.challenge = c.challenge /\ d.attempts = c.attempts
    BY <1>1 DEF Made
  <2> QED
    BY <1>1, <2>1 DEF Made
<1>3. ASSUME NEW x PROVE [c EXCEPT !.rendezvous = x] \in Made([c EXCEPT !.rendezvous = x])
  <2> DEFINE d == [c EXCEPT !.rendezvous = x]
  <2>1. d.challenge = c.challenge /\ d.attempts = c.attempts
    BY <1>1 DEF Made
  <2> QED
    BY <1>1, <2>1 DEF Made
<1>4. ASSUME NEW x PROVE [c EXCEPT !.sig = x] \in Made([c EXCEPT !.sig = x])
  <2> DEFINE d == [c EXCEPT !.sig = x]
  <2>1. d.challenge = c.challenge /\ d.attempts = c.attempts
    BY <1>1 DEF Made
  <2> QED
    BY <1>1, <2>1 DEF Made
<1>5. ASSUME NEW x PROVE [c EXCEPT !.present = x] \in Made([c EXCEPT !.present = x])
  <2> DEFINE d == [c EXCEPT !.present = x]
  <2>1. d.challenge = c.challenge /\ d.attempts = c.attempts
    BY <1>1 DEF Made
  <2> QED
    BY <1>1, <2>1 DEF Made
<1>6. ASSUME NEW x, NEW y PROVE [c EXCEPT !.online = x, !.present = y] \in Made([c EXCEPT !.online = x, !.present = y])
  <2> DEFINE d == [c EXCEPT !.online = x, !.present = y]
  <2>1. d.challenge = c.challenge /\ d.attempts = c.attempts
    BY <1>1 DEF Made
  <2> QED
    BY <1>1, <2>1 DEF Made
<1>7. ASSUME NEW x, NEW y PROVE [c EXCEPT !.trusted = x, !.revoked = y] \in Made([c EXCEPT !.trusted = x, !.revoked = y])
  <2> DEFINE d == [c EXCEPT !.trusted = x, !.revoked = y]
  <2>1. d.challenge = c.challenge /\ d.attempts = c.attempts
    BY <1>1 DEF Made
  <2> QED
    BY <1>1, <2>1 DEF Made
<1>8. ASSUME NEW x PROVE [c EXCEPT !.wire = x] \in Made([c EXCEPT !.wire = x])
  <2> DEFINE d == [c EXCEPT !.wire = x]
  <2>1. d.challenge = c.challenge /\ d.attempts = c.attempts
    BY <1>1 DEF Made
  <2> QED
    BY <1>1, <2>1 DEF Made
<1> QED
  BY <1>2, <1>3, <1>4, <1>5, <1>6, <1>7, <1>8

LEMMA FieldsAlike ==
    ASSUME NEW c, Shape(c)
    PROVE  /\ Alike(c, c)
           /\ \A x : Alike(c, [c EXCEPT !.online = x])
           /\ \A x : Alike(c, [c EXCEPT !.rendezvous = x])
           /\ \A x : Alike(c, [c EXCEPT !.sig = x])
           /\ \A x \in SUBSET Peers : Alike(c, [c EXCEPT !.present = x])
           /\ \A x, y : y \subseteq Peers => Alike(c, [c EXCEPT !.online = x, !.present = y])
           /\ \A x, y : Alike(c, [c EXCEPT !.trusted = x, !.revoked = y])
           /\ \A w : Wired(w) => Alike(c, [c EXCEPT !.wire = w])
<1>1. c \in Made(c) /\ c.present \subseteq Peers /\ Wired(c.wire)
  BY DEF Shape
<1>2. ASSUME NEW x PROVE Alike(c, [c EXCEPT !.online = x])
  <2> DEFINE d == [c EXCEPT !.online = x]
  <2>1. d.life = c.life /\ d.room = c.room /\ d.trans = c.trans /\ d.link = c.link /\ d.present = c.present /\ d.wire = c.wire
    BY <1>1 DEF Made
  <2>2. d \in Made(d)
    BY SelfMade
  <2> HIDE DEF d
  <2> QED
    BY <1>1, <2>1, <2>2, UnchallengedAlike DEF d
<1>3. ASSUME NEW x PROVE Alike(c, [c EXCEPT !.rendezvous = x])
  <2> DEFINE d == [c EXCEPT !.rendezvous = x]
  <2>1. d.life = c.life /\ d.room = c.room /\ d.trans = c.trans /\ d.link = c.link /\ d.present = c.present /\ d.wire = c.wire
    BY <1>1 DEF Made
  <2>2. d \in Made(d)
    BY SelfMade
  <2> HIDE DEF d
  <2> QED
    BY <1>1, <2>1, <2>2, UnchallengedAlike DEF d
<1>4. ASSUME NEW x PROVE Alike(c, [c EXCEPT !.sig = x])
  <2> DEFINE d == [c EXCEPT !.sig = x]
  <2>1. d.life = c.life /\ d.room = c.room /\ d.trans = c.trans /\ d.link = c.link /\ d.present = c.present /\ d.wire = c.wire
    BY <1>1 DEF Made
  <2>2. d \in Made(d)
    BY SelfMade
  <2> HIDE DEF d
  <2> QED
    BY <1>1, <2>1, <2>2, UnchallengedAlike DEF d
<1>5. ASSUME NEW x, NEW y, y \subseteq Peers
      PROVE  Alike(c, [c EXCEPT !.present = y]) /\ Alike(c, [c EXCEPT !.online = x, !.present = y])
  <2> DEFINE d == [c EXCEPT !.present = y]
             e == [c EXCEPT !.online = x, !.present = y]
  <2>1. /\ d.life = c.life /\ d.room = c.room /\ d.trans = c.trans /\ d.link = c.link /\ d.present = y /\ d.wire = c.wire
        /\ e.life = c.life /\ e.room = c.room /\ e.trans = c.trans /\ e.link = c.link /\ e.present = y /\ e.wire = c.wire
    BY <1>1 DEF Made
  <2>2. d \in Made(d) /\ e \in Made(e)
    BY SelfMade
  <2> HIDE DEF d, e
  <2>3. Alike(c, d)
    BY <1>1, <1>5, <2>1, <2>2, UnchallengedAlike
  <2>4. Alike(c, e)
    BY <1>1, <1>5, <2>1, <2>2, UnchallengedAlike
  <2> QED
    BY <2>3, <2>4 DEF d, e
<1>6. ASSUME NEW x, NEW y PROVE Alike(c, [c EXCEPT !.trusted = x, !.revoked = y])
  <2> DEFINE d == [c EXCEPT !.trusted = x, !.revoked = y]
  <2>1. d.life = c.life /\ d.room = c.room /\ d.trans = c.trans /\ d.link = c.link /\ d.present = c.present /\ d.wire = c.wire
    BY <1>1 DEF Made
  <2>2. d \in Made(d)
    BY SelfMade
  <2> HIDE DEF d
  <2> QED
    BY <1>1, <2>1, <2>2, UnchallengedAlike DEF d
<1>7. ASSUME NEW w, Wired(w) PROVE Alike(c, [c EXCEPT !.wire = w])
  <2> DEFINE d == [c EXCEPT !.wire = w]
  <2>1. d.life = c.life /\ d.room = c.room /\ d.trans = c.trans /\ d.link = c.link /\ d.present = c.present /\ d.wire = w
    BY <1>1 DEF Made
  <2>2. d \in Made(d)
    BY SelfMade
  <2> HIDE DEF d
  <2> QED
    BY <1>1, <1>7, <2>1, <2>2, UnchallengedAlike DEF d
<1>8. Alike(c, c)
  BY <1>1, UnchallengedAlike
<1> QED
  BY <1>2, <1>3, <1>4, <1>5, <1>6, <1>7, <1>8

LEMMA ChallengeAlike ==
    ASSUME NEW c, Shape(c), NEW p \in Peers
    PROVE  /\ Alike(c, Cal!SendAuthChallenge(c, p))
           /\ Alike(c, [c EXCEPT !.challenge[p] = 0])
           /\ Alike(c, [c EXCEPT !.challenge[p] = 0, !.attempts[p] = 0])
           /\ Cal!ChannelOpened(c, p) \in {c, Cal!SendAuthChallenge(c, p), [c EXCEPT !.challenge[p] = 0]}
<1>1. ASSUME NEW f, NEW K, f \in [Peers -> K], NEW v
      PROVE  [f EXCEPT ![p] = v] \in [Peers -> Values([f EXCEPT ![p] = v])]
  BY <1>1 DEF Values
<1>2. ASSUME NEW v, NEW u, NEW w, Wired(w)
      PROVE  Alike(c, [c EXCEPT !.challenge[p] = v, !.attempts[p] = u, !.wire = w])
  <2> DEFINE f == [c.challenge EXCEPT ![p] = v]
             g == [c.attempts EXCEPT ![p] = u]
             d == [c EXCEPT !.challenge = f, !.attempts = g, !.wire = w]
  <2>1. f \in [Peers -> Values(f)] /\ g \in [Peers -> Values(g)]
    BY <1>1 DEF Shape, Made
  <2>2. [c EXCEPT !.challenge[p] = v, !.attempts[p] = u, !.wire = w] = d
    BY DEF Shape, Made
  <2> HIDE DEF f, g
  <2>3. c \in Made(c) /\ c.present \subseteq Peers
    BY DEF Shape
  <2>4. d.challenge = f /\ d.attempts = g
    BY <2>3 DEF Made
  <2>5. d \in Made(d)
    BY <2>1, <2>3, <2>4 DEF Made
  <2>6. d.life = c.life /\ d.room = c.room /\ d.trans = c.trans /\ d.link = c.link /\ d.present = c.present /\ d.wire = w
    BY <2>3 DEF Made
  <2>7. Alike(c, d)
    <3> HIDE DEF d
    <3> QED
      BY <1>2, <2>3, <2>5, <2>6, UnchallengedAlike
  <2> QED
    BY <2>2, <2>7
<1>3. Wired(c.wire)
  BY DEF Shape
<1>4. Alike(c, [c EXCEPT !.challenge[p] = 0, !.attempts[p] = 0])
  <2>1. [c EXCEPT !.challenge[p] = 0, !.attempts[p] = 0, !.wire = c.wire] = [c EXCEPT !.challenge[p] = 0, !.attempts[p] = 0]
    BY DEF Shape, Made
  <2> QED
    BY <1>2, <1>3, <2>1
<1>5. Alike(c, [c EXCEPT !.challenge[p] = 0])
  <2>1. [c EXCEPT !.challenge[p] = 0, !.attempts[p] = c.attempts[p], !.wire = c.wire] = [c EXCEPT !.challenge[p] = 0]
    BY DEF Shape, Made
  <2> QED
    BY <1>2, <1>3, <2>1
<1>6. Alike(c, Cal!SendAuthChallenge(c, p))
  <2> DEFINE k == Cal!FreshNonce(c)
             m == [type |-> "challenge", n |-> c.trans, peer |-> p, nonce |-> k, good |-> TRUE]
             w == c.wire \cup {m}
             d == [c EXCEPT !.challenge[p] = k, !.attempts[p] = c.attempts[p] + 1, !.wire = w]
  <2>1. Wired(w)
    BY <1>3 DEF Wired
  <2>2. Cal!SendAuthChallenge(c, p) = Cal!Schedule(d, p)
    BY DEF Cal!SendAuthChallenge
  <2> HIDE DEF k, w
  <2>3. Alike(c, d)
    BY <1>2, <2>1
  <2> HIDE DEF d
  <2>4. Alike(d, Cal!Schedule(d, p))
    BY <2>3, AdmissionHandled, HandledAlike DEF Alike
  <2> QED
    BY <2>2, <2>3, <2>4, AlikeAgain
<1> QED
  BY <1>4, <1>5, <1>6 DEF Cal!ChannelOpened

(* ---- The invariant ------------------------------------------------------ *)

(* The joins that have begun their session.                                 *)
Started(ts) == {o \in ts : o.kind = "join" /\ o.step # "leaving"}

TaskKinds == {"join", "cleanup", "verify", "recover", "refresh", "certificate"}

TaskOK(o) ==
    /\ o.kind \in TaskKinds
    /\ o.kind = "join" => o \in [kind : {"join"}, life : Nat, n : {o.n}, step : {"leaving", "network", "connect", "profile", "rejected"}]
    /\ o.kind = "cleanup" => o \in [kind : {"cleanup"}, n : {o.n}, t : {o.t}]
    /\ o.kind \in {"verify", "recover"} => o.peer \in Peers
    /\ o.kind = "refresh" => o \in [kind : {"refresh"}, life : {o.life}, id : {o.id}, step : {o.step}, snap : {o.snap}, todo : SUBSET Peers]

(* A join knows its session by the number of its life, which no other has,  *)
(* and creates the transport of a session that has none.                    *)
Owned(o, c) == o.life <= c.life /\ (o.life = c.life => c.room /\ (o.step # "profile" => c.trans = 0))
Alone(ts) == \A o, q \in Started(ts) : o.life = q.life => o = q

Released(c, ts) ==
    \A n \in Cal!Sessions :
        (\E p \in Peers : c.link[n][p] # "none") => c.trans = n \/ \E o \in ts : o.kind = "cleanup" /\ o.t = n

SoundCall(c, ts) ==
    /\ Shape(c)
    /\ \A o \in ts : TaskOK(o)
    /\ ~c.room => c.trans = 0
    /\ \A o \in Started(ts) : Owned(o, c)
    /\ Alone(ts)
    /\ Released(c, ts)

CallInv == SoundCall(ctl, ops)

(* A join that waits for the earlier call to be left is not overtaken.      *)
NotOvertaken == \A o \in ops : o.kind = "join" /\ o.step = "leaving" => ~ctl.room

(* Functions that are neither joins nor cleanups come and go.               *)
Others(ts, us) ==
    /\ \A o \in us : TaskOK(o) /\ (o.kind = "join" => o \in ts)
    /\ \A o \in ts : o.kind = "cleanup" => o \in us

LEMMA AlikeSound ==
    ASSUME NEW c, NEW d, NEW ts, NEW us, SoundCall(c, ts), Alike(c, d), Others(ts, us)
    PROVE  SoundCall(d, us)
<1>1. Started(us) \subseteq Started(ts)
  BY DEF Others, Started
<1>2. \A o \in Started(us) : Owned(o, d)
  BY <1>1 DEF SoundCall, Alike, Owned
<1>3. Alone(us)
  BY <1>1 DEF SoundCall, Alone
<1>4. Released(d, us)
  <2> SUFFICES ASSUME NEW n \in Cal!Sessions, NEW p \in Peers, d.link[n][p] # "none"
               PROVE  d.trans = n \/ \E o \in us : o.kind = "cleanup" /\ o.t = n
    BY DEF Released
  <2>1. c.link[n][p] # "none" \/ n = c.trans
    BY DEF Alike, OwnLinks
  <2> QED
    BY <2>1 DEF SoundCall, Released, Alike, Others
<1> QED
  BY <1>2, <1>3, <1>4 DEF SoundCall, Alike, Others

LEMMA DetachedShape ==
    ASSUME NEW c, c \in Made(c)
    PROVE  /\ Cal!Detached(c) \in Made(Cal!Detached(c))
           /\ Cal!Detached(c).challenge = [p \in Peers |-> 0] /\ Cal!Detached(c).attempts = [p \in Peers |-> 0]
<1> DEFINE d == Cal!Detached(c)
<1>1. d.challenge = [p \in Peers |-> 0] /\ d.attempts = [p \in Peers |-> 0]
  BY DEF Cal!Detached, Cal!NewController, Cal!Blank
<1>2. d.challenge \in [Peers -> Values(d.challenge)] /\ d.attempts \in [Peers -> Values(d.attempts)]
  BY <1>1 DEF Values
<1>3. d \in Made(d)
  BY <1>2 DEF Made, Cal!Detached, Cal!NewController
<1> QED
  BY <1>1, <1>3

(* cleanup, from whichever function calls it.                               *)
LEMMA DetachedSound ==
    ASSUME NEW c, NEW ts, NEW us, SoundCall(c, ts),
           \A o \in us : TaskOK(o) /\ (o.kind = "join" /\ o.step # "leaving" => o \in ts),
           \A o \in ts : o.kind = "cleanup" => o \in us,
           Cal!CleanupOps(c) \subseteq us
    PROVE  SoundCall(Cal!Detached(c), us)
<1> DEFINE d == Cal!Detached(c)
<1>0. c \in Made(c) /\ c.life \in Nat /\ c.present \subseteq Peers /\ Wired(c.wire)
  BY DEF SoundCall, Shape
<1>1. /\ d.life = c.life + 1 /\ d.room = FALSE /\ d.trans = 0 /\ d.link = c.link /\ d.present = c.present /\ d.wire = c.wire
      /\ d.challenge = [p \in Peers |-> 0] /\ d.attempts = [p \in Peers |-> 0]
  BY DEF Cal!Detached, Cal!NewController, Cal!Blank
<1>2. d \in Made(d)
  BY <1>0, DetachedShape
<1> HIDE DEF d
<1>3. Shape(d)
  <2>1. d.life \in Nat
    BY <1>0, <1>1
  <2>2. d.room \in BOOLEAN
    BY <1>1
  <2>3. d.present \subseteq Peers /\ Wired(d.wire)
    BY <1>0, <1>1
  <2> QED
    BY <1>2, <2>1, <2>2, <2>3 DEF Shape
<1>4. Started(us) \subseteq Started(ts)
  BY DEF Started
<1>5. \A o \in Started(ts) : o.life \in Nat /\ o.life <= c.life
  BY DEF SoundCall, Started, Owned, TaskOK
<1>6. \A o \in Started(us) : Owned(o, d)
  BY <1>0, <1>1, <1>4, <1>5 DEF Owned
<1>7. Alone(us)
  BY <1>4 DEF SoundCall, Alone
<1>8. Released(d, us)
  <2> SUFFICES ASSUME NEW n \in Cal!Sessions, NEW p \in Peers, c.link[n][p] # "none"
               PROVE  \E o \in us : o.kind = "cleanup" /\ o.t = n
    BY <1>1 DEF Released
  <2>1. c.trans = n \/ \E o \in ts : o.kind = "cleanup" /\ o.t = n
    BY DEF SoundCall, Released
  <2> QED
    BY <2>1 DEF Cal!CleanupOps
<1> QED
  BY <1>1, <1>3, <1>6, <1>7, <1>8 DEF SoundCall, d

(* session.begin, of a controller that has left its earlier call.           *)
LEMMA BegunSound ==
    ASSUME NEW ts, NEW us, NEW q, SoundCall(ctl, ts), ~ctl.room, q \in us,
           q.kind = "join", q.life = ctl.life + 1, q.step = "network",
           \A o \in us : TaskOK(o) /\ (o.kind = "join" /\ o.step # "leaving" => o = q \/ o \in ts),
           \A o \in ts : o.kind = "cleanup" => o \in us
    PROVE  SoundCall(Cal!Begun(ctl), us)
<1> DEFINE d == Cal!Begun(ctl)
<1>0. ctl \in Made(ctl) /\ ctl.life \in Nat /\ ctl.present \subseteq Peers /\ Wired(ctl.wire) /\ ctl.trans = 0
  BY DEF SoundCall, Shape
<1>1. /\ d.life = ctl.life + 1 /\ d.room = TRUE /\ d.trans = 0 /\ d.link = ctl.link /\ d.present = ctl.present
      /\ d.wire = ctl.wire /\ d.challenge = [p \in Peers |-> 0] /\ d.attempts = [p \in Peers |-> 0]
  BY <1>0 DEF Cal!Begun, Cal!Detached, Cal!NewController, Cal!Blank
<1>2. d \in Made(d)
  <2>1. d.challenge \in [Peers -> Values(d.challenge)] /\ d.attempts \in [Peers -> Values(d.attempts)]
    BY <1>1 DEF Values
  <2> DEFINE e == Cal!Detached(ctl)
  <2>2. e \in Made(e) /\ e.challenge = [p \in Peers |-> 0] /\ e.attempts = [p \in Peers |-> 0]
    BY <1>0, DetachedShape
  <2>3. d = [e EXCEPT !.room = TRUE, !.sig = ctl.sig, !.trans = ctl.trans, !.bound = ctl.bound,
                      !.rendezvous = group.secret, !.trusted = Cal!Members(group), !.revoked = Cal!Removed(group)]
    BY DEF Cal!Begun
  <2> HIDE DEF e, d
  <2>4. d.challenge = e.challenge /\ d.attempts = e.attempts
    BY <2>2, <2>3 DEF Made
  <2> QED
    BY <2>2, <2>3, <2>4 DEF Made
<1> HIDE DEF d
<1>3. Shape(d)
  <2>1. d.life \in Nat
    BY <1>0, <1>1
  <2>2. d.room \in BOOLEAN
    BY <1>1
  <2>3. d.present \subseteq Peers /\ Wired(d.wire)
    BY <1>0, <1>1
  <2> QED
    BY <1>2, <2>1, <2>2, <2>3 DEF Shape
<1>4. \A o \in Started(us) : o = q \/ o \in Started(ts)
  BY DEF Started
<1>5. \A o \in Started(ts) : o.life \in Nat /\ o.life <= ctl.life
  BY DEF SoundCall, Started, Owned, TaskOK
<1>6. \A o \in Started(us) : Owned(o, d)
  <2> TAKE o \in Started(us)
  <2>1. CASE o = q
    BY <1>0, <1>1, <2>1 DEF Owned
  <2>2. CASE o \in Started(ts)
    BY <1>0, <1>1, <1>5, <2>2 DEF Owned
  <2> QED
    BY <1>4, <2>1, <2>2
<1>7. Alone(us)
  <2> SUFFICES ASSUME NEW o \in Started(us), NEW r \in Started(us), o.life = r.life PROVE o = r
    BY DEF Alone
  <2>1. CASE o = q /\ r \in Started(ts)
    BY <1>0, <1>5, <2>1
  <2>2. CASE o \in Started(ts) /\ r = q
    BY <1>0, <1>5, <2>2
  <2>3. CASE o \in Started(ts) /\ r \in Started(ts)
    BY <2>3 DEF SoundCall, Alone
  <2> QED
    BY <1>4, <2>1, <2>2, <2>3
<1>8. Released(d, us)
  BY <1>0, <1>1 DEF Released, SoundCall
<1> QED
  BY <1>1, <1>3, <1>6, <1>7, <1>8 DEF SoundCall, d

LEMMA CallInit ==
    ASSUME Cal!Init
    PROVE  CallInv
<1>1. PICK old \in SUBSET Peers : ctl = [Cal!NewController EXCEPT !.outdated = old]
  BY DEF Cal!Init
<1>2. ops = {}
  BY DEF Cal!Init
<1>3. /\ ctl.life = 0 /\ ctl.room = FALSE /\ ctl.trans = 0 /\ ctl.present = {} /\ ctl.wire = {}
      /\ ctl.challenge = [p \in Peers |-> 0] /\ ctl.attempts = [p \in Peers |-> 0]
      /\ ctl.link = [n \in Cal!Sessions |-> [p \in Peers |-> "none"]]
  BY <1>1 DEF Cal!NewController, Cal!Blank
<1>4. ctl \in Made(ctl)
  <2>1. ctl.challenge \in [Peers -> Values(ctl.challenge)] /\ ctl.attempts \in [Peers -> Values(ctl.attempts)]
    BY <1>3 DEF Values
  <2>2. ctl.media = [n \in Cal!Sessions |-> {}] /\ ctl.media \in [Cal!Sessions -> SUBSET Peers]
    BY <1>1 DEF Cal!NewController
  <2>3. ctl.link \in [Cal!Sessions -> [Peers -> {"none", "new", "open", "shut"}]]
    BY <1>3
  <2>4. /\ ctl.timer = {} /\ ctl.done = {} /\ ctl.ident = {} /\ ctl.revOnly = {} /\ ctl.pendRev = {}
        /\ ctl.wire \subseteq ctl.wire
    BY <1>1 DEF Cal!NewController
  <2>5. ctl = [life |-> ctl.life, room |-> ctl.room, rendezvous |-> ctl.rendezvous, sig |-> ctl.sig,
               trans |-> ctl.trans, bound |-> ctl.bound, ready |-> ctl.ready, trusted |-> ctl.trusted,
               revoked |-> ctl.revoked, challenge |-> ctl.challenge, attempts |-> ctl.attempts,
               timer |-> ctl.timer, done |-> ctl.done, ident |-> ctl.ident, revOnly |-> ctl.revOnly,
               pendRev |-> ctl.pendRev, link |-> ctl.link, media |-> ctl.media, wire |-> ctl.wire,
               online |-> ctl.online, present |-> ctl.present, outdated |-> ctl.outdated]
    BY <1>1 DEF Cal!NewController
  <2>6. ctl.media \in [Cal!Sessions -> SUBSET Peers]
    BY <2>2
  <2> QED
    BY <2>1, <2>3, <2>4, <2>5, <2>6 DEF Made
<1>5. Shape(ctl)
  <2>1. ctl.life \in Nat
    BY <1>3
  <2>2. ctl.room \in BOOLEAN
    BY <1>3
  <2>3. ctl.present \subseteq Peers /\ Wired(ctl.wire)
    BY <1>3 DEF Wired
  <2> QED
    BY <1>4, <2>1, <2>2, <2>3 DEF Shape
<1>6. Released(ctl, ops)
  BY <1>3 DEF Released
<1> QED
  BY <1>2, <1>3, <1>5, <1>6 DEF CallInv, SoundCall, Started, Alone

LEMMA CallMeans ==
    ASSUME CallInv
    PROVE  ConnectionsReleased
BY DEF CallInv, SoundCall, Released, ConnectionsReleased, Sessions, Cal!Sessions

(* ---- The steps ---------------------------------------------------------- *)

LEMMA OthersCome ==
    ASSUME NEW ts, \A o \in ts : TaskOK(o)
    PROVE  /\ Others(ts, ts)
           /\ \A op : op.kind # "cleanup" => Others(ts, ts \ {op})
           /\ \A new : TaskOK(new) /\ new.kind # "join" => Others(ts, ts \cup {new})
           /\ \A op, new : op.kind # "cleanup" /\ TaskOK(new) /\ new.kind # "join" => Others(ts, (ts \ {op}) \cup {new})
BY DEF Others

LEMMA AlikeStep ==
    ASSUME CallInv, Alike(ctl, ctl'), Others(ops, ops')
    PROVE  CallInv'
<1>1. SoundCall(ctl', ops')
  BY AlikeSound DEF CallInv
<1> QED
  BY <1>1 DEF CallInv

LEMMA PeerSteps ==
    ASSUME IsFiniteSet(Peers), CallInv, NEW p \in Peers,
           Cal!PeerAppears(p) \/ Cal!PeerDisappears(p) \/ Cal!PeerReplaced(p) \/ Cal!Offered(p)
    PROVE  CallInv'
<1>1. Shape(ctl) /\ \A o \in ops : TaskOK(o)
  BY DEF CallInv, SoundCall
<1>2. ops' = ops
  BY DEF Cal!PeerAppears, Cal!PeerDisappears, Cal!PeerReplaced, Cal!Offered
<1>3. Others(ops, ops')
  BY <1>1, <1>2, OthersCome
<1>4. ctl.present \subseteq Peers
  BY <1>1 DEF Shape
<1>5. CASE Cal!PeerAppears(p)
  <2> DEFINE c == [ctl EXCEPT !.present = @ \cup {p}]
  <2>1. Alike(ctl, c)
    BY <1>1, <1>4, FieldsAlike
  <2>2. ctl' = c \/ ctl' = Cal!PeerJoined(c, p)
    BY <1>5 DEF Cal!PeerAppears
  <2> HIDE DEF c
  <2>3. Alike(c, Cal!PeerJoined(c, p))
    BY <2>1, JoinedHandled, HandledAlike DEF Alike
  <2> QED
    BY <1>3, <2>1, <2>2, <2>3, AlikeAgain, AlikeStep
<1>6. CASE Cal!PeerDisappears(p)
  <2> DEFINE c == [ctl EXCEPT !.present = @ \ {p}]
  <2>1. Alike(ctl, c)
    BY <1>1, <1>4, FieldsAlike
  <2>2. ctl' = c \/ ctl' = Cal!PeerLeft(c, p)
    BY <1>6 DEF Cal!PeerDisappears
  <2> HIDE DEF c
  <2>3. Alike(c, Cal!PeerLeft(c, p))
    BY <2>1, LeftHandled, HandledAlike DEF Alike
  <2> QED
    BY <1>3, <2>1, <2>2, <2>3, AlikeAgain, AlikeStep
<1>7. CASE Cal!PeerReplaced(p)
  <2> DEFINE a == Cal!PeerLeft(ctl, p)
             b == Cal!PeerJoined(a, p)
  <2>1. a \in Handled(ctl)
    BY <1>1, LeftHandled
  <2>2. Alike(ctl, a)
    <3> HIDE DEF a
    <3> QED
      BY <1>1, <2>1, HandledAlike
  <2>3. Alike(a, b)
    <3> HIDE DEF a
    <3> QED
      BY <2>2, JoinedHandled, HandledAlike DEF Alike
  <2>4. ctl' = b \/ ctl' = ctl
    <3>1. ctl' = (IF Cal!Bound THEN CHOOSE r \in {Cal!PeerJoined(v, p) : v \in {a}} : TRUE ELSE ctl)
      BY <1>7 DEF Cal!PeerReplaced, Cal!With
    <3>2. {Cal!PeerJoined(v, p) : v \in {a}} = {b}
      OBVIOUS
    <3> HIDE DEF a, b
    <3> QED
      BY <3>1, <3>2, OneOf
  <2> HIDE DEF a, b
  <2>5. Alike(ctl, b) /\ Alike(ctl, ctl)
    BY <1>1, <2>2, <2>3, AlikeAgain, FieldsAlike
  <2> QED
    BY <1>3, <2>4, <2>5, AlikeStep
<1>8. CASE Cal!Offered(p)
  <2> DEFINE a == Cal!Admit(ctl, p)
             c == Cal!EnforceMeshCapacity(a)
  <2>1. a \in Handled(ctl)
    BY <1>1, AdmissionHandled
  <2>2. Alike(ctl, a)
    <3> HIDE DEF a
    <3> QED
      BY <1>1, <2>1, HandledAlike
  <2>3. Alike(a, c)
    <3> HIDE DEF a
    <3> QED
      BY <2>2, AdmissionHandled, HandledAlike DEF Alike
  <2>4. ctl' = c \/ ctl' = Cal!ConnectPeer(c, c.trans, p)
    BY <1>8 DEF Cal!Offered
  <2> HIDE DEF a, c
  <2>5. Alike(c, Cal!ConnectPeer(c, c.trans, p))
    BY <2>3, ConnectHandled, HandledAlike DEF Alike
  <2>6. Alike(ctl, c)
    BY <2>2, <2>3, AlikeAgain
  <2> QED
    BY <1>3, <2>4, <2>5, <2>6, AlikeAgain, AlikeStep
<1> QED
  BY <1>5, <1>6, <1>7, <1>8

(* A connection that exists changes its state.                              *)
LEMMA LinkAlike ==
    ASSUME NEW c, Shape(c), NEW n \in Cal!Sessions, NEW p \in Peers, c.link[n][p] # "none" \/ n = c.trans,
           NEW w, w \subseteq c.wire, NEW x \in {"new", "open", "shut"}
    PROVE  /\ Alike(c, [c EXCEPT !.link[n][p] = x, !.wire = w])
           /\ Alike(c, [c EXCEPT !.link[n][p] = x])
<1> DEFINE l == [c.link EXCEPT ![n] = [c.link[n] EXCEPT ![p] = x]]
           d == [c EXCEPT !.link = l, !.wire = w]
           e == [c EXCEPT !.link = l]
<1>1. c \in Made(c) /\ Wired(c.wire) /\ c.life \in Nat /\ c.room \in BOOLEAN /\ c.present \subseteq Peers
      /\ c.link \in [Cal!Sessions -> [Peers -> {"none", "new", "open", "shut"}]]
  BY DEF Shape, Made
<1>2. l \in [Cal!Sessions -> [Peers -> {"none", "new", "open", "shut"}]]
  BY <1>1
<1>3. \A k \in Cal!Sessions, q \in Peers : l[k][q] # "none" => c.link[k][q] # "none" \/ k = c.trans
  BY <1>1
<1>4. [c EXCEPT !.link[n][p] = x, !.wire = w] = d /\ [c EXCEPT !.link[n][p] = x] = e
  BY <1>1 DEF Made
<1> HIDE DEF l
<1>5. /\ d.challenge = c.challenge /\ d.attempts = c.attempts /\ d.link = l /\ d.wire = w
      /\ d.life = c.life /\ d.room = c.room /\ d.trans = c.trans /\ d.present = c.present
  BY <1>1 DEF Made
<1>6. /\ e.challenge = c.challenge /\ e.attempts = c.attempts /\ e.link = l /\ e.wire = c.wire
      /\ e.life = c.life /\ e.room = c.room /\ e.trans = c.trans /\ e.present = c.present
  BY <1>1 DEF Made
<1>7. d \in Made(d)
  BY <1>1, <1>2, <1>5 DEF Made
<1>8. e \in Made(e)
  BY <1>1, <1>2, <1>6 DEF Made
<1>9. Wired(w)
  BY <1>1 DEF Wired
<1> HIDE DEF d, e
<1>10. Shape(d) /\ Shape(e)
  BY <1>1, <1>5, <1>6, <1>7, <1>8, <1>9 DEF Shape
<1>11. OwnLinks(c, d) /\ OwnLinks(c, e)
  BY <1>3, <1>5, <1>6 DEF OwnLinks
<1> QED
  BY <1>4, <1>5, <1>6, <1>10, <1>11 DEF Alike

LEMMA ResetAlike ==
    ASSUME NEW c, Shape(c), NEW p \in Peers
    PROVE  Alike(c, Cal!OnPeerReset(c, p))
<1> DEFINE b == [c EXCEPT !.done = @ \ {p}, !.ident = @ \ {p}]
           a == Cal!Forget(b, p)
           d == Cal!Admit(a, p)
<1>1. b \in Handled(c)
  BY FieldsHandled
<1>2. Alike(c, b)
  <2> HIDE DEF b
  <2> QED
    BY <1>1, HandledAlike
<1>3. Alike(b, a)
  <2> HIDE DEF b
  <2> QED
    BY <1>2, ForgetHandled, HandledAlike DEF Alike
<1>4. Alike(a, d)
  <2> HIDE DEF a
  <2> QED
    BY <1>3, AdmissionHandled, HandledAlike DEF Alike
<1>5. Alike(d, Cal!Schedule(d, p))
  <2> HIDE DEF d
  <2> QED
    BY <1>4, AdmissionHandled, HandledAlike DEF Alike
<1>6. Cal!OnPeerReset(c, p) = a \/ Cal!OnPeerReset(c, p) = Cal!Schedule(d, p)
  BY DEF Cal!OnPeerReset
<1> HIDE DEF a, b, d
<1>7. Alike(c, a)
  BY <1>2, <1>3, AlikeAgain
<1>8. Alike(c, d)
  BY <1>4, <1>7, AlikeAgain
<1>9. Alike(c, Cal!Schedule(d, p))
  BY <1>5, <1>8, AlikeAgain
<1> QED
  BY <1>6, <1>7, <1>9

LEMMA RecreateAlike ==
    ASSUME NEW c, Shape(c), NEW n, NEW p \in Peers, n \in Cal!Sessions => c.link[n][p] # "none" \/ n = c.trans
    PROVE  Alike(c, Cal!Recreate(c, n, p))
<1> DEFINE a == Cal!DisconnectPeer(c, n, p)
           b == [a EXCEPT !.link[n][p] = "new"]
<1>1. a \in Handled(c)
  BY DisconnectHandled DEF Cal!DisconnectPeer
<1>2. Alike(c, b)
  <2> DEFINE l == [c.link EXCEPT ![n] = [[q \in Peers |-> IF q \in {p} THEN "none" ELSE c.link[n][q]] EXCEPT ![p] = "new"]]
             k == [a.link EXCEPT ![n] = [a.link[n] EXCEPT ![p] = "new"]]
  <2>1. a \in Made(c) /\ OwnLinks(c, a) /\ Shape(a) /\ a.trans = c.trans /\ a.life = c.life /\ a.room = c.room
        /\ a.present \subseteq Peers /\ Wired(a.wire)
    <3> HIDE DEF a
    <3> QED
      BY <1>1, HandledAgain DEF Handled, Shape
  <2>2. a.link \in [Cal!Sessions -> [Peers -> {"none", "new", "open", "shut"}]]
    <3> HIDE DEF a
    <3> QED
      BY <2>1 DEF Made
  <2> HIDE DEF a
  <2>3. k \in [Cal!Sessions -> [Peers -> {"none", "new", "open", "shut"}]]
    <3>1. CASE n \in Cal!Sessions
      BY <2>2, <3>1
    <3>2. CASE n \notin Cal!Sessions
      BY <2>2, <3>2
    <3> QED
      BY <3>1, <3>2
  <2>4. \A m \in Cal!Sessions, q \in Peers : k[m][q] # "none" => a.link[m][q] # "none" \/ (m = n /\ q = p)
    BY <2>2
  <2>5. b = [a EXCEPT !.link = k]
    BY <2>1 DEF Made
  <2> HIDE DEF k
  <2>6. /\ b.challenge = a.challenge /\ b.attempts = a.attempts /\ b.link = k /\ b.wire = a.wire
        /\ b.life = a.life /\ b.room = a.room /\ b.trans = a.trans /\ b.present = a.present
    BY <2>1, <2>5 DEF Made
  <2>7. a \in Made(a)
    BY <2>1 DEF Shape
  <2>8. b \in Made(b)
    BY <2>3, <2>5, <2>6, <2>7 DEF Made
  <2> HIDE DEF b
  <2>9. b.life \in Nat /\ b.room \in BOOLEAN
    BY <2>1, <2>6 DEF Shape
  <2>10. Shape(b)
    BY <2>1, <2>6, <2>8, <2>9 DEF Shape
  <2>11. OwnLinks(c, b)
    BY <2>1, <2>4, <2>6 DEF OwnLinks
  <2> QED
    BY <2>1, <2>6, <2>10, <2>11 DEF Alike
<1>3. Cal!Recreate(c, n, p) = Cal!OnPeerReset(b, p)
  BY DEF Cal!Recreate
<1> HIDE DEF b
<1>4. Alike(b, Cal!OnPeerReset(b, p))
  BY <1>2, ResetAlike DEF Alike
<1> QED
  BY <1>2, <1>3, <1>4, AlikeAgain

LEMMA ClosedAlike ==
    ASSUME NEW c, Shape(c), NEW p \in Peers
    PROVE  Alike(c, Cal!ChannelClosed(c, p))
<1> DEFINE a == Cal!Admit(c, p)
           b == [a EXCEPT !.done = @ \ {p}]
           d == Cal!Forget(b, p)
<1>1. Alike(c, a)
  BY AdmissionHandled, HandledAlike
<1>2. Alike(a, b)
  <2> HIDE DEF a
  <2>1. b \in Handled(a)
    BY <1>1, FieldsHandled DEF Alike
  <2> HIDE DEF b
  <2> QED
    BY <1>1, <2>1, HandledAlike DEF Alike
<1>3. Alike(b, d)
  <2> HIDE DEF b
  <2> QED
    BY <1>2, ForgetHandled, HandledAlike DEF Alike
<1>4. Alike(d, Cal!Schedule(d, p))
  <2> HIDE DEF d
  <2> QED
    BY <1>3, AdmissionHandled, HandledAlike DEF Alike
<1>5. Alike(a, Cal!Schedule(a, p))
  <2> HIDE DEF a
  <2> QED
    BY <1>1, AdmissionHandled, HandledAlike DEF Alike
<1>6. Cal!ChannelClosed(c, p) \in {c, Cal!Schedule(d, p), Cal!Schedule(a, p)}
  BY DEF Cal!ChannelClosed
<1> HIDE DEF a, b, d
<1>7. Alike(c, c)
  BY FieldsAlike
<1>8. Alike(c, Cal!Schedule(a, p))
  BY <1>1, <1>5, AlikeAgain
<1>9. Alike(c, b)
  BY <1>1, <1>2, AlikeAgain
<1>10. Alike(c, d)
  BY <1>3, <1>9, AlikeAgain
<1>11. Alike(c, Cal!Schedule(d, p))
  BY <1>4, <1>10, AlikeAgain
<1> QED
  BY <1>6, <1>7, <1>8, <1>11

LEMMA LinkSteps ==
    ASSUME CallInv, NEW n \in Cal!Sessions, NEW p \in Peers,
           Cal!LinkOpens(n, p) \/ Cal!LinkCloses(n, p) \/ Cal!LinkResets(n, p)
    PROVE  CallInv'
<1>1. Shape(ctl) /\ \A o \in ops : TaskOK(o)
  BY DEF CallInv, SoundCall
<1>2. ops' = ops
  BY DEF Cal!LinkOpens, Cal!LinkCloses, Cal!LinkResets
<1>3. Others(ops, ops')
  BY <1>1, <1>2, OthersCome
<1>4. ctl.link[n][p] # "none"
  BY DEF Cal!LinkOpens, Cal!LinkCloses, Cal!LinkResets
<1>5. CASE Cal!LinkOpens(n, p)
  <2> DEFINE c == [ctl EXCEPT !.link[n][p] = "open"]
  <2>1. Alike(ctl, c)
    BY <1>1, <1>4, LinkAlike
  <2>2. ctl' = Cal!ChannelOpened(c, p)
    BY <1>5 DEF Cal!LinkOpens
  <2> HIDE DEF c
  <2>3. Alike(c, c) /\ Shape(c)
    BY <2>1, FieldsAlike DEF Alike
  <2>4. Alike(c, ctl')
    BY <2>2, <2>3, ChallengeAlike
  <2> QED
    BY <1>3, <2>1, <2>4, AlikeAgain, AlikeStep
<1>6. CASE Cal!LinkCloses(n, p)
  <2> DEFINE w == {m \in ctl.wire : ~(m.n = n /\ m.peer = p)}
             c == [ctl EXCEPT !.link[n][p] = "shut", !.wire = w]
  <2>1. w \subseteq ctl.wire
    OBVIOUS
  <2>2. ctl' = Cal!ChannelClosed(c, p)
    BY <1>6 DEF Cal!LinkCloses
  <2> HIDE DEF w
  <2>3. Alike(ctl, c)
    BY <1>1, <1>4, <2>1, LinkAlike
  <2> HIDE DEF c
  <2>4. Alike(c, ctl')
    BY <2>2, <2>3, ClosedAlike DEF Alike
  <2> QED
    BY <1>3, <2>3, <2>4, AlikeAgain, AlikeStep
<1>7. CASE Cal!LinkResets(n, p)
  BY <1>1, <1>3, <1>4, <1>7, RecreateAlike, AlikeStep DEF Cal!LinkResets
<1> QED
  BY <1>5, <1>6, <1>7

LEMMA MessageSteps ==
    ASSUME CallInv, NEW m \in ctl.wire, Cal!RemoteAnswers(m) \/ Cal!ProofArrives(m)
    PROVE  CallInv'
<1>1. Shape(ctl) /\ (\A o \in ops : TaskOK(o)) /\ Wired(ctl.wire)
  BY DEF CallInv, SoundCall, Shape
<1> DEFINE w == ctl.wire \ {m}
           c == [ctl EXCEPT !.wire = w]
<1>2. m \in [type : {m.type}, n : {m.n}, peer : Peers, nonce : {m.nonce}, good : {m.good}]
  BY <1>1 DEF Wired
<1>3. Wired(w)
  BY <1>1 DEF Wired
<1>4. Alike(ctl, c)
  <2> HIDE DEF w
  <2> QED
    BY <1>1, <1>3, FieldsAlike
<1>5. ASSUME Cal!RemoteAnswers(m) PROVE CallInv'
  <2> DEFINE a == [m EXCEPT !.type = "proof"]
             b == [m EXCEPT !.type = "proof", !.good = FALSE]
  <2>1. c.wire = w
    BY <1>1 DEF Shape, Made
  <2>2. Wired(w \cup {a}) /\ Wired(w \cup {b})
    BY <1>2, <1>3 DEF Wired
  <2>3. ctl' \in {c, [c EXCEPT !.wire = w \cup {a}], [c EXCEPT !.wire = w \cup {b}]} /\ ops' = ops
    BY <1>5, <2>1 DEF Cal!RemoteAnswers
  <2> HIDE DEF a, b, w, c
  <2>4. Alike(c, [c EXCEPT !.wire = w \cup {a}]) /\ Alike(c, [c EXCEPT !.wire = w \cup {b}])
    <3>1. Shape(c)
      BY <1>4 DEF Alike
    <3>2. \A x : Wired(x) => Alike(c, [c EXCEPT !.wire = x])
      BY <3>1, FieldsAlike
    <3> QED
      BY <2>2, <3>2
  <2>5. Alike(ctl, ctl')
    BY <1>4, <2>3, <2>4, AlikeAgain
  <2> QED
    BY <1>1, <2>3, <2>5, OthersCome, AlikeStep
<1>6. ASSUME Cal!ProofArrives(m) PROVE CallInv'
  <2> DEFINE new == [kind |-> "verify", life |-> c.life, n |-> c.trans, peer |-> m.peer, nonce |-> m.nonce,
                     good |-> m.good, removed |-> m.peer \in c.revoked]
             a == [c EXCEPT !.pendRev = @ \ {m.peer}]
             b == Cal!Forget(a, m.peer)
  <2>1. m.peer \in Peers
    BY <1>2
  <2>2. TaskOK(new) /\ new.kind = "verify"
    BY <2>1 DEF TaskOK, TaskKinds
  <2>3. \/ ctl' = Cal!RejectIncompatible(c, m.peer) /\ ops' = ops
        \/ ctl' = c /\ (ops' = ops \/ ops' = ops \cup {new})
    BY <1>6 DEF Cal!ProofArrives, Cal!Start
  <2>4. Others(ops, ops')
    <3> HIDE DEF new, c
    <3> QED
      BY <1>1, <2>2, <2>3, OthersCome
  <2> HIDE DEF c
  <2>5. a \in Handled(c)
    BY <1>4, <2>1, FieldsHandled DEF Alike
  <2>6. Alike(c, a)
    <3> HIDE DEF a
    <3> QED
      BY <1>4, <2>5, HandledAlike DEF Alike
  <2>7. Alike(a, b)
    <3> HIDE DEF a
    <3> QED
      BY <2>1, <2>6, ForgetHandled, HandledAlike DEF Alike
  <2>8. Alike(b, Cal!DisconnectPeer(b, b.trans, m.peer))
    <3> HIDE DEF b
    <3> QED
      BY <2>1, <2>7, AdmissionHandled, HandledAlike DEF Alike
  <2>9. Cal!RejectIncompatible(c, m.peer) \in {b, Cal!DisconnectPeer(b, b.trans, m.peer)}
    BY DEF Cal!RejectIncompatible
  <2> HIDE DEF a, b
  <2>10. Alike(c, b)
    BY <2>6, <2>7, AlikeAgain
  <2>11. Alike(c, Cal!DisconnectPeer(b, b.trans, m.peer))
    BY <2>8, <2>10, AlikeAgain
  <2>12. Alike(c, Cal!RejectIncompatible(c, m.peer))
    BY <2>9, <2>10, <2>11
  <2>13. Alike(ctl, Cal!RejectIncompatible(c, m.peer))
    BY <1>4, <2>12, AlikeAgain
  <2> QED
    BY <1>4, <2>3, <2>4, <2>13, AlikeStep
<1> QED
  BY <1>5, <1>6

(* acceptAuthProof: the peer is identified and its media are decided.       *)
LEMMA AcceptedAlike ==
    ASSUME NEW c, Shape(c), NEW op, op.peer \in Peers
    PROVE  Alike(c, Cal!Accepted(c, op))
<1> DEFINE p == op.peer
           f == Cal!Forget(c, p)
           a == [f EXCEPT !.ident = @ \cup {p}, !.done = @ \cup {p}]
<1>1. f \in Handled(c)
  BY ForgetHandled
<1>2. Alike(c, f)
  <2> HIDE DEF f
  <2> QED
    BY <1>1, HandledAlike
<1>3. Alike(f, a)
  <2>0. p \in Peers
    OBVIOUS
  <2> HIDE DEF f, p
  <2>1. f \in Made(f) /\ f.life \in Nat /\ f.present \subseteq Peers /\ Wired(f.wire) /\ Shape(f)
    BY <1>2 DEF Alike, Shape
  <2>2. /\ a.challenge = f.challenge /\ a.attempts = f.attempts /\ a.link = f.link /\ a.wire = f.wire
        /\ a.life = f.life /\ a.room = f.room /\ a.trans = f.trans /\ a.present = f.present
    BY <2>1 DEF Made
  <2>3. a \in Made(a)
    <3>1. f.ident \cup {p} \subseteq Peers /\ f.done \cup {p} \subseteq Peers
      BY <2>0, <2>1 DEF Made
    <3> QED
      BY <2>1, <2>2, <3>1 DEF Made
  <2> HIDE DEF a
  <2> QED
    BY <2>1, <2>2, <2>3, UnchallengedAlike
<1>4. ASSUME NEW g \in [Cal!Sessions -> SUBSET Peers], NEW x \in SUBSET Peers, NEW y \in SUBSET Peers, Alike(c, a)
      PROVE  Alike(a, [a EXCEPT !.pendRev = x, !.revOnly = y, !.media = g])
  <2> DEFINE d == [a EXCEPT !.pendRev = x, !.revOnly = y, !.media = g]
  <2> HIDE DEF a
  <2>1. a \in Made(a) /\ a.present \subseteq Peers /\ Wired(a.wire) /\ Shape(a)
    BY <1>4 DEF Alike, Shape
  <2>2. /\ d.challenge = a.challenge /\ d.attempts = a.attempts /\ d.link = a.link /\ d.wire = a.wire
        /\ d.life = a.life /\ d.room = a.room /\ d.trans = a.trans /\ d.present = a.present
    BY <2>1 DEF Made
  <2>3. d \in Made(d)
    BY <2>1, <2>2 DEF Made
  <2> HIDE DEF d
  <2>4. Alike(a, d)
    BY <2>1, <2>2, <2>3, UnchallengedAlike
  <2> QED
    BY <2>4 DEF d
<1>5. Cal!Accepted(c, op) = IF p \in c.revoked
        THEN [a EXCEPT !.pendRev = @ \ {p}, !.revOnly = @ \cup {p}, !.media[op.n] = @ \ {p}]
        ELSE [a EXCEPT !.media[op.n] = @ \cup {p}]
  BY DEF Cal!Accepted
<1> HIDE DEF f, a
<1>6. Alike(c, a)
  BY <1>2, <1>3, AlikeAgain
<1>7. a \in Made(a) /\ a.pendRev \in SUBSET Peers /\ a.revOnly \in SUBSET Peers /\ a.media \in [Cal!Sessions -> SUBSET Peers]
  BY <1>6 DEF Alike, Shape, Made
<1> DEFINE g == [a.media EXCEPT ![op.n] = a.media[op.n] \ {p}]
           h == [a.media EXCEPT ![op.n] = a.media[op.n] \cup {p}]
           k == a.pendRev \ {p}
           r == a.revOnly \cup {p}
<1>8. g \in [Cal!Sessions -> SUBSET Peers] /\ h \in [Cal!Sessions -> SUBSET Peers] /\ k \in SUBSET Peers /\ r \in SUBSET Peers
  BY <1>7
<1>9. /\ [a EXCEPT !.pendRev = @ \ {p}, !.revOnly = @ \cup {p}, !.media[op.n] = @ \ {p}] = [a EXCEPT !.pendRev = k, !.revOnly = r, !.media = g]
      /\ [a EXCEPT !.media[op.n] = @ \cup {p}] = [a EXCEPT !.pendRev = a.pendRev, !.revOnly = a.revOnly, !.media = h]
  BY <1>7 DEF Made
<1> HIDE DEF g, h, k, r
<1>10. Alike(a, [a EXCEPT !.pendRev = k, !.revOnly = r, !.media = g]) /\ Alike(a, [a EXCEPT !.pendRev = a.pendRev, !.revOnly = a.revOnly, !.media = h])
  BY <1>4, <1>6, <1>7, <1>8
<1>11. Alike(a, Cal!Accepted(c, op))
  BY <1>5, <1>9, <1>10
<1> QED
  BY <1>6, <1>11, AlikeAgain

LEMMA ProofStep ==
    ASSUME CallInv, NEW op \in ops, Cal!ProofVerified(op)
    PROVE  CallInv'
<1>1. Shape(ctl) /\ \A o \in ops : TaskOK(o)
  BY DEF CallInv, SoundCall
<1>2. op.kind = "verify" /\ op.peer \in Peers
  BY <1>1 DEF Cal!ProofVerified, TaskOK
<1>3. ops' = ops \ {op} /\ ctl' \in {ctl, Cal!Accepted(ctl, op)}
  BY DEF Cal!ProofVerified, Cal!Finish
<1>4. Others(ops, ops')
  BY <1>1, <1>2, <1>3, OthersCome
<1>5. Alike(ctl, ctl) /\ Alike(ctl, Cal!Accepted(ctl, op))
  BY <1>1, <1>2, AcceptedAlike, FieldsAlike
<1> QED
  BY <1>3, <1>4, <1>5, AlikeStep

LEMMA TimerStep ==
    ASSUME CallInv, NEW p \in Peers, Cal!TimerFires(p)
    PROVE  CallInv'
<1>1. Shape(ctl) /\ \A o \in ops : TaskOK(o)
  BY DEF CallInv, SoundCall
<1> DEFINE c == [ctl EXCEPT !.timer = @ \ {p}]
           a == [c EXCEPT !.challenge[p] = 0, !.attempts[p] = 0]
           op == [kind |-> "recover", life |-> c.life, n |-> c.trans, peer |-> p, failed |-> c.link[c.trans][p] = "none"]
           e == Cal!Admit(c, p)
           f == Cal!Admit(a, p)
<1>2. Alike(ctl, c)
  <2>1. ctl \in Made(ctl) /\ Wired(ctl.wire) /\ ctl.present \subseteq Peers
    BY <1>1 DEF Shape
  <2>2. /\ c.challenge = ctl.challenge /\ c.attempts = ctl.attempts /\ c.link = ctl.link /\ c.wire = ctl.wire
        /\ c.life = ctl.life /\ c.room = ctl.room /\ c.trans = ctl.trans /\ c.present = ctl.present
    BY <2>1 DEF Made
  <2>3. c \in Made(c)
    BY <2>1, <2>2 DEF Made
  <2> HIDE DEF c
  <2> QED
    BY <1>1, <2>1, <2>2, <2>3, UnchallengedAlike
<1>3. TaskOK(op) /\ op.kind = "recover"
  BY DEF TaskOK, TaskKinds
<1>4. \/ ctl' = c /\ ops' = ops
      \/ ctl' = Cal!SendAuthChallenge(e, p) /\ ops' = ops
      \/ ctl' = f /\ ops' = ops \cup {op}
      \/ ctl' = Cal!Recreate(f, c.trans, p) /\ ops' = ops \cup {op}
  BY DEF Cal!TimerFires, Cal!Start
<1> HIDE DEF op, c
<1>5. Others(ops, ops')
  BY <1>1, <1>3, <1>4, OthersCome
<1>6. Alike(c, a)
  BY <1>2, ChallengeAlike DEF Alike
<1> HIDE DEF a
<1>7. Alike(c, e) /\ Alike(a, f)
  BY <1>2, <1>6, AdmissionHandled, HandledAlike DEF Alike
<1> HIDE DEF e, f
<1>8. Alike(e, Cal!SendAuthChallenge(e, p))
  BY <1>7, ChallengeAlike DEF Alike
<1>9. f.trans = c.trans
  BY <1>6, <1>7 DEF Alike
<1>10. Alike(f, Cal!Recreate(f, c.trans, p))
  BY <1>7, <1>9, RecreateAlike DEF Alike
<1>11. Alike(ctl, e) /\ Alike(ctl, a)
  BY <1>2, <1>6, <1>7, AlikeAgain
<1>12. Alike(ctl, f)
  BY <1>7, <1>11, AlikeAgain
<1>13. Alike(ctl, Cal!SendAuthChallenge(e, p)) /\ Alike(ctl, Cal!Recreate(f, c.trans, p))
  BY <1>8, <1>10, <1>11, <1>12, AlikeAgain
<1> QED
  BY <1>2, <1>4, <1>5, <1>12, <1>13, AlikeStep

LEMMA RecoveryStep ==
    ASSUME CallInv, NEW op \in ops, Cal!RecoverySettles(op)
    PROVE  CallInv'
<1>1. Shape(ctl) /\ \A o \in ops : TaskOK(o)
  BY DEF CallInv, SoundCall
<1>2. op.kind = "recover" /\ op.peer \in Peers
  BY <1>1 DEF Cal!RecoverySettles, TaskOK
<1> DEFINE current == Cal!IsActive(ctl, op.life) /\ ctl.trans = op.n
           d == Cal!DisconnectPeer(ctl, op.n, op.peer)
           c == IF op.failed \/ faults' # faults THEN (IF current THEN Cal!ConnectPeer(d, op.n, op.peer) ELSE d) ELSE ctl
<1>3. ops' = ops \ {op} /\ ctl' = IF current THEN Cal!Schedule(c, op.peer) ELSE c
  BY DEF Cal!RecoverySettles, Cal!Finish
<1>4. Others(ops, ops')
  BY <1>1, <1>2, <1>3, OthersCome
<1>5. Alike(ctl, d)
  BY <1>1, <1>2, DisconnectHandled, HandledAlike DEF Cal!DisconnectPeer
<1> HIDE DEF d
<1>6. d.trans = ctl.trans
  BY <1>5 DEF Alike
<1>7. Alike(d, Cal!ConnectPeer(d, d.trans, op.peer))
  BY <1>2, <1>5, ConnectHandled, HandledAlike DEF Alike
<1>8. Alike(ctl, Cal!ConnectPeer(d, d.trans, op.peer)) /\ Alike(ctl, ctl)
  BY <1>1, <1>5, <1>7, AlikeAgain, FieldsAlike
<1>9. Alike(ctl, c)
  BY <1>5, <1>6, <1>8
<1> HIDE DEF c
<1>10. Alike(c, Cal!Schedule(c, op.peer))
  BY <1>2, <1>9, AdmissionHandled, HandledAlike DEF Alike
<1>11. Alike(ctl, Cal!Schedule(c, op.peer))
  BY <1>9, <1>10, AlikeAgain
<1> QED
  BY <1>3, <1>4, <1>9, <1>11, AlikeStep

LEMMA GroupSteps ==
    ASSUME CallInv,
           (\E p \in Peers, st \in Cal!Standings : Cal!GroupChanges(p, st))
             \/ (\E p \in Peers, q \in Peers \cup {Me} : Cal!CertificateArrives(p, q))
    PROVE  CallInv'
<1>1. Shape(ctl) /\ \A o \in ops : TaskOK(o)
  BY DEF CallInv, SoundCall
<1> DEFINE refresh == Cal!RefreshOp(ctl.life)
<1>2. TaskOK(refresh) /\ refresh.kind = "refresh"
  BY DEF Cal!RefreshOp, TaskOK, TaskKinds
<1>3. ASSUME NEW q
      PROVE  /\ TaskOK([kind |-> "certificate", life |-> ctl.life, id |-> faults', target |-> q])
             /\ [kind |-> "certificate", life |-> ctl.life, id |-> faults', target |-> q].kind # "join"
  BY DEF TaskOK, TaskKinds
<1>4. /\ ctl' = ctl
      /\ \/ ops' = ops
         \/ ops' = ops \cup {refresh}
         \/ \E q : ops' = ops \cup {[kind |-> "certificate", life |-> ctl.life, id |-> faults', target |-> q]}
  BY DEF Cal!GroupChanges, Cal!CertificateArrives, Cal!Start
<1> HIDE DEF refresh
<1>5. Others(ops, ops')
  BY <1>1, <1>2, <1>3, <1>4, OthersCome
<1>6. Alike(ctl, ctl')
  BY <1>1, <1>4, FieldsAlike
<1> QED
  BY <1>5, <1>6, AlikeStep

(* cleanup, called by a function that ends with it.                         *)
LEMMA DetachStep ==
    ASSUME CallInv, NEW op, op.kind # "cleanup", ctl' = Cal!Detached(ctl), ops' = (ops \ {op}) \cup Cal!CleanupOps(ctl)
    PROVE  CallInv'
<1>1. \A o \in Cal!CleanupOps(ctl) : TaskOK(o) /\ o.kind = "cleanup"
  BY DEF Cal!CleanupOps, TaskOK, TaskKinds
<1>2. \A o \in ops' : TaskOK(o) /\ (o.kind = "join" /\ o.step # "leaving" => o \in ops)
  BY <1>1 DEF CallInv, SoundCall
<1>3. \A o \in ops : o.kind = "cleanup" => o \in ops'
  OBVIOUS
<1>4. SoundCall(Cal!Detached(ctl), ops')
  BY <1>2, <1>3, DetachedSound DEF CallInv
<1> QED
  BY <1>4 DEF CallInv

LEMMA CertificateStep ==
    ASSUME CallInv, NEW op \in ops, Cal!CertificateApplied(op)
    PROVE  CallInv'
<1>1. Shape(ctl) /\ \A o \in ops : TaskOK(o)
  BY DEF CallInv, SoundCall
<1>2. op.kind = "certificate"
  BY DEF Cal!CertificateApplied
<1> DEFINE refresh == [kind |-> "refresh", life |-> ctl.life, id |-> op.id, step |-> "load", snap |-> group, todo |-> {}]
<1>3. TaskOK(refresh) /\ refresh.kind = "refresh"
  BY DEF TaskOK, TaskKinds
<1>4. CASE ctl' = Cal!Detached(ctl) /\ ops' = (ops \ {op}) \cup Cal!CleanupOps(ctl)
  BY <1>2, <1>4, DetachStep
<1>5. CASE ctl' = ctl /\ (ops' = ops \ {op} \/ ops' = (ops \ {op}) \cup {refresh})
  <2> HIDE DEF refresh
  <2>1. Others(ops, ops')
    <3>1. CASE ops' = ops \ {op}
      BY <1>1, <1>2, <3>1, OthersCome
    <3>2. CASE ops' = (ops \ {op}) \cup {refresh}
      BY <1>1, <1>2, <1>3, <3>2, OthersCome
    <3> QED
      BY <1>5, <3>1, <3>2
  <2>2. Alike(ctl, ctl')
    BY <1>1, <1>5, FieldsAlike
  <2> QED
    BY <2>1, <2>2, AlikeStep
<1> QED
  BY <1>4, <1>5 DEF Cal!CertificateApplied, Cal!Finish, Cal!Become

LEMMA ReviewedAlike ==
    ASSUME NEW c, Shape(c), NEW p \in Peers
    PROVE  Alike(c, Cal!Reviewed(c, p))
<1> DEFINE g == [c.media EXCEPT ![c.trans] = c.media[c.trans] \ {p}]
           r == c.revOnly \cup {p}
           a == [c EXCEPT !.revOnly = r, !.media = g]
           b == [c EXCEPT !.done = @ \ {p}, !.ident = @ \ {p}]
<1>1. c \in Made(c) /\ c.present \subseteq Peers /\ Wired(c.wire)
  BY DEF Shape
<1>2. g \in [Cal!Sessions -> SUBSET Peers] /\ r \in SUBSET Peers
  BY <1>1 DEF Made
<1>3. [c EXCEPT !.revOnly = @ \cup {p}, !.media[c.trans] = @ \ {p}] = a
  BY <1>1 DEF Made
<1>4. Alike(c, a)
  <2> HIDE DEF g, r
  <2>1. /\ a.challenge = c.challenge /\ a.attempts = c.attempts /\ a.link = c.link /\ a.wire = c.wire
        /\ a.life = c.life /\ a.room = c.room /\ a.trans = c.trans /\ a.present = c.present
    BY <1>1 DEF Made
  <2>2. a \in Made(a)
    BY <1>1, <1>2, <2>1 DEF Made
  <2> HIDE DEF a
  <2> QED
    BY <1>1, <2>1, <2>2, UnchallengedAlike
<1>5. b \in Handled(c)
  BY FieldsHandled
<1>6. Alike(c, b)
  <2> HIDE DEF b
  <2> QED
    BY <1>5, HandledAlike
<1>7. Cal!Reviewed(c, p) \in {a, Cal!DisconnectPeer(b, c.trans, p), c}
  BY <1>3 DEF Cal!Reviewed
<1> HIDE DEF a, b
<1>8. Alike(b, Cal!DisconnectPeer(b, c.trans, p))
  BY <1>6, DisconnectHandled, HandledAlike DEF Alike, Cal!DisconnectPeer
<1>9. Alike(c, Cal!DisconnectPeer(b, c.trans, p)) /\ Alike(c, c)
  BY <1>6, <1>8, AlikeAgain, FieldsAlike
<1> QED
  BY <1>4, <1>7, <1>9

(* The provider leaves the rendezvous, reporting everyone as gone, and      *)
(* joins the next one.                                                      *)
LEMMA MovedAlike ==
    ASSUME IsFiniteSet(Peers), NEW c, Shape(c), NEW secret
    PROVE  Alike(c, Cal!Moved(c, secret))
<1> DEFINE a == [c EXCEPT !.rendezvous = secret]
           D == Cal!PresencePeers(c)
           b == EachLeft(a, D)
           d == [b EXCEPT !.online = @ \ {c.sig}, !.present = {}]
<1>1. Alike(c, a)
  BY FieldsAlike
<1>2. D \in SUBSET Peers
  BY DEF Cal!PresencePeers, Shape
<1>3. Cal!Moved(c, secret) = CHOOSE r \in {[v EXCEPT !.online = @ \ {c.sig}, !.present = {}] : v \in {b}} : TRUE
  BY DEF Cal!Moved, Cal!With, EachLeft
<1>4. {[v EXCEPT !.online = @ \ {c.sig}, !.present = {}] : v \in {b}} = {d}
  OBVIOUS
<1>5. Cal!Moved(c, secret) = d
  <2> HIDE DEF d
  <2> QED
    BY <1>3, <1>4, OneOf
<1> HIDE DEF a, D
<1>6. Alike(a, b)
  BY <1>1, <1>2, EachLeftHandled, HandledAlike DEF Alike
<1> HIDE DEF b
<1>7. Alike(b, d)
  <2>1. Shape(b)
    BY <1>6 DEF Alike
  <2> QED
    BY <2>1, FieldsAlike
<1> HIDE DEF d
<1> QED
  BY <1>1, <1>5, <1>6, <1>7, AlikeAgain

Rejoined(c, life) ==
    Cal!With(Cal!Each(c.present, [c EXCEPT !.online = @ \cup {c.sig}], Cal!PeerJoined),
             LAMBDA v : Cal!ConnectPresent(v, life))

LEMMA RejoinedAlike ==
    ASSUME IsFiniteSet(Peers), NEW c, Shape(c), NEW life
    PROVE  Alike(c, Rejoined(c, life))
<1> DEFINE a == [c EXCEPT !.online = @ \cup {c.sig}]
           D == c.present
           b == EachJoined(a, D)
           d == Cal!ConnectPresent(b, life)
           whole == Rejoined(c, life)
<1>1. Alike(c, a)
  BY FieldsAlike
<1>2. D \in SUBSET Peers
  BY DEF Shape
<1>3. whole = CHOOSE r \in {Cal!ConnectPresent(v, life) : v \in {b}} : TRUE
  BY DEF Rejoined, Cal!With, EachJoined
<1>4. {Cal!ConnectPresent(v, life) : v \in {b}} = {d}
  OBVIOUS
<1>5. whole = d
  <2> HIDE DEF d, whole
  <2> QED
    BY <1>3, <1>4, OneOf
<1> HIDE DEF a, D
<1>6. Alike(a, b)
  BY <1>1, <1>2, EachJoinedHandled, HandledAlike DEF Alike
<1> HIDE DEF b
<1>7. Alike(b, d)
  BY <1>6, ConnectPresentHandled, HandledAlike DEF Alike
<1> HIDE DEF d
<1>8. Alike(c, d)
  BY <1>1, <1>6, <1>7, AlikeAgain
<1> QED
  BY <1>5, <1>8

LEMMA RefreshSteps ==
    ASSUME IsFiniteSet(Peers), CallInv, NEW op \in ops, op.kind = "refresh", Cal!RefreshStep(op)
    PROVE  CallInv'
<1>1. Shape(ctl) /\ \A o \in ops : TaskOK(o)
  BY DEF CallInv, SoundCall
<1>2. op \in [kind : {"refresh"}, life : {op.life}, id : {op.id}, step : {op.step}, snap : {op.snap}, todo : SUBSET Peers]
  BY <1>1 DEF TaskOK
<1>3. ASSUME NEW new, TaskOK(new), new.kind = "refresh",
             ops' = ops \ {op} \/ ops' = (ops \ {op}) \cup {new}
      PROVE  Others(ops, ops')
  <2>1. Others(ops, ops \ {op})
    BY <1>1, OthersCome
  <2>2. Others(ops, (ops \ {op}) \cup {new})
    BY <1>1, <1>3, OthersCome
  <2> QED
    BY <1>3, <2>1, <2>2
<1>4. \A st, sn : /\ TaskOK([op EXCEPT !.step = st, !.snap = sn]) /\ [op EXCEPT !.step = st, !.snap = sn].kind = "refresh"
                  /\ TaskOK([op EXCEPT !.step = st]) /\ [op EXCEPT !.step = st].kind = "refresh"
  BY <1>2 DEF TaskOK, TaskKinds
<1>5. \A td \in SUBSET Peers :
        /\ TaskOK([op EXCEPT !.todo = td]) /\ [op EXCEPT !.todo = td].kind = "refresh"
        /\ TaskOK([op EXCEPT !.step = "peers", !.todo = td]) /\ [op EXCEPT !.step = "peers", !.todo = td].kind = "refresh"
  BY <1>2 DEF TaskOK, TaskKinds
<1>6. Alike(ctl, ctl)
  BY <1>1, FieldsAlike
<1>7. CASE Cal!RefreshLoads(op)
  <2> DEFINE new == [op EXCEPT !.step = "apply", !.snap = group]
  <2>1. ctl' = ctl /\ ops' = (ops \ {op}) \cup {new}
    BY <1>7 DEF Cal!RefreshLoads, Cal!Become
  <2>2. TaskOK(new) /\ new.kind = "refresh"
    BY <1>4
  <2> HIDE DEF new
  <2> QED
    BY <1>3, <1>6, <2>1, <2>2, AlikeStep
<1>8. CASE Cal!RefreshApplies(op)
  <2> DEFINE new == [op EXCEPT !.step = "peers", !.todo = ctl.ident]
             d == [ctl EXCEPT !.trusted = Cal!Members(op.snap), !.revoked = Cal!Removed(op.snap)]
  <2>1. ctl.ident \in SUBSET Peers
    BY <1>1 DEF Shape, Made
  <2>2. TaskOK(new) /\ new.kind = "refresh"
    BY <1>5, <2>1
  <2>3. (ctl' = ctl /\ ops' = ops \ {op}) \/ (ctl' = d /\ ops' = (ops \ {op}) \cup {new})
    BY <1>8 DEF Cal!RefreshApplies, Cal!Become, Cal!Finish
  <2>4. Alike(ctl, d)
    BY <1>1, FieldsAlike
  <2> HIDE DEF new, d
  <2> QED
    BY <1>3, <1>6, <2>2, <2>3, <2>4, AlikeStep
<1>9. ASSUME NEW p \in op.todo, Cal!RefreshReviews(op, p) PROVE CallInv'
  <2> DEFINE new == [op EXCEPT !.todo = op.todo \ {p}]
  <2>1. p \in Peers /\ op.todo \ {p} \in SUBSET Peers
    BY <1>2, <1>9
  <2>2. TaskOK(new) /\ new.kind = "refresh"
    BY <1>5, <2>1
  <2>3. (ctl' = ctl /\ ops' = ops \ {op}) \/ (ctl' = Cal!Reviewed(ctl, p) /\ ops' = (ops \ {op}) \cup {new})
    BY <1>9 DEF Cal!RefreshReviews, Cal!Become, Cal!Finish
  <2>4. Alike(ctl, Cal!Reviewed(ctl, p))
    BY <1>1, <2>1, ReviewedAlike
  <2> HIDE DEF new
  <2> QED
    BY <1>3, <1>6, <2>2, <2>3, <2>4, AlikeStep
<1>10. CASE Cal!RefreshEnds(op)
  <2> DEFINE new == [op EXCEPT !.step = "rejoin"]
  <2>1. TaskOK(new) /\ new.kind = "refresh"
    BY <1>4
  <2>2. \/ ctl' = ctl /\ ops' = ops \ {op}
        \/ ctl' = Cal!Moved(ctl, op.snap.secret) /\ ops' = (ops \ {op}) \cup {new}
        \/ ctl' = Cal!ConnectPresent(ctl, op.life) /\ ops' = ops \ {op}
    BY <1>10 DEF Cal!RefreshEnds, Cal!Become, Cal!Finish
  <2>3. Alike(ctl, Cal!Moved(ctl, op.snap.secret))
    BY <1>1, MovedAlike
  <2>4. Alike(ctl, Cal!ConnectPresent(ctl, op.life))
    BY <1>1, ConnectPresentHandled, HandledAlike
  <2> HIDE DEF new
  <2> QED
    BY <1>3, <1>6, <2>1, <2>2, <2>3, <2>4, AlikeStep
<1>11. CASE Cal!RefreshRejoined(op)
  <2> DEFINE d == Rejoined(ctl, op.life)
  <2>1. ops' = ops \ {op} /\ ctl' \in {ctl, d}
    BY <1>11 DEF Cal!RefreshRejoined, Cal!Finish, Rejoined
  <2>2. Alike(ctl, d)
    BY <1>1, RejoinedAlike
  <2> HIDE DEF d
  <2>3. Others(ops, ops')
    BY <1>1, <2>1, OthersCome
  <2> QED
    BY <1>6, <2>1, <2>2, <2>3, AlikeStep
<1> QED
  BY <1>7, <1>8, <1>9, <1>10, <1>11 DEF Cal!RefreshStep

(* join and leave, up to their first await.                                 *)
LEMMA BeginSteps ==
    ASSUME CallInv, Cal!Join \/ Cal!Leave
    PROVE  CallInv'
<1>1. ctl.life \in Nat /\ \A o \in ops : TaskOK(o)
  BY DEF CallInv, SoundCall, Shape
<1>2. \A o \in Cal!CleanupOps(ctl) : TaskOK(o) /\ o.kind = "cleanup"
  BY DEF Cal!CleanupOps, TaskOK, TaskKinds
<1>3. CASE Cal!Leave
  <2>1. ctl' = Cal!Detached(ctl) /\ ops' = ops \cup Cal!CleanupOps(ctl)
    BY <1>3 DEF Cal!Leave
  <2>2. \A o \in ops' : TaskOK(o) /\ (o.kind = "join" /\ o.step # "leaving" => o \in ops)
    BY <1>1, <1>2, <2>1
  <2>3. SoundCall(Cal!Detached(ctl), ops')
    BY <2>1, <2>2, DetachedSound DEF CallInv
  <2> QED
    BY <2>1, <2>3 DEF CallInv
<1>4. CASE Cal!Join /\ ctl.room
  <2> DEFINE op == [kind |-> "join", life |-> 0, n |-> joins', step |-> "leaving"]
  <2>1. ctl' = Cal!Detached(ctl) /\ ops' = ops \cup Cal!CleanupOps(ctl) \cup {op}
    BY <1>4 DEF Cal!Join
  <2>2. TaskOK(op) /\ op.step = "leaving"
    BY DEF TaskOK, TaskKinds
  <2> HIDE DEF op
  <2>3. \A o \in ops' : TaskOK(o) /\ (o.kind = "join" /\ o.step # "leaving" => o \in ops)
    BY <1>1, <1>2, <2>1, <2>2
  <2>4. SoundCall(Cal!Detached(ctl), ops')
    BY <2>1, <2>3, DetachedSound DEF CallInv
  <2> QED
    BY <2>1, <2>4 DEF CallInv
<1>5. CASE Cal!Join /\ ~ctl.room
  <2> DEFINE op == Cal!BeginOp
  <2>1. ctl' = Cal!Begun(ctl) /\ ops' = ops \cup {op}
    BY <1>5 DEF Cal!Join, Cal!Start
  <2>2. TaskOK(op) /\ op.kind = "join" /\ op.life = ctl.life + 1 /\ op.step = "network"
    BY <1>1 DEF TaskOK, TaskKinds, Cal!BeginOp
  <2> HIDE DEF op
  <2>3. \A o \in ops' : TaskOK(o) /\ (o.kind = "join" /\ o.step # "leaving" => o = op \/ o \in ops)
    BY <1>1, <2>1, <2>2
  <2>4. \A o \in ops : o.kind = "cleanup" => o \in ops'
    BY <2>1
  <2>5. op \in ops'
    BY <2>1
  <2>6. SoundCall(Cal!Begun(ctl), ops')
    BY <1>5, <2>2, <2>3, <2>4, <2>5, BegunSound DEF CallInv
  <2> QED
    BY <2>1, <2>6 DEF CallInv
<1> QED
  BY <1>3, <1>4, <1>5

LEMMA LeftStep ==
    ASSUME CallInv, NotOvertaken, NEW op \in ops, Cal!JoinLeft(op)
    PROVE  CallInv'
<1>1. ctl.life \in Nat /\ \A o \in ops : TaskOK(o)
  BY DEF CallInv, SoundCall, Shape
<1> DEFINE new == [op EXCEPT !.life = ctl.life + 1, !.step = "network"]
<1>2. op.kind = "join" /\ op.step = "leaving" /\ ~ctl.room
  BY DEF Cal!JoinLeft, NotOvertaken
<1>3. ctl' = Cal!Begun(ctl) /\ ops' = (ops \ {op}) \cup {new}
  BY DEF Cal!JoinLeft, Cal!Become
<1>4. TaskOK(new) /\ new.kind = "join" /\ new.life = ctl.life + 1 /\ new.step = "network"
  <2>1. op \in [kind : {"join"}, life : Nat, n : {op.n}, step : {"leaving", "network", "connect", "profile", "rejected"}]
    BY <1>1, <1>2 DEF TaskOK
  <2>2. ASSUME NEW k \in Nat
        PROVE  /\ [op EXCEPT !.life = k, !.step = "network"] \in
                    [kind : {"join"}, life : Nat, n : {op.n}, step : {"leaving", "network", "connect", "profile", "rejected"}]
               /\ [op EXCEPT !.life = k, !.step = "network"].kind = "join"
               /\ [op EXCEPT !.life = k, !.step = "network"].life = k
               /\ [op EXCEPT !.life = k, !.step = "network"].step = "network"
               /\ [op EXCEPT !.life = k, !.step = "network"].n = op.n
    BY <2>1
  <2>3. ctl.life + 1 \in Nat
    BY <1>1
  <2>4. /\ new \in [kind : {"join"}, life : Nat, n : {op.n}, step : {"leaving", "network", "connect", "profile", "rejected"}]
        /\ new.kind = "join" /\ new.life = ctl.life + 1 /\ new.step = "network" /\ new.n = op.n
    BY <2>2, <2>3
  <2> HIDE DEF new
  <2> QED
    BY <2>4 DEF TaskOK, TaskKinds
<1> HIDE DEF new
<1>5. \A o \in ops' : TaskOK(o) /\ (o.kind = "join" /\ o.step # "leaving" => o = new \/ o \in ops)
  BY <1>1, <1>3, <1>4
<1>6. \A o \in ops : o.kind = "cleanup" => o \in ops'
  BY <1>2, <1>3
<1>7. new \in ops'
  BY <1>3
<1>8. SoundCall(Cal!Begun(ctl), ops')
  BY <1>2, <1>4, <1>5, <1>6, <1>7, BegunSound DEF CallInv
<1> QED
  BY <1>3, <1>8 DEF CallInv

(* A join goes on with its next wait.                                       *)
LEMMA AdvanceStep ==
    ASSUME CallInv, NEW op \in ops, op.kind = "join", op.step \in {"network", "connect"},
           NEW d, Alike(ctl, d), ctl' = d, ops' = (ops \ {op}) \cup {[op EXCEPT !.step = "connect"]}
    PROVE  CallInv'
<1> DEFINE new == [op EXCEPT !.step = "connect"]
<1>1. SoundCall(ctl, ops)
  BY DEF CallInv
<1>2. op \in [kind : {"join"}, life : Nat, n : {op.n}, step : {"leaving", "network", "connect", "profile", "rejected"}]
  BY <1>1 DEF SoundCall, TaskOK
<1>3. TaskOK(new) /\ new.kind = "join" /\ new.life = op.life /\ new.step = "connect"
  BY <1>2 DEF TaskOK, TaskKinds
<1>4. ops' = (ops \ {op}) \cup {new} /\ op \in Started(ops)
  BY DEF Started
<1> HIDE DEF new
<1>5. \A o \in Started(ops') : o = new \/ (o \in Started(ops) /\ o # op)
  BY <1>4 DEF Started
<1>6. Shape(d) /\ d.life = ctl.life /\ d.room = ctl.room /\ d.trans = ctl.trans
  BY DEF Alike
<1>7. \A o \in Started(ops') : Owned(o, d)
  BY <1>1, <1>3, <1>4, <1>5, <1>6 DEF SoundCall, Owned
<1>8. Alone(ops')
  BY <1>1, <1>3, <1>4, <1>5 DEF SoundCall, Alone
<1>9. Released(d, ops')
  <2> SUFFICES ASSUME NEW n \in Cal!Sessions, NEW p \in Peers, d.link[n][p] # "none"
               PROVE  d.trans = n \/ \E o \in ops' : o.kind = "cleanup" /\ o.t = n
    BY DEF Released
  <2>1. ctl.link[n][p] # "none" \/ n = ctl.trans
    BY DEF Alike, OwnLinks
  <2> QED
    BY <1>1, <1>4, <2>1 DEF SoundCall, Released, Alike
<1>10. \A o \in ops' : TaskOK(o)
  BY <1>1, <1>3, <1>4 DEF SoundCall
<1>11. SoundCall(d, ops')
  BY <1>1, <1>6, <1>7, <1>8, <1>9, <1>10 DEF SoundCall
<1> QED
  BY <1>11 DEF CallInv

(* The transport of a session is created by its own join, once.             *)
LEMMA CreateStep ==
    ASSUME CallInv, NEW op \in ops, op.kind = "join", op.step = "connect", ctl.life = op.life,
           ctl' = [[ctl EXCEPT !.online = @ \cup {op.n}] EXCEPT !.trans = op.n, !.bound = @ \cup {op.n}, !.ready = TRUE],
           ops' = (ops \ {op}) \cup {[op EXCEPT !.step = "profile"]}
    PROVE  CallInv'
<1> DEFINE new == [op EXCEPT !.step = "profile"]
           d == [[ctl EXCEPT !.online = @ \cup {op.n}] EXCEPT !.trans = op.n, !.bound = @ \cup {op.n}, !.ready = TRUE]
<1>1. SoundCall(ctl, ops)
  BY DEF CallInv
<1>2. op \in [kind : {"join"}, life : Nat, n : {op.n}, step : {"leaving", "network", "connect", "profile", "rejected"}]
  BY <1>1 DEF SoundCall, TaskOK
<1>3. TaskOK(new) /\ new.kind = "join" /\ new.life = op.life /\ new.step = "profile"
  BY <1>2 DEF TaskOK, TaskKinds
<1>4. ctl' = d /\ ops' = (ops \ {op}) \cup {new} /\ op \in Started(ops)
  BY DEF Started
<1>5. ctl.room /\ ctl.trans = 0
  BY <1>1, <1>4 DEF SoundCall, Owned
<1>6. ctl \in Made(ctl) /\ ctl.life \in Nat /\ ctl.room \in BOOLEAN /\ ctl.present \subseteq Peers /\ Wired(ctl.wire)
  BY <1>1 DEF SoundCall, Shape
<1>7. /\ d.challenge = ctl.challenge /\ d.attempts = ctl.attempts /\ d.link = ctl.link /\ d.wire = ctl.wire
      /\ d.life = ctl.life /\ d.room = ctl.room /\ d.present = ctl.present
  BY <1>6 DEF Made
<1>8. d \in Made(d)
  BY <1>6, <1>7 DEF Made
<1> HIDE DEF new, d
<1>9. Shape(d)
  BY <1>6, <1>7, <1>8 DEF Shape
<1>10. \A o \in Started(ops') : o = new \/ (o \in Started(ops) /\ o # op)
  BY <1>4 DEF Started
<1>11. \A o \in Started(ops) : o # op => o.life # ctl.life
  BY <1>1, <1>4 DEF SoundCall, Alone
<1>12. \A o \in Started(ops') : Owned(o, d)
  BY <1>1, <1>3, <1>4, <1>5, <1>7, <1>10, <1>11 DEF SoundCall, Owned
<1>13. Alone(ops')
  BY <1>1, <1>3, <1>4, <1>10 DEF SoundCall, Alone
<1>14. Released(d, ops')
  <2> SUFFICES ASSUME NEW n \in Cal!Sessions, NEW p \in Peers, d.link[n][p] # "none"
               PROVE  \E o \in ops' : o.kind = "cleanup" /\ o.t = n
    BY DEF Released
  <2>1. n # 0
    BY DEF Cal!Sessions
  <2>2. \E o \in ops : o.kind = "cleanup" /\ o.t = n
    BY <1>1, <1>5, <1>7, <2>1 DEF SoundCall, Released
  <2> QED
    BY <1>4, <2>2
<1>15. \A o \in ops' : TaskOK(o)
  BY <1>1, <1>3, <1>4 DEF SoundCall
<1>16. SoundCall(d, ops')
  BY <1>5, <1>7, <1>9, <1>12, <1>13, <1>14, <1>15 DEF SoundCall
<1> QED
  BY <1>4, <1>16 DEF CallInv

LEMMA JoinSteps ==
    ASSUME IsFiniteSet(Peers), CallInv, NotOvertaken, NEW op \in ops, Cal!JoinStep(op)
    PROVE  CallInv'
<1>1. Shape(ctl) /\ \A o \in ops : TaskOK(o)
  BY DEF CallInv, SoundCall
<1>2. Alike(ctl, ctl) /\ Alike(ctl, [ctl EXCEPT !.sig = op.n]) /\ Alike(ctl, [ctl EXCEPT !.online = @ \cup {op.n}])
  BY <1>1, FieldsAlike
<1>3. op.kind = "join"
  BY DEF Cal!JoinStep, Cal!JoinLeft, Cal!JoinNetwork, Cal!JoinConnected, Cal!JoinReady, Cal!JoinFails
<1>4. Others(ops, ops \ {op})
  BY <1>1, <1>3, OthersCome
<1>5. CASE Cal!JoinLeft(op)
  BY <1>5, LeftStep
<1>6. CASE Cal!JoinNetwork(op)
  BY <1>2, <1>3, <1>6, AdvanceStep DEF Cal!JoinNetwork, Cal!Become
<1>7. CASE Cal!JoinConnected(op) /\ ctl.life # op.life
  <2> DEFINE c == [ctl EXCEPT !.online = @ \cup {op.n}]
  <2>1. c.life = ctl.life
    BY <1>1 DEF Shape, Made
  <2>2. ctl' = c /\ ops' = ops \ {op}
    BY <1>7, <2>1 DEF Cal!JoinConnected, Cal!Abort, Cal!Finish
  <2> HIDE DEF c
  <2> QED
    BY <1>2, <1>4, <2>2, AlikeStep DEF c
<1>8. CASE Cal!JoinConnected(op) /\ ctl.life = op.life
  BY <1>3, <1>8, CreateStep DEF Cal!JoinConnected, Cal!Become
<1>9. ASSUME Cal!Abort(ctl, op) PROVE CallInv'
  <2>1. CASE ctl.life = op.life
    BY <1>3, <1>9, <2>1, DetachStep DEF Cal!Abort, Cal!Become
  <2>2. CASE ctl.life # op.life
    BY <1>2, <1>4, <1>9, <2>2, AlikeStep DEF Cal!Abort, Cal!Finish
  <2> QED
    BY <2>1, <2>2
<1>10. CASE Cal!JoinReady(op)
  <2>1. Alike(ctl, Cal!ConnectPresent(ctl, op.life))
    BY <1>1, ConnectPresentHandled, HandledAlike
  <2> QED
    BY <1>4, <1>9, <1>10, <2>1, AlikeStep DEF Cal!JoinReady, Cal!Finish
<1>11. CASE Cal!JoinFails(op)
  BY <1>9, <1>11 DEF Cal!JoinFails
<1> QED
  BY <1>5, <1>6, <1>7, <1>8, <1>10, <1>11 DEF Cal!JoinStep

LEMMA CleanupTransportStep ==
    ASSUME CallInv, NEW op \in ops, Cal!CleanupTransport(op)
    PROVE  CallInv'
<1>1. SoundCall(ctl, ops)
  BY DEF CallInv
<1>2. Shape(ctl) /\ \A o \in ops : TaskOK(o)
  BY <1>1 DEF SoundCall
<1> DEFINE d == IF op.t = 0 THEN ctl ELSE Cal!Disconnect(ctl, op.t, Peers)
<1>3. op.kind = "cleanup" /\ ctl' = d /\ ops' = ops \ {op}
  BY DEF Cal!CleanupTransport, Cal!Finish
<1>4. Alike(ctl, d)
  BY <1>2, DisconnectHandled, HandledAlike, FieldsAlike
<1>5. \A p \in Peers : op.t \in Cal!Sessions => d.link[op.t][p] = "none"
  <2>1. op.t = 0 => op.t \notin Cal!Sessions
    BY DEF Cal!Sessions
  <2>2. \A p \in Peers \cap Peers : op.t \in Cal!Sessions => Cal!Disconnect(ctl, op.t, Peers).link[op.t][p] = "none"
    BY <1>2, DisconnectHandled
  <2> QED
    BY <2>1, <2>2
<1> HIDE DEF d
<1>6. Started(ops') \subseteq Started(ops)
  BY <1>3 DEF Started
<1>7. \A o \in Started(ops') : Owned(o, d)
  BY <1>1, <1>4, <1>6 DEF SoundCall, Alike, Owned
<1>8. Alone(ops')
  BY <1>1, <1>6 DEF SoundCall, Alone
<1>9. Released(d, ops')
  <2> SUFFICES ASSUME NEW n \in Cal!Sessions, NEW p \in Peers, d.link[n][p] # "none"
               PROVE  d.trans = n \/ \E o \in ops' : o.kind = "cleanup" /\ o.t = n
    BY DEF Released
  <2>1. n # op.t
    BY <1>5
  <2>2. ctl.link[n][p] # "none" \/ n = ctl.trans
    BY <1>4 DEF Alike, OwnLinks
  <2>3. ctl.trans = n \/ \E o \in ops : o.kind = "cleanup" /\ o.t = n
    BY <1>1, <2>2 DEF SoundCall, Released
  <2> QED
    BY <1>3, <1>4, <2>1, <2>3 DEF Alike
<1>10. SoundCall(d, ops')
  BY <1>1, <1>3, <1>4, <1>7, <1>8, <1>9 DEF SoundCall, Alike
<1> QED
  BY <1>3, <1>10 DEF CallInv

LEMMA CleanupSignalingStep ==
    ASSUME CallInv, NEW op \in ops, Cal!CleanupSignaling(op)
    PROVE  CallInv'
<1>1. SoundCall(ctl, ops)
  BY DEF CallInv
<1>2. Shape(ctl) /\ \A o \in ops : TaskOK(o)
  BY <1>1 DEF SoundCall
<1> DEFINE d == [ctl EXCEPT !.online = @ \ {op.n}]
           Next1(o) == IF o.kind = "join" /\ o.step = "connect" /\ o.n = op.n THEN [o EXCEPT !.step = "rejected"]
                       ELSE IF o = op THEN [op EXCEPT !.n = 0] ELSE o
<1>3. op.kind = "cleanup" /\ ctl' = d /\ ops' = {Next1(o) : o \in ops}
  BY DEF Cal!CleanupSignaling
<1>4. Alike(ctl, d)
  BY <1>2, FieldsAlike
<1>5. ASSUME NEW o \in ops
      PROVE  /\ TaskOK(Next1(o)) /\ Next1(o).kind = o.kind
             /\ o.kind = "cleanup" => Next1(o).t = o.t
             /\ o.kind = "join" => /\ Next1(o).life = o.life
                                   /\ Next1(o).step = "leaving" <=> o.step = "leaving"
                                   /\ Next1(o).step = "profile" <=> o.step = "profile"
  <2>1. TaskOK(o) /\ TaskOK(op)
    BY <1>2
  <2>2. CASE o.kind = "join" /\ o.step = "connect" /\ o.n = op.n
    <3>1. o \in [kind : {"join"}, life : Nat, n : {o.n}, step : {"leaving", "network", "connect", "profile", "rejected"}]
      BY <2>1, <2>2 DEF TaskOK
    <3> QED
      BY <2>2, <3>1 DEF TaskOK, TaskKinds
  <2>3. CASE o = op
    <3>1. op \in [kind : {"cleanup"}, n : {op.n}, t : {op.t}]
      BY <1>3, <2>1 DEF TaskOK
    <3>2. Next1(o) = [op EXCEPT !.n = 0]
      BY <1>3, <2>3
    <3> QED
      BY <1>3, <2>3, <3>1, <3>2 DEF TaskOK, TaskKinds
  <2>4. CASE ~(o.kind = "join" /\ o.step = "connect" /\ o.n = op.n) /\ o # op
    BY <2>1, <2>4
  <2> QED
    BY <2>2, <2>3, <2>4
<1> HIDE DEF Next1, d
<1>6. \A q \in ops' : \E o \in ops : q = Next1(o)
  BY <1>3
<1>7. \A q \in Started(ops') : \E o \in Started(ops) : q = Next1(o)
  BY <1>5, <1>6 DEF Started
<1>8. ASSUME NEW o \in Started(ops) PROVE Owned(Next1(o), d)
  <2>1. o \in ops /\ o.kind = "join" /\ Owned(o, ctl)
    BY <1>1 DEF Started, SoundCall
  <2>2. Next1(o).life = o.life /\ (Next1(o).step = "profile" <=> o.step = "profile")
    BY <1>5, <2>1
  <2> QED
    BY <1>4, <2>1, <2>2 DEF Owned, Alike
<1>9. \A q \in Started(ops') : Owned(q, d)
  BY <1>7, <1>8
<1>10. Alone(ops')
  <2> SUFFICES ASSUME NEW q \in Started(ops'), NEW r \in Started(ops'), q.life = r.life PROVE q = r
    BY DEF Alone
  <2>1. PICK o \in Started(ops) : q = Next1(o)
    BY <1>7
  <2>2. PICK u \in Started(ops) : r = Next1(u)
    BY <1>7
  <2>3. o.life = q.life /\ u.life = r.life
    BY <1>5, <2>1, <2>2 DEF Started
  <2>4. o = u
    BY <1>1, <2>3 DEF SoundCall, Alone
  <2> QED
    BY <2>1, <2>2, <2>4
<1>11. Released(d, ops')
  <2> SUFFICES ASSUME NEW n \in Cal!Sessions, NEW p \in Peers, d.link[n][p] # "none"
               PROVE  d.trans = n \/ \E o \in ops' : o.kind = "cleanup" /\ o.t = n
    BY DEF Released
  <2>1. ctl.link[n][p] # "none" \/ n = ctl.trans
    BY <1>4 DEF Alike, OwnLinks
  <2>2. ctl.trans = n \/ \E o \in ops : o.kind = "cleanup" /\ o.t = n
    BY <1>1, <2>1 DEF SoundCall, Released
  <2>3. ASSUME NEW o \in ops, o.kind = "cleanup", o.t = n
        PROVE  \E q \in ops' : q.kind = "cleanup" /\ q.t = n
    <3>1. Next1(o) \in ops' /\ Next1(o).kind = "cleanup" /\ Next1(o).t = n
      BY <1>3, <1>5, <2>3
    <3> QED
      BY <3>1
  <2> QED
    BY <1>4, <2>2, <2>3 DEF Alike
<1>12. \A q \in ops' : TaskOK(q)
  BY <1>5, <1>6
<1>13. SoundCall(d, ops')
  BY <1>1, <1>4, <1>9, <1>10, <1>11, <1>12 DEF SoundCall, Alike
<1> QED
  BY <1>3, <1>13 DEF CallInv

LEMMA CallStep ==
    ASSUME IsFiniteSet(Peers), CallInv, NotOvertaken, [Cal!Next]_Cal!vars
    PROVE  CallInv'
<1>1. CASE Cal!Join \/ Cal!Leave
  BY <1>1, BeginSteps
<1>2. ASSUME NEW op \in ops, Cal!Resume(op) PROVE CallInv'
  <2>1. CASE Cal!JoinStep(op)
    BY <2>1, JoinSteps
  <2>2. CASE Cal!CleanupStep(op)
    BY <2>2, CleanupSignalingStep, CleanupTransportStep DEF Cal!CleanupStep
  <2>3. CASE op.kind = "refresh" /\ Cal!RefreshStep(op)
    BY <2>3, RefreshSteps
  <2>4. CASE Cal!ProofVerified(op)
    BY <2>4, ProofStep
  <2>5. CASE Cal!RecoverySettles(op)
    BY <2>5, RecoveryStep
  <2>6. CASE Cal!CertificateApplied(op)
    BY <2>6, CertificateStep
  <2> QED
    BY <1>2, <2>1, <2>2, <2>3, <2>4, <2>5, <2>6 DEF Cal!Resume
<1>3. ASSUME NEW p \in Peers,
             Cal!PeerAppears(p) \/ Cal!PeerDisappears(p) \/ Cal!PeerReplaced(p) \/ Cal!Offered(p) \/ Cal!TimerFires(p)
      PROVE  CallInv'
  BY <1>3, PeerSteps, TimerStep
<1>4. ASSUME NEW n \in Cal!Sessions, NEW p \in Peers, Cal!LinkOpens(n, p) \/ Cal!LinkCloses(n, p) \/ Cal!LinkResets(n, p)
      PROVE  CallInv'
  BY <1>4, LinkSteps
<1>5. ASSUME NEW m \in ctl.wire, Cal!RemoteAnswers(m) \/ Cal!ProofArrives(m)
      PROVE  CallInv'
  BY <1>5, MessageSteps
<1>6. CASE (\E p \in Peers, st \in Cal!Standings : Cal!GroupChanges(p, st))
             \/ (\E p \in Peers, q \in Peers \cup {Me} : Cal!CertificateArrives(p, q))
  BY <1>6, GroupSteps
<1>7. CASE UNCHANGED Cal!vars
  BY <1>7 DEF Cal!vars, CallInv, SoundCall, Shape, Made, Values, Wired, Started, Owned, Alone, Released
<1> QED
  BY <1>1, <1>2, <1>3, <1>4, <1>5, <1>6, <1>7 DEF Cal!Next

(* leave, a failed join and a removal from the group close every connection *)
(* of the call they end, for any number of peers, joins and disturbances,   *)
(* wherever join, leave and cleanup of CallController.ts wait, as long as   *)
(* no join begins while an earlier one waits for the call to be left: the   *)
(* second to go on would replace the transport of the first.                *)
THEOREM EndedCallsAreReleased ==
    ASSUME IsFiniteSet(Peers)
    PROVE  Cal!Spec /\ []NotOvertaken => []ConnectionsReleased
<1>1. Cal!Init => CallInv
  BY CallInit
<1>2. CallInv /\ NotOvertaken /\ [Cal!Next]_Cal!vars => CallInv'
  BY CallStep
<1>3. CallInv => ConnectionsReleased
  BY CallMeans
<1> QED
  BY <1>1, <1>2, <1>3, PTL DEF Cal!Spec

=============================================================================
