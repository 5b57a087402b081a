----------------------------- MODULE Signaling -----------------------------
(***************************************************************************)
(* The signaling client of apps/web/src/services/supabase/signaling.ts:    *)
(* one provider, the channels it opens at the realtime service, the call   *)
(* (call/CallController.ts) that uses it and one remote peer.  The call    *)
(* connects, broadcasts, moves to another rendezvous and leaves; each of   *)
(* these may start while another one is at an await.                       *)
(*                                                                         *)
(* Every await on the service, on WebCrypto or on a timer is the boundary  *)
(* between two actions.  Channels are objects of the service's client      *)
(* library: they join, break, rejoin and are removed there.  Time is a     *)
(* clock that ticks with what the remote peer does; one tick is longer     *)
(* than SESSION_TIMESTAMP_TOLERANCE_MS and peers' clocks agree.            *)
(***************************************************************************)
EXTENDS Naturals, FiniteSets

CONSTANTS Channels,    \* BOUND: channel objects; one that is gone is used again
          Senders,     \* BOUND: broadcasts under way at a time
          MaxBackoff,  \* BOUND: attempts from which the delay outlasts a join
          Budgets      \* BOUND: pairs of how many events may happen: calls and rotations
                       \* of the session and faults of the service; moves of the peer

ASSUME SignalingAssumption ==
    /\ Channels \subseteq Nat \ {0} /\ IsFiniteSet(Channels)
    /\ MaxBackoff \in Nat \ {0} /\ Budgets \subseteq Nat \X Nat

None  == 0               \* no channel, no room, no session, no timestamp
Rooms == {1, 2}
Time  == Nat
\* a removal ends after 3 s; a third delay, of 4 s, cannot end before the first one
Reopeners == {1, 2}

VARIABLES
    link,    \* the connection: fields of the provider and calls under way
    ch,      \* the channel objects
    snd,     \* the broadcast() calls
    view,    \* presence and messages as the provider knows them
    remote,  \* the remote peer and the service
    budget   \* what is left of the budget

vars == <<link, ch, snd, view, remote, budget>>

Status == {"connecting", "connected", "reconnecting", "disconnected", "error"}

Link == [channel : Channels \cup {None}, room : Rooms \cup {None},
         status : Status, disconnecting : BOOLEAN,
         timer : BOOLEAN, attempts : 0..MaxBackoff,
         user : {"new", "joining", "in", "failed", "left"},
         connect : {"no", "disconnect", "digest"}, \* connect() before its channel
         next : Rooms,                             \* the room it connects to
         pending : Channels \cup {None},           \* the channel it awaits, not settled
         closing : SUBSET Channels,                \* disconnect() untracks and removes
         reopening : SUBSET (Channels \X Reopeners)] \* reopenChannel() removing one

NoChannel == [state |-> "none", by |-> "reopen", room |-> None, track |-> FALSE, peer |-> None]
Channel == [state : {"none", "joining", "joined", "broken"}, by : {"connect", "reopen"},
            room : Rooms \cup {None}, track : BOOLEAN, peer : Time]

Idle == [at |-> "idle", k |-> 0, c |-> None]
Send == [at : {"idle", "go", "wait", "send"}, k : 0..2, c : Channels \cup {None}]

Init ==
    /\ link = [channel |-> None, room |-> None, status |-> "disconnected",
               disconnecting |-> FALSE, timer |-> FALSE, attempts |-> 0, user |-> "new",
               connect |-> "no", next |-> 1, pending |-> None, closing |-> {},
               reopening |-> {}]
    /\ ch = [c \in Channels |-> NoChannel]
    /\ snd = [s \in Senders |-> Idle]
    /\ view = [seen |-> None, leaving |-> FALSE, departed |-> None,
               processed |-> {}, newest |-> None]
    /\ remote = [at |-> None, room |-> 1, clock |-> 0, wire |-> {}]
    /\ budget \in Budgets

Event == budget[1] > 0 /\ budget' = [budget EXCEPT ![1] = @ - 1]
Fault == Event
Move  == budget[2] > 0 /\ budget' = [budget EXCEPT ![2] = @ - 1]
Named(l) == l.room # None
Connected(l) == l.channel # None /\ l.status = "connected"

-----------------------------------------------------------------------------
(* Helpers that change the fields of the provider.                          *)

\* mutant: the delay does not grow
Scheduled_Steady(l) ==
    IF l.disconnecting \/ l.timer \/ ~Named(l) THEN l ELSE [l EXCEPT !.timer = TRUE]

\* scheduleReconnect()
Scheduled(l) ==
    IF l.disconnecting \/ l.timer \/ ~Named(l) THEN l
    ELSE [l EXCEPT !.timer = TRUE,
                   !.attempts = IF @ < MaxBackoff THEN @ + 1 ELSE @]

Reconnecting(l) == Scheduled([l EXCEPT !.status = "reconnecting"])

Waiting(s) == snd[s].at = "wait"
\* resolveConnectionWaiters() and rejectConnectionWaiters()
Woken    == [s \in Senders |-> IF Waiting(s) THEN [snd[s] EXCEPT !.at = "go"] ELSE snd[s]]
Rejected == [s \in Senders |-> IF Waiting(s) THEN Idle ELSE snd[s]]

\* setStatus("connected") resolves the waiters unless that was the status already
BecomesConnected == snd' = IF link.status = "connected" THEN snd ELSE Woken

\* reconcilePresence(), with p the session that the channel's presence shows
Reconciled(v, p) ==
    IF p # None
    THEN [v EXCEPT !.leaving = FALSE, !.seen = p,
                   !.departed = IF v.seen \in {None, p} THEN @
                                ELSE IF p > remote.clock THEN p ELSE remote.clock,
                   !.newest = IF p > @ THEN p ELSE @]
    ELSE [v EXCEPT !.leaving = v.seen # None]

Reconcile(v, l) ==
    IF l.channel = None \/ ~Named(l) THEN v ELSE Reconciled(v, ch[l.channel].peer)

\* A new channel object whose subscription begins: one that nothing refers to, and
\* of those one that is gone rather than one that was given up.
Free == {c \in Channels : /\ c # link.channel /\ c # link.pending
                          /\ ~ch[c].track
                          /\ c \notin link.closing /\ \A r \in link.reopening : r[1] # c
                          /\ \A s \in Senders : snd[s].c # c
                          /\ \A w \in remote.wire : w.c # c}
Gone == {c \in Free : ch[c].state = "none"}
NextFree == LET F == IF Gone = {} THEN Free ELSE Gone IN {x \in F : \A y \in F : x <= y}

\* What becomes of a channel that the provider gave up: it is gone or, when its removal
\* was not answered, perhaps still (or again) joined.  Its callbacks are ignored.
Removed(c) == IF ch[c].track THEN [NoChannel EXCEPT !.by = ch[c].by, !.track = TRUE] ELSE NoChannel
Orphans(c) == {Removed(c), [ch[c] EXCEPT !.state = "joined", !.peer = None]}
Opened(by, room) == [NoChannel EXCEPT !.state = "joining", !.by = by, !.room = room]

-----------------------------------------------------------------------------
(* connect() and disconnect().                                              *)

\* connect() from its start, or after disconnect(), to the digest of the room
Digesting(l) == [l EXCEPT !.disconnecting = FALSE, !.status = "connecting",
                          !.connect = "digest"]
ViewOfConnect(v) == [v EXCEPT !.leaving = FALSE, !.departed = None]

\* disconnect() up to its first await
Closing(l, then) ==
    [l EXCEPT !.disconnecting = TRUE, !.timer = FALSE, !.attempts = 0, !.channel = None,
              !.connect = then, !.closing = @ \cup {l.channel}]

\* disconnect() after its awaits
Closed(l) == [l EXCEPT !.room = None, !.status = "disconnected", !.disconnecting = FALSE]
ViewOfClosed(v) == [v EXCEPT !.seen = None, !.processed = {}]

\* the call is joined
Connect ==
    /\ link.user = "new"
    /\ link' = [Digesting(link) EXCEPT !.user = "joining"]
    /\ view' = ViewOfConnect(view)
    /\ UNCHANGED <<ch, snd, remote, budget>>

\* refreshGroupSecurity(): the rendezvous of the group has changed, which is followed
\* once.  connect() finds a channel and disconnects first.
Rotate ==
    /\ link.user = "in" /\ link.next = 1 /\ Event
    /\ link' = [Closing(link, "disconnect") EXCEPT !.next = 2]
    /\ snd' = Rejected
    /\ view' = ViewOfConnect(view)
    /\ UNCHANGED <<ch, remote>>

\* the digest is there: the channel is opened and subscribed
Subscribe ==
    /\ link.connect = "digest"
    /\ \E c \in NextFree :
         /\ ch' = [ch EXCEPT ![c] = Opened("connect", link.next)]
         /\ link' = [link EXCEPT !.connect = "no", !.room = link.next, !.channel = c,
                                 !.pending = c]
    /\ UNCHANGED <<snd, view, remote, budget>>

\* connect() rejects; a call that was joining cleans up, and one that moves goes on
Rejecting(l) == [l EXCEPT !.pending = None,
                          !.user = IF @ = "joining" THEN "failed" ELSE @]

\* connect() gives up after 15 s
ConnectTimeout ==
    /\ link.pending # None
    /\ link' = [Rejecting(link) EXCEPT !.status = "error"]
    /\ UNCHANGED <<ch, snd, view, remote, budget>>

\* cleanup(): the call ends, whatever it was doing
Leave ==
    /\ link.user \in {"joining", "in", "failed"}
    /\ view' = [ViewOfConnect(view) EXCEPT !.seen = IF link.channel = None THEN None ELSE @,
                                           !.processed = IF link.channel = None THEN {} ELSE @]
    /\ link' = [(IF link.channel = None
                 THEN Closed([link EXCEPT !.timer = FALSE, !.attempts = 0])
                 ELSE Closing(link, link.connect)) EXCEPT !.user = "left"]
    /\ snd' = Rejected
    /\ UNCHANGED <<ch, remote, budget>>

\* removeChannelBestEffort(), settleChannelOperation(): removeChannel() answers and the
\* object is gone, or it does not answer in 3 s
Removal(c, answers) ==
    IF answers THEN ch' = [ch EXCEPT ![c] = Removed(c)] /\ UNCHANGED budget
    ELSE Fault /\ \E o \in Orphans(c) : ch' = [ch EXCEPT ![c] = o]

\* disconnect() ends, after untrack() and the removal; the connect() that called it goes on
Disconnected(c, answers) ==
    /\ c \in link.closing
    /\ Removal(c, answers)
    /\ LET l == Closed([link EXCEPT !.closing = @ \ {c}])
       IN  link' = IF link.connect = "disconnect" THEN Digesting(l) ELSE l
    /\ view' = IF link.connect = "disconnect" THEN ViewOfConnect(ViewOfClosed(view))
               ELSE ViewOfClosed(view)
    /\ UNCHANGED <<snd, remote>>

-----------------------------------------------------------------------------
(* Reconnection.                                                            *)

\* The timer ends.  The delay doubles to 30 s, by then longer than a removal and
\* a join together.
Settled == /\ link.reopening = {}
           /\ link.channel # None => ch[link.channel].state # "joining"
                                     /\ ~ch[link.channel].track

ReopensAt(l) == ~l.disconnecting /\ Named(l)

\* reopenChannel() up to the removal of the previous channel
ReconnectTimer ==
    /\ link.timer
    /\ link.attempts = MaxBackoff => Settled
    /\ \E i \in Reopeners :
         /\ \A r \in link.reopening : r[2] # i
         /\ link' = [link EXCEPT !.timer = FALSE,
                                 !.reopening = IF ReopensAt(link)
                                               THEN @ \cup {<<link.channel, i>>} ELSE @]
    /\ UNCHANGED <<ch, snd, view, remote, budget>>

\* the callback is told CLOSED, or an error once connect() is settled
ToldClosed(l, c) == IF l.pending = c THEN [l EXCEPT !.status = "disconnected"]
                    ELSE Reconnecting(l)

\* A channel that another reopenChannel() put in place meanwhile is never removed.
Superseded(c) == IF link.channel = c THEN ch
                 ELSE [ch EXCEPT ![link.channel] = [@ EXCEPT !.state = "joined", !.peer = None]]

\* The previous channel is removed, which tells its callback CLOSED, or the 3 s
\* are over; a new one takes its place unless the provider was disconnected.
Reopen(r, answers) ==
    /\ r \in link.reopening
    /\ LET c == r[1]
           told == answers /\ ch[c].state # "none" /\ c = link.channel /\ ~link.disconnecting
           l == [(IF told THEN ToldClosed(link, c) ELSE link) EXCEPT !.reopening = @ \ {r}]
       IN  \E o \in IF answers \/ ch[c].state = "none" THEN {Removed(c)} ELSE Orphans(c) :
             IF ReopensAt(l)
             THEN \E d \in NextFree :
                    /\ link' = [l EXCEPT !.channel = d]
                    /\ ch' = [Superseded(c) EXCEPT ![c] = o, ![d] = Opened("reopen", link.room)]
             ELSE link' = l /\ ch' = [ch EXCEPT ![c] = o]
    /\ IF answers THEN UNCHANGED budget ELSE Fault
    /\ UNCHANGED <<snd, view, remote>>

\* client.channel() throws
ReopenFails(r) ==
    /\ r \in link.reopening /\ ReopensAt(link) /\ Fault
    /\ link' = Reconnecting([link EXCEPT !.reopening = @ \ {r}])
    /\ UNCHANGED <<ch, snd, view, remote>>

-----------------------------------------------------------------------------
(* What the service does to the current channel.  The callback is ignored    *)
(* unless the channel is the current one and the provider not disconnecting. *)

Heeded(c) == c = link.channel /\ ~link.disconnecting

\* SUBSCRIBED: the first time, or again after the library has rejoined
Joins(c) ==
    /\ c = link.channel /\ ch[c].state \in {"joining", "broken"}
    /\ ch' = [ch EXCEPT ![c].state = "joined", ![c].track = @ \/ Heeded(c)]
    /\ IF Heeded(c) /\ ch[c].by = "connect"
       THEN /\ link' = [link EXCEPT !.timer = FALSE, !.attempts = 0, !.status = "connected"]
            /\ BecomesConnected
       ELSE UNCHANGED <<link, snd>>
    /\ UNCHANGED <<view, remote, budget>>

\* CHANNEL_ERROR, TIMED_OUT or CLOSED
Breaks(c) ==
    /\ c = link.channel /\ ch[c].state \in {"joining", "joined"} /\ Fault
    /\ ch' = [ch EXCEPT ![c].state = "broken", ![c].peer = None]
    /\ IF ~Heeded(c) THEN UNCHANGED link
       ELSE \/ link' = ToldClosed(link, c)
            \/ /\ link.pending = c
               /\ link' = [Rejecting(link) EXCEPT !.status = "error"]
    /\ UNCHANGED <<snd, view, remote>>

Answered(c) == IF ch[c].state = "none" THEN NoChannel ELSE [ch[c] EXCEPT !.track = FALSE]

Resolved(c) == IF link.pending # c THEN link
               ELSE [link EXCEPT !.pending = None, !.user = IF @ = "joining" THEN "in" ELSE @]

\* track() answers.  The callback does not look at the channel again; a connect()
\* that was waiting for it ends here.
Tracked(c) ==
    /\ ch[c].track /\ ch' = [ch EXCEPT ![c] = Answered(c)]
    /\ view' = Reconcile(view, link)
    /\ IF ch[c].by = "connect"
       THEN link' = Resolved(c) /\ UNCHANGED snd
       ELSE /\ link' = [link EXCEPT !.timer = FALSE, !.attempts = 0, !.status = "connected"]
            /\ BecomesConnected
    /\ UNCHANGED <<remote, budget>>

\* mutant: a reopened channel that cannot be tracked only changes the status
TrackFails_Unscheduled(c) ==
    /\ ch[c].track /\ Fault /\ ch' = [ch EXCEPT ![c] = Answered(c)]
    /\ link' = IF ch[c].by = "connect"
               THEN IF link.pending = c THEN Rejecting(link) ELSE link
               ELSE [link EXCEPT !.status = "reconnecting"]
    /\ UNCHANGED <<snd, view, remote>>

\* ... or throws
TrackFails(c) ==
    /\ ch[c].track /\ Fault /\ ch' = [ch EXCEPT ![c] = Answered(c)]
    /\ link' = IF ch[c].by = "connect"
               THEN IF link.pending = c THEN Rejecting(link) ELSE link
               ELSE Reconnecting(link)
    /\ UNCHANGED <<snd, view, remote>>

-----------------------------------------------------------------------------
(* broadcast().                                                             *)

\* waitForConnected() on behalf of s, which is at attempt k
WaitForConnected(s, k, l) ==
    IF Connected(l) THEN /\ link' = l /\ snd' = [snd EXCEPT ![s] = [Idle EXCEPT !.at = "go", !.k = k]]
    ELSE IF l.disconnecting \/ ~Named(l) THEN link' = l /\ snd' = [snd EXCEPT ![s] = Idle]
    ELSE /\ link' = Scheduled(l)
         /\ snd' = [snd EXCEPT ![s] = [Idle EXCEPT !.at = "wait", !.k = k]]

Broadcast(s) ==
    /\ snd[s] = Idle /\ link.user = "in" /\ Event
    /\ Named(link) /\ ~link.disconnecting
    /\ WaitForConnected(s, 0, link)
    /\ UNCHANGED <<ch, view, remote>>

\* the loop: two attempts, each of them a send or a wait
Attempt(s) ==
    /\ snd[s].at = "go"
    /\ IF snd[s].k = 2 THEN UNCHANGED link /\ snd' = [snd EXCEPT ![s] = Idle]
       ELSE IF Connected(link) /\ Named(link)
       THEN /\ snd' = [snd EXCEPT ![s].at = "send", ![s].c = link.channel]
            /\ UNCHANGED link
       ELSE WaitForConnected(s, snd[s].k + 1, link)
    /\ UNCHANGED <<ch, view, remote, budget>>

Sent(s) ==
    /\ snd[s].at = "send" /\ ch[snd[s].c].state = "joined"
    /\ snd' = [snd EXCEPT ![s] = Idle]
    /\ UNCHANGED <<link, ch, view, remote, budget>>

SendFails(s) ==
    /\ snd[s].at = "send"
    /\ IF ch[snd[s].c].state = "joined" THEN Fault ELSE UNCHANGED budget
    /\ IF snd[s].k = 0 /\ ~link.disconnecting
       THEN WaitForConnected(s, 1, Reconnecting(link))
       ELSE /\ snd' = [snd EXCEPT ![s] = [Idle EXCEPT !.at = "go", !.k = snd[s].k + 1]]
            /\ UNCHANGED link
    /\ UNCHANGED <<ch, view, remote>>

\* the waiter's 20 s are over
WaiterTimeout(s) ==
    /\ Waiting(s) /\ snd' = [snd EXCEPT ![s] = Idle]
    /\ UNCHANGED <<link, ch, view, remote, budget>>

-----------------------------------------------------------------------------
(* Presence and messages.                                                   *)

\* a new session of the remote peer, in place of the one that was there
RemoteJoins(room) ==
    /\ Move
    /\ remote' = [remote EXCEPT !.clock = @ + 1, !.at = remote.clock + 1, !.room = room]
    /\ UNCHANGED <<link, ch, snd, view>>

RemoteLeaves ==
    /\ Move /\ remote.at # None
    /\ remote' = [remote EXCEPT !.clock = @ + 1, !.at = None]
    /\ UNCHANGED <<link, ch, snd, view>>

\* The peer sends: a copy for every channel that has joined its room.
RemoteSends(targeted) ==
    /\ Move /\ remote.at # None
    /\ remote' = [remote EXCEPT !.clock = @ + 1, !.wire = @ \cup
          {[at |-> remote.clock + 1, session |-> remote.at, room |-> remote.room,
            targeted |-> targeted, c |-> c] :
              c \in {d \in Channels : ch[d].state = "joined" /\ ch[d].room = remote.room}}]
    /\ UNCHANGED <<link, ch, snd, view>>

\* A presence sync of any channel object makes the provider look at the current one.
Shown(c) == IF remote.room = ch[c].room THEN remote.at ELSE None
Sync(c) ==
    /\ ch[c].state = "joined"
    /\ IF c = link.channel
       THEN /\ Shown(c) # ch[c].peer
            /\ ch' = [ch EXCEPT ![c].peer = Shown(c)]
            /\ view' = IF Named(link) THEN Reconciled(view, Shown(c)) ELSE view
       ELSE view' = Reconcile(view, link) /\ UNCHANGED ch
    /\ UNCHANGED <<link, snd, remote, budget>>

\* PRESENCE_LEAVE_GRACE_MS is over
GraceEnds ==
    /\ view.leaving
    /\ view' = [view EXCEPT !.leaving = FALSE, !.seen = None, !.departed = remote.clock]
    /\ UNCHANGED <<link, ch, snd, remote, budget>>

\* mutant: no look at the session a message was sent in
Accepts_AnySession(v, m) ==
    /\ v.seen = None => m.targeted /\ (v.departed # None => m.at > v.departed)
    /\ m.at \notin v.processed

\* acceptMessage(), once presence has been looked at
Accepts(v, m) ==
    /\ v.seen # None => m.at >= v.seen
    /\ v.seen = None => m.targeted /\ (v.departed # None => m.at > v.departed)
    /\ m.at \notin v.processed

Receive(m) ==
    /\ m \in remote.wire /\ remote' = [remote EXCEPT !.wire = @ \ {m}]
    /\ IF Named(link) /\ m.room = link.room
       THEN LET v == IF view.seen = None THEN Reconcile(view, link) ELSE view
            IN  view' = IF Accepts(v, m)
                        THEN [v EXCEPT !.processed = @ \cup {m.at}]
                        ELSE v
       ELSE UNCHANGED view
    /\ UNCHANGED <<link, ch, snd, budget>>

\* A copy is lost with its channel.
Lose(m) ==
    /\ m \in remote.wire /\ ch[m.c].state # "joined"
    /\ remote' = [remote EXCEPT !.wire = @ \ {m}]
    /\ UNCHANGED <<link, ch, snd, view, budget>>

-----------------------------------------------------------------------------
Session == Connect \/ Rotate \/ Subscribe \/ ConnectTimeout \/ Leave \/ ReconnectTimer

OnChannel(c) ==
    \/ Joins(c) \/ Breaks(c) \/ Tracked(c) \/ TrackFails(c) \/ Sync(c)
    \/ \E answers \in BOOLEAN : Disconnected(c, answers)

Reopening == \E r \in link.reopening :
                 (\E answers \in BOOLEAN : Reopen(r, answers)) \/ ReopenFails(r)

Sender(s) == Broadcast(s) \/ Attempt(s) \/ Sent(s) \/ SendFails(s) \/ WaiterTimeout(s)

Remote ==
    \/ \E room \in Rooms : RemoteJoins(room)
    \/ RemoteLeaves \/ \E targeted \in BOOLEAN : RemoteSends(targeted)
    \/ GraceEnds \/ \E m \in remote.wire : Receive(m) \/ Lose(m)

Next ==
    \/ Session \/ Reopening \/ Remote
    \/ \E c \in Channels : OnChannel(c)
    \/ \E s \in Senders : Sender(s)

Spec == Init /\ [][Next]_vars

\* Timers end, and what the service is asked is answered unless a fault says that it
\* is not.
Fairness ==
    /\ WF_vars(ReconnectTimer) /\ WF_vars(Subscribe) /\ WF_vars(ConnectTimeout)
    /\ \A c \in Channels :
         /\ WF_vars(Joins(c)) /\ WF_vars(Tracked(c))
         /\ WF_vars(Disconnected(c, TRUE))
         /\ \A i \in Reopeners : WF_vars(Reopen(<<c, i>>, TRUE))
    /\ \A s \in Senders : WF_vars(Attempt(s)) /\ WF_vars(Sent(s)) /\ WF_vars(SendFails(s))

FairSpec == Spec /\ Fairness

-----------------------------------------------------------------------------
View == [seen : Time, leaving : BOOLEAN, departed : Time, processed : SUBSET Time,
         newest : Time]
Message == [at : Time, session : Time, room : Rooms, targeted : BOOLEAN, c : Channels]
Remotes == [at : Time, room : Rooms, clock : Time, wire : SUBSET Message]

TypeOK ==
    /\ link \in Link /\ ch \in [Channels -> Channel] /\ snd \in [Senders -> Send]
    /\ view \in View /\ remote \in Remotes /\ budget \in Nat \X Nat

\* Something is under way that ends in a callback or in a new attempt.
Underway ==
    \/ link.timer \/ link.reopening # {}
    \/ ch[link.channel].state = "joining" \/ ch[link.channel].track

\* A provider that says it reconnects does, and no broadcast waits for a connection
\* that nobody is opening: timers, callbacks and disconnects never leave it alone.
NobodyWaitsInVain ==
    /\ TypeOK
    /\ Named(link) /\ ~link.disconnecting =>
         /\ link.channel # None
         /\ link.status = "reconnecting" \/ (\E s \in Senders : Waiting(s)) => Underway

\* The strengthening of NobodyWaitsInVain that is inductive.  A channel is current while
\* the provider is named and not disconnecting ...
ChannelInv ==
    /\ link.channel # None <=> Named(link) /\ ~link.disconnecting
    /\ link.closing # {} \/ link.connect # "no" => link.channel = None
    /\ \A c, d \in link.closing : c = d
    /\ link.connect = "digest" => ~link.disconnecting /\ link.closing = {}
    /\ link.channel # None => ch[link.channel].state # "none"
    /\ link.channel # None /\ link.pending = link.channel => ch[link.channel].by = "connect"
    /\ \A c \in Channels : ch[c].state = "joining" => ~ch[c].track

\* ... a session that has not begun is as it was, one that joins or is in has a channel
\* unless it moves ...
SessionInv ==
    /\ link.user = "new" => ~Named(link) /\ ~link.disconnecting /\ link.closing = {}
                            /\ link.pending = None /\ link.connect = "no"
    /\ link.user \in {"new", "joining"} => link.next = 1
    /\ link.user = "joining" /\ link.pending # None => link.channel # None
    /\ link.user = "in" /\ link.next = 1 => link.channel # None
    /\ \A s \in Senders : snd[s].at = "send" => snd[s].k < 2

\* ... and what a broadcast waits for is pursued by more than the first subscription,
\* which gives up when it is told that the channel is closed.
Pursued ==
    \/ link.timer \/ link.reopening # {}
    \/ ch[link.channel].by = "reopen"
       /\ (ch[link.channel].state = "joining" \/ ch[link.channel].track)

PursuitInv ==
    /\ \A s \in Senders : Waiting(s) =>
          link.channel # None /\ link.status # "connected" /\ Pursued
    /\ link.channel # None /\ link.status = "reconnecting" =>
          Pursued \/ (link.pending = link.channel /\ ch[link.channel].state = "joining")

\* The mesh hears no signal of a session that a newer one of the same peer has
\* replaced for it: not from a slow wire, a second channel object, a presence that
\* comes late or one that was lost.  (While it disconnects, a provider has already
\* forgotten when peers departed.)
SignalsAreFresh ==
    [][~link.disconnecting => \A m \in remote.wire :
           m.at \in view'.processed \ view.processed => m.session >= view.newest]_vars

\* No channel has been in this room, and nothing is on its way there.
Unheard(r) == (\A c \in Channels : ch[c].room # r) /\ (\A m \in remote.wire : m.room # r)

\* The invariant behind it: presence shows the newest session or none, and what was sent
\* since the newest session began was sent by it or a later one ...
PresenceInv ==
    /\ view.seen \in {None, view.newest} /\ view.newest <= remote.clock
    /\ remote.at <= remote.clock /\ (remote.at # None => view.newest <= remote.at)
    /\ link.channel # None => ch[link.channel].peer \in {None, view.newest}
    /\ \A m \in remote.wire :
         /\ m.at <= remote.clock
         /\ m.at >= view.newest => m.session >= view.newest
         /\ m.at >= remote.at => m.session >= remote.at
         /\ link.channel # None /\ view.seen = None /\ m.room = link.room
              /\ (view.departed # None => m.at > view.departed) => m.session >= view.newest
         /\ \A n \in remote.wire : m.at = n.at => m.session = n.session

\* ... and a channel hears a room only once the provider has moved there.
RoomInv ==
    /\ link.user = "new" => Unheard(1)
    /\ link.next = 1 => Unheard(2) /\ link.room # 2
    /\ link.connect # "no" => Unheard(link.next)

\* Once the service answers, a provider that reconnects gets connected, unless the
\* session leaves.
Reconnects == link.status = "reconnecting" /\ link.user = "in"
              ~> link.status = "connected" \/ link.user = "left"
=============================================================================
