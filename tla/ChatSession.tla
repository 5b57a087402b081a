---------------------------- MODULE ChatSession ----------------------------
(***************************************************************************)
(* A chat session of one device with one remote peer in one group:         *)
(* ChatController.connect and disconnect, the callbacks of its transport   *)
(* and of its signaling provider, the identity handshake of SyncService,   *)
(* and the refresh of the trusted peers from local storage.                *)
(*                                                                         *)
(* Every await is a step boundary: an operation in flight is a record of   *)
(* `ops` that remembers what the code's closure captured (the session      *)
(* token above all), and other operations run before it continues.  A task *)
(* and the microtasks it queues are one step.  The status shown to the     *)
(* user and the timer that only changes it are left out.                   *)
(***************************************************************************)
EXTENDS Naturals, FiniteSets

CONSTANTS
    MaxSessions,    \* calls of connect
    MaxLinks,       \* times a data channel opens
    MaxChanges,     \* changes of the group in local storage
    MaxFaults,      \* failing joins and proofs that do not verify
    MaxInFlight,    \* operations in flight when the user or the peer asks for another
    LateJoin        \* a provider disconnected while it re-joins joins all the same

ASSUME BoundsAreNatural ==
    /\ {MaxSessions, MaxLinks, MaxChanges, MaxFaults, MaxInFlight} \subseteq Nat
    /\ LateJoin \in BOOLEAN

VARIABLES
    cc,     \* the fields of ChatController and what GroupChatService trusts
    sync,   \* SyncService's entries for the remote peer
    ops,    \* the asynchronous operations in flight
    net,    \* per session: its signaling provider and its transport
    store,  \* the group in local storage: how it sees the peer, and its rendezvous
    count

vars == <<cc, sync, ops, net, store, count>>

Sessions == 1..MaxSessions
Trusts == {"unknown", "member", "revoked"}
Rooms == 1..(MaxChanges + 1)
Snapshots == [trust : Trusts, rdv : Rooms]
NoSnapshot == [trust |-> "unknown", rdv |-> 0]

Detached == [tok |-> 0, res |-> 0, conf |-> FALSE, view |-> "unknown", rdv |-> 0, data |-> FALSE,
             open |-> FALSE, revOnly |-> FALSE, by |-> 0, task |-> 0, pending |-> FALSE, bound |-> 0]
NoHandshake == [nonce |-> 0, timer |-> FALSE, since |-> "none", failed |-> FALSE]
NotCreated == [sig |-> "none", room |-> 0, sees |-> FALSE, chan |-> "none", link |-> 0]

Init ==
    /\ cc = Detached
    /\ sync = NoHandshake
    /\ ops = {}
    /\ net = [s \in Sessions |-> NotCreated]
    /\ store \in [trust : {"unknown", "member"}, rdv : {1}]
    /\ count = [sessions |-> 0, links |-> 0, changes |-> 0, faults |-> 0]

(***************************************************************************)
(* The handshake of SyncService, as changes of the pair [c, y] of          *)
(* controller and handshake.                                               *)
(***************************************************************************)
Allowed(c) == c.view # "unknown"

Failed == [NoHandshake EXCEPT !.failed = TRUE]

MayBegin(c, y) == c.conf /\ c.data /\ Allowed(c) /\ ~c.open /\ ~y.failed

\* Mutant: a retry of a challenge that is pending does not arm the timer again.
Begin_ArmsOnce(c, y, link) ==
    IF ~MayBegin(c, y) THEN y
    ELSE IF y.since = "late" THEN Failed
    ELSE [y EXCEPT !.nonce = IF y.nonce = 0 THEN link ELSE y.nonce,
                   !.timer = y.nonce = 0,
                   !.since = IF y.since = "none" THEN "early" ELSE y.since]

\* begin and schedule: one nonce per attempt, sent again by every retry until
\* the deadline.  The nonce is named by the data channel it was first sent on.
Begin(c, y, link) ==
    IF ~MayBegin(c, y) THEN y
    ELSE IF y.since = "late" THEN Failed
    ELSE [y EXCEPT !.nonce = IF y.nonce = 0 THEN link ELSE y.nonce,
                   !.timer = TRUE,
                   !.since = IF y.since = "none" THEN "early" ELSE y.since]

ForgetPeer(c) == [c EXCEPT !.data = FALSE, !.open = FALSE, !.revOnly = FALSE]

MarkRevokedReady(c) ==
    IF c.data /\ ~c.revOnly THEN [c EXCEPT !.open = FALSE, !.revOnly = TRUE] ELSE c

MarkReady(c, nonce) ==
    IF ~c.data \/ c.open THEN c
    ELSE IF c.view = "revoked" THEN MarkRevokedReady(c)
    ELSE [c EXCEPT !.open = TRUE, !.by = nonce]

(***************************************************************************)
(* Trusted peers: GroupChatService's view of the remote peer.              *)
(***************************************************************************)
\* installGroupPeers: a connected peer that is now revoked may only be told so,
\* one that is now unknown is forgotten.
Install(c, trust) ==
    LET seen == [c EXCEPT !.view = trust] IN
    IF ~c.data \/ trust = "member" THEN seen
    ELSE IF trust = "revoked" THEN MarkRevokedReady([seen EXCEPT !.open = FALSE])
    ELSE ForgetPeer(seen)

\* sync.forgetPeer, called whenever the peer is forgotten or put on hold.
SyncAfter(c, d, y) ==
    IF (c.data /\ ~d.data) \/ (~c.revOnly /\ d.revOnly) THEN NoHandshake ELSE y

\* transport.connect for a trusted peer: it starts an attempt where there is none.
Trying(n) == [n EXCEPT !.chan = IF n.chan = "idle" THEN "trying" ELSE n.chan]
Unlinked(n) == [n EXCEPT !.chan = IF n.chan \in {"open", "trying"} THEN "idle" ELSE n.chan]

\* connectPresentTrustedPeers.
ConnectPresent(c, n) == IF n.sees /\ Allowed(c) THEN Trying(n) ELSE n

(***************************************************************************)
(* refreshGroupMembership: at most one task per session; a change that     *)
(* arrives while it runs makes it run once more.                           *)
(***************************************************************************)
Refresh(s) == [k |-> "refresh", s |-> s, at |-> "load", snap |-> NoSnapshot]

Asked(c, broadcast) ==
    IF c.tok = 0 \/ ~c.conf THEN c
    ELSE IF c.task = 0 THEN [c EXCEPT !.task = c.tok, !.pending = FALSE]
    ELSE [c EXCEPT !.pending = c.pending \/ broadcast]

Started(c) == IF c.tok # 0 /\ c.conf /\ c.task = 0 THEN {Refresh(c.tok)} ELSE {}

\* The end of an iteration: once more while a change is pending, else finally.
Again(c, op) == c.pending /\ c.tok = op.s

EndedTask(c, op) == IF c.task = op.s THEN [c EXCEPT !.task = 0] ELSE c

IterationEnds(c, op, others) ==
    IF Again(c, op)
    THEN /\ cc' = [c EXCEPT !.pending = FALSE]
         /\ ops' = others \cup {Refresh(op.s)}
    ELSE /\ cc' = EndedTask(c, op)
         /\ ops' = others

-----------------------------------------------------------------------------
(***************************************************************************)
(* connect and disconnect.                                                 *)
(***************************************************************************)
Quiet == Cardinality(ops) < MaxInFlight

Close(s) == IF s = 0 THEN {} ELSE {[k |-> "close", s |-> s]}

\* The application asks for a session.  disconnect detaches the one there is
\* before it awaits anything.  Callers do not ask twice while it is closed.
Connect ==
    /\ count.sessions < MaxSessions /\ Quiet
    /\ \A op \in ops : ~(op.k = "connect" /\ op.at = "closing")
    /\ count' = [count EXCEPT !.sessions = @ + 1]
    /\ ops' = ops \cup {[k |-> "connect", s |-> count.sessions + 1, at |-> "closing", old |-> cc.res,
                         snap |-> NoSnapshot]}
    /\ cc' = Detached
    /\ sync' = NoHandshake
    /\ UNCHANGED <<net, store>>

Disconnect ==
    /\ cc.tok # 0 /\ Quiet
    /\ ops' = ops \cup Close(cc.res)
    /\ cc' = Detached
    /\ sync' = NoHandshake
    /\ UNCHANGED <<net, store, count>>

Gone == [sig |-> "off", room |-> 0, sees |-> FALSE, chan |-> "gone", link |-> 0]

Closed(op) ==
    /\ op.k = "close"
    /\ ops' = ops \ {op}
    /\ net' = [net EXCEPT ![op.s] = Gone]
    /\ UNCHANGED <<cc, sync, store, count>>

\* this.groups.configure and the fields before it.
Configured(c, snap) == [c EXCEPT !.conf = TRUE, !.view = snap.trust, !.rdv = snap.rdv]

ConnectCloses(op) ==
    /\ op.k = "connect" /\ op.at = "closing"
    /\ net' = IF op.old = 0 THEN net ELSE [net EXCEPT ![op.old] = Gone]
    /\ cc' = [cc EXCEPT !.tok = op.s]
    /\ ops' = (ops \ {op}) \cup {[op EXCEPT !.at = "infer", !.old = 0]}
    /\ UNCHANGED <<sync, store, count>>

\* Mutant: a connect that was replaced leaves closing to who replaced it.
Released_Nothing(op) == {}

\* The catch of connect for a session that was replaced: it closes what it made.
Released(op) == IF net[op.s] = NotCreated THEN {} ELSE Close(op.s)

Aborted(op) ==
    /\ ops' = (ops \ {op}) \cup Released(op)
    /\ UNCHANGED <<cc, sync, net, store, count>>

\* The trusted peers are read from storage, here or by the caller before it.
ConnectInfers(op) ==
    /\ op.k = "connect" /\ op.at = "infer"
    /\ \/ /\ cc.tok # op.s
          /\ Aborted(op)
       \/ /\ cc.tok = op.s
          /\ cc' = Configured(cc, store)
          /\ ops' = (ops \ {op}) \cup {[op EXCEPT !.at = "network", !.snap = store]}
          /\ UNCHANGED <<sync, net, store, count>>

\* After loadRtcNetworkContext: the provider and the transport are created.
ConnectCreates(op) ==
    /\ op.k = "connect" /\ op.at = "network"
    /\ \/ /\ cc.tok # op.s
          /\ Aborted(op)
       \/ /\ cc.tok = op.s
          /\ cc' = [cc EXCEPT !.res = op.s]
          /\ net' = [net EXCEPT ![op.s].sig = "new", ![op.s].chan = "idle"]
          /\ ops' = (ops \ {op}) \cup {[op EXCEPT !.at = "attach"]}
          /\ UNCHANGED <<sync, store, count>>

\* After attachments.connect: listeners are bound and the provider joins.
ConnectBinds(op) ==
    /\ op.k = "connect" /\ op.at = "attach"
    /\ \/ /\ cc.tok # op.s
          /\ Aborted(op)
       \/ /\ cc.tok = op.s
          /\ cc' = [cc EXCEPT !.bound = op.s]
          /\ net' = [net EXCEPT ![op.s].sig = "joining", ![op.s].room = op.snap.rdv]
          /\ ops' = (ops \ {op}) \cup {[op EXCEPT !.at = "join"]}
          /\ UNCHANGED <<sync, store, count>>

\* signaling.connect ends.  A provider disconnected meanwhile may end up joined;
\* one that a refresh has sent to another room meanwhile times out.
ConnectJoins(op, ok) ==
    /\ op.k = "connect" /\ op.at = "join"
    /\ LET expected == cc.tok # op.s \/ net[op.s].room # op.snap.rdv IN
       /\ ok => net[op.s].room = op.snap.rdv
       /\ ok \/ expected \/ count.faults < MaxFaults
       /\ count' = IF ok \/ expected THEN count ELSE [count EXCEPT !.faults = @ + 1]
    /\ net' = [net EXCEPT ![op.s].sig = IF ok THEN "on" ELSE "failed"]
    /\ IF cc.tok = op.s /\ ok
       THEN /\ cc' = Asked(cc, FALSE)
            /\ ops' = (ops \ {op}) \cup Started(cc) \cup {[op EXCEPT !.at = "refresh", !.snap = NoSnapshot]}
            /\ UNCHANGED sync
       ELSE IF cc.tok = op.s
       THEN /\ cc' = Detached
            /\ sync' = NoHandshake
            /\ ops' = (ops \ {op}) \cup Close(op.s)
       ELSE /\ ops' = (ops \ {op}) \cup Released(op)
            /\ UNCHANGED <<cc, sync>>
    /\ UNCHANGED store

\* connect returns when the refresh it awaits is over.
ConnectReturns(op) ==
    /\ op.k = "connect" /\ op.at = "refresh"
    /\ \A o \in ops : ~(o.k = "refresh" /\ o.s = op.s)
    /\ ops' = ops \ {op}
    /\ UNCHANGED <<cc, sync, net, store, count>>

-----------------------------------------------------------------------------
(***************************************************************************)
(* Callbacks of the transport.  Each compares the session token.           *)
(***************************************************************************)
Live(s) == cc.tok = s

LinkOpens(s) ==
    /\ net[s].chan = "trying"
    /\ count.links < MaxLinks
    /\ count' = [count EXCEPT !.links = @ + 1]
    /\ net' = [net EXCEPT ![s].chan = "open", ![s].link = count.links + 1]
    /\ IF Live(s)
       THEN LET c == [cc EXCEPT !.data = TRUE] IN
            cc' = c /\ sync' = Begin(c, [sync EXCEPT !.failed = FALSE], count.links + 1)
       ELSE UNCHANGED <<cc, sync>>
    /\ UNCHANGED <<ops, store>>

\* The channel closes or the connection fails.
LinkCloses(s) ==
    /\ net[s].chan \in {"open", "trying"}
    /\ net' = [net EXCEPT ![s].chan = "idle"]
    /\ IF Live(s)
       THEN cc' = ForgetPeer(cc) /\ sync' = NoHandshake
       ELSE UNCHANGED <<cc, sync>>
    /\ UNCHANGED <<ops, store, count>>

Channel == cc.tok # 0 /\ cc.res = cc.tok /\ net[cc.res].chan = "open"

\* A challenge of the peer is answered; a device that has not begun its own
\* handshake does so.  (The signature is not a step: what follows it checks the
\* session and the channel again and changes nothing if they are gone.)
ChallengeArrives ==
    /\ Channel /\ Allowed(cc) /\ cc.conf /\ cc.data
    /\ ~cc.open /\ sync.nonce = 0 /\ ~sync.failed
    /\ sync' = Begin(cc, sync, net[cc.res].link)
    /\ UNCHANGED <<cc, ops, net, store, count>>

\* A proof of the peer for the challenge sent on this channel: it is verified.
ProofArrives(good) ==
    /\ Channel /\ Allowed(cc) /\ cc.conf
    /\ sync.nonce # 0 /\ sync.nonce = net[cc.res].link
    /\ good \/ count.faults < MaxFaults
    /\ Quiet
    /\ count' = IF good THEN count ELSE [count EXCEPT !.faults = @ + 1]
    /\ ops' = ops \cup {[k |-> "verify", s |-> cc.tok, nonce |-> sync.nonce, good |-> good]}
    /\ UNCHANGED <<cc, sync, net, store>>

\* Mutant: the challenge is not compared again after the verification.
StillAsked_BySession(op) == cc.tok = op.s

\* The session and the challenge are still the ones the proof was for.
StillAsked(op) == cc.tok = op.s /\ sync.nonce = op.nonce

Verified(op) ==
    /\ op.k = "verify"
    /\ ops' = ops \ {op}
    /\ IF ~StillAsked(op) THEN UNCHANGED <<cc, sync>>
       ELSE IF ~op.good THEN sync' = Failed /\ UNCHANGED cc
       ELSE /\ sync' = NoHandshake
            /\ cc' = IF cc.view = "revoked" THEN MarkRevokedReady(cc) ELSE MarkReady(cc, op.nonce)
    /\ UNCHANGED <<net, store, count>>

\* The timer of schedule.
TimerFires ==
    /\ sync.timer
    /\ LET y == [sync EXCEPT !.timer = FALSE] IN
       sync' = IF ~cc.data \/ cc.open THEN y ELSE IF y.since = "late" THEN Failed ELSE Begin(cc, y, net[cc.res].link)
    /\ UNCHANGED <<cc, ops, net, store, count>>

\* IDENTITY_HANDSHAKE_TIMEOUT_MS have passed since the first challenge.
DeadlinePasses ==
    /\ sync.since = "early"
    /\ sync' = [sync EXCEPT !.since = "late"]
    /\ UNCHANGED <<cc, ops, net, store, count>>

-----------------------------------------------------------------------------
(***************************************************************************)
(* Callbacks of the signaling provider, heard while they are bound.        *)
(***************************************************************************)
PeerAppears(s) ==
    /\ net[s].sig = "on" /\ ~net[s].sees /\ cc.bound = s
    /\ IF ~Allowed(cc)
       THEN cc' = Asked(cc, TRUE) /\ ops' = ops \cup Started(cc)
       ELSE UNCHANGED <<cc, ops>>
    /\ net' = [net EXCEPT ![s] = LET n == [@ EXCEPT !.sees = TRUE] IN
                                 IF Allowed(cc) THEN Trying(n) ELSE n]
    /\ UNCHANGED <<sync, store, count>>

\* onPeerLeft, also emitted for every peer when the provider leaves its room.
LeftPeer(c, n) == IF n.sees /\ Allowed(c) THEN Unlinked(n) ELSE n

PeerDisappears(s) ==
    /\ net[s].sig = "on" /\ net[s].sees /\ cc.bound = s
    /\ net' = [net EXCEPT ![s] = [LeftPeer(cc, @) EXCEPT !.sees = FALSE]]
    /\ IF Allowed(cc)
       THEN cc' = ForgetPeer(cc) /\ sync' = NoHandshake
       ELSE UNCHANGED <<cc, sync>>
    /\ UNCHANGED <<ops, store, count>>

OfferArrives(s) ==
    /\ net[s].sig = "on" /\ cc.bound = s /\ Allowed(cc) /\ net[s].chan = "idle"
    /\ net' = [net EXCEPT ![s] = Trying(@)]
    /\ UNCHANGED <<cc, sync, ops, store, count>>

\* onStatusChange: the provider has reconnected by itself.
ProviderReconnects(s) ==
    /\ net[s].sig = "on" /\ cc.bound = s /\ ~cc.open /\ Quiet
    /\ cc' = Asked(cc, FALSE)
    /\ ops' = ops \cup Started(cc)
    /\ UNCHANGED <<sync, net, store, count>>

-----------------------------------------------------------------------------
(***************************************************************************)
(* The group changes in local storage and risk:social-updated is           *)
(* dispatched: the user or another component saved it, or the peer's       *)
(* membership snapshot was merged, which is installed at once.  A removal   *)
(* also changes the rendezvous.                                            *)
(***************************************************************************)
Later(g) ==
    {[g EXCEPT !.rdv = @ + 1]} \cup
    (CASE g.trust = "unknown" -> {[g EXCEPT !.trust = "member"]}
       [] g.trust = "member" -> {[trust |-> "revoked", rdv |-> g.rdv + 1]}
       [] OTHER -> {})

StoreChanges(g, arrived) ==
    /\ count.changes < MaxChanges /\ Quiet
    /\ count' = [count EXCEPT !.changes = @ + 1]
    /\ store' = g
    /\ arrived => Channel /\ cc.open
    /\ LET heard == IF cc.bound = 0 THEN cc ELSE Asked(cc, TRUE)
           c == IF arrived THEN Install(heard, g.trust) ELSE heard IN
       /\ cc' = c
       /\ sync' = SyncAfter(cc, c, sync)
       /\ ops' = ops \cup (IF cc.bound = 0 THEN {} ELSE Started(cc))
       /\ net' = IF ~arrived THEN net
                 ELSE [net EXCEPT ![cc.res] = ConnectPresent(c, IF g.trust = "unknown" THEN Unlinked(@) ELSE @)]

RefreshReads(op) ==
    /\ op.k = "refresh" /\ op.at = "load"
    /\ ops' = (ops \ {op}) \cup {[op EXCEPT !.at = "install", !.snap = store]}
    /\ UNCHANGED <<cc, sync, net, store, count>>

\* A refresh whose session is over changes nothing more.
RefreshReturns(op) ==
    /\ cc' = EndedTask(cc, op)
    /\ ops' = ops \ {op}
    /\ UNCHANGED <<sync, net, store, count>>

RefreshInstalls(op) ==
    /\ op.k = "refresh" /\ op.at = "install"
    /\ \/ /\ cc.tok # op.s
          /\ RefreshReturns(op)
       \/ /\ cc.tok = op.s
          /\ LET c == Install(cc, op.snap.trust)
                 n == IF cc.data /\ op.snap.trust = "unknown" THEN Unlinked(net[op.s]) ELSE net[op.s] IN
             /\ cc' = c
             /\ sync' = SyncAfter(cc, c, sync)
             /\ net' = IF cc.res = 0 THEN net ELSE [net EXCEPT ![op.s] = ConnectPresent(c, n)]
          /\ ops' = (ops \ {op}) \cup {[op EXCEPT !.at = "send"]}
          /\ UNCHANGED <<store, count>>

\* The membership was sent; a changed rendezvous makes the provider join the
\* new room, which tells the controller that everybody left the old one.
RefreshMoves(op) ==
    /\ op.k = "refresh" /\ op.at = "send"
    /\ \/ /\ cc.tok # op.s
          /\ RefreshReturns(op)
       \/ /\ cc.tok = op.s /\ op.snap.rdv = cc.rdv
          /\ IterationEnds(cc, op, ops \ {op})
          /\ UNCHANGED <<sync, net, store, count>>
       \/ /\ cc.tok = op.s /\ op.snap.rdv # cc.rdv
          /\ LET n == net[op.s]
                 left == n.sees /\ Allowed(cc)
                 c == IF left THEN ForgetPeer(cc) ELSE cc IN
             /\ cc' = [c EXCEPT !.rdv = op.snap.rdv]
             /\ sync' = IF left THEN NoHandshake ELSE sync
             /\ net' = [net EXCEPT ![op.s] = [LeftPeer(cc, n) EXCEPT !.sig = "joining", !.room = op.snap.rdv,
                                                                     !.sees = FALSE]]
          /\ ops' = (ops \ {op}) \cup {[op EXCEPT !.at = "rejoin", !.snap = NoSnapshot]}
          /\ UNCHANGED <<store, count>>

\* The provider is in the new room, or could not join it.  The refresh then
\* fails, and with it a connect that is still waiting for it.
RefreshJoins(op, ok) ==
    /\ op.k = "refresh" /\ op.at = "rejoin"
    /\ ok \/ count.faults < MaxFaults \/ cc.tok # op.s
    /\ count' = IF ok \/ cc.tok # op.s THEN count ELSE [count EXCEPT !.faults = @ + 1]
    /\ LET late == net[op.s].sig = "off" /\ ~LateJoin IN
       net' = IF late THEN net ELSE [net EXCEPT ![op.s].sig = IF ok THEN "on" ELSE "failed"]
    /\ LET waiting == {o \in ops : o.k = "connect" /\ o.s = op.s} IN
       IF cc.tok = op.s /\ ok
       THEN IterationEnds(cc, op, ops \ {op}) /\ UNCHANGED sync
       ELSE IF cc.tok = op.s /\ waiting # {}
       THEN /\ cc' = Detached
            /\ sync' = NoHandshake
            /\ ops' = (ops \ ({op} \cup waiting)) \cup Close(cc.res)
       ELSE /\ cc' = EndedTask(cc, op)
            /\ ops' = ops \ {op}
            /\ UNCHANGED sync
    /\ UNCHANGED store

-----------------------------------------------------------------------------
Continues(op) ==
    \/ Closed(op)
    \/ ConnectCloses(op) \/ ConnectInfers(op) \/ ConnectCreates(op) \/ ConnectBinds(op) \/ ConnectReturns(op)
    \/ \E ok \in BOOLEAN : ConnectJoins(op, ok)
    \/ Verified(op)
    \/ RefreshReads(op) \/ RefreshInstalls(op) \/ RefreshMoves(op)
    \/ \E ok \in BOOLEAN : RefreshJoins(op, ok)

Next ==
    \/ Connect \/ Disconnect
    \/ \E op \in ops : Continues(op)
    \/ \E s \in Sessions :
          \/ LinkOpens(s) \/ LinkCloses(s)
          \/ PeerAppears(s) \/ PeerDisappears(s) \/ OfferArrives(s) \/ ProviderReconnects(s)
    \/ ChallengeArrives \/ \E good \in BOOLEAN : ProofArrives(good)
    \/ TimerFires \/ DeadlinePasses
    \/ \E g \in Later(store), arrived \in BOOLEAN : StoreChanges(g, arrived)

Spec == Init /\ [][Next]_vars

\* What is in flight ends, timers fire and time passes.  Nothing is assumed of
\* the peer, of the network or of the user.
Step(k, s) == \E op \in ops : op.k = k /\ op.s = s /\ Continues(op)

FairSpec ==
    /\ Spec
    /\ \A k \in {"connect", "refresh", "verify", "close"}, s \in Sessions : WF_vars(Step(k, s))
    /\ WF_vars(TimerFires)
    /\ WF_vars(DeadlinePasses)

-----------------------------------------------------------------------------
Closings == [k : {"close"}, s : Sessions]
Verifications == [k : {"verify"}, s : Sessions, nonce : 1..MaxLinks, good : BOOLEAN]
Refreshes ==
    [k : {"refresh"}, s : Sessions, at : {"load", "install", "send", "rejoin"}, snap : Snapshots \cup {NoSnapshot}]
Connects ==
    [k : {"connect"}, s : Sessions, at : {"closing", "infer", "network", "attach", "join", "refresh"},
     old : 0..MaxSessions, snap : Snapshots \cup {NoSnapshot}]

Ops == Closings \cup Verifications \cup Refreshes \cup Connects

Controllers ==
    [tok : 0..MaxSessions, res : 0..MaxSessions, conf : BOOLEAN, view : Trusts, rdv : 0..(MaxChanges + 1),
     data : BOOLEAN, open : BOOLEAN, revOnly : BOOLEAN, by : 0..MaxLinks, task : 0..MaxSessions,
     pending : BOOLEAN, bound : 0..MaxSessions]

Handshakes == [nonce : 0..MaxLinks, timer : BOOLEAN, since : {"none", "early", "late"}, failed : BOOLEAN]

Connections ==
    [sig : {"none", "new", "joining", "on", "failed", "off"}, room : 0..(MaxChanges + 1), sees : BOOLEAN,
     chan : {"none", "idle", "trying", "open", "gone"}, link : 0..MaxLinks]

\* The controller's fields keep their types, a task is one of the session, and
\* a handshake that failed has neither challenge nor timer (SyncService.fail).
TypeOK ==
    /\ cc \in Controllers
    /\ cc.task \in {0, cc.tok} /\ cc.bound \in {0, cc.tok} /\ cc.res \in {0, cc.tok}
    /\ sync \in Handshakes
    /\ sync.failed => ~sync.timer /\ sync.nonce = 0
    /\ ops \subseteq Ops
    /\ net \in [Sessions -> Connections]
    /\ store \in Snapshots
    /\ count \in [sessions : 0..MaxSessions, links : 0..MaxLinks, changes : 0..MaxChanges, faults : 0..MaxFaults]

\* A peer is open only if it proved its identity against a challenge sent on
\* the data channel that is open now: a proof whose verification outlives the
\* channel or the session it came on opens nothing.
OpenIsProven == cc.open => Channel /\ cc.by = net[cc.res].link

\* The controller counts a peer as connected exactly while the current
\* session's transport has an open channel to it, whatever the transports of
\* earlier sessions still report.
TracksChannel == cc.data <=> Channel

\* A peer the installed membership calls revoked, or does not know, is not open.
RevokedNeverOpen == cc.open => cc.view = "member"

\* Every provider and transport that is alive belongs to the current session,
\* to a connect that will go on, or is being closed.
NothingLeftBehind ==
    \A s \in Sessions :
        \/ net[s] = NotCreated
        \/ net[s].sig = "off" /\ net[s].chan = "gone"
        \/ cc.res = s
        \/ \E op \in ops : \/ op.k \in {"connect", "close"} /\ op.s = s
                           \/ op.k = "connect" /\ op.at = "closing" /\ op.old = s

\* A handshake ends: the peer is accepted, refused or gone.  Retries of a
\* challenge end at the deadline, whatever the peer sends.
HandshakeEnds == (cc.data /\ sync.nonce # 0) ~> (cc.open \/ cc.revOnly \/ sync.failed \/ ~cc.data)

\* A peer whose removal reached local storage is in the end locked out for good.
RemovalTakesHold == (store.trust = "revoked") ~> [](~cc.open)

\* A session ends up in the room storage names, fails or is over.
RoomTakesHold == (cc.tok # 0) ~> (cc.tok = 0 \/ cc.rdv = store.rdv)

\* What a session begins it brings to an end, and what storage says it follows in the
\* end, although retries, timers, refreshes and its own replacement overtake it.
SessionSettles == HandshakeEnds /\ RemovalTakesHold /\ RoomTakesHold

\* Only a member that proved itself on the channel that is open now is open:
\* the three facts that connect, the transport's callbacks, the verification
\* of proofs and refreshGroupMembership have to keep together.
OnlyProvenMembersOpen == TypeOK /\ TracksChannel /\ OpenIsProven /\ RevokedNeverOpen

-----------------------------------------------------------------------------
(***************************************************************************)
(* What makes the two invariants inductive.                                *)
(***************************************************************************)
Made(s) == net[s].chan # "none"

Early == {"closing", "infer", "network"}
Binding == {"attach", "join"}

\* A session that was not asked for, or whose connect is still before the
\* creation of its transport, has neither provider nor transport.
CreationInv ==
    /\ \A s \in Sessions : ~Made(s) => net[s] = NotCreated
    /\ \A s \in Sessions : s > count.sessions => ~Made(s)
    /\ \A op \in ops : op.k = "connect" => op.s <= count.sessions
    /\ \A op \in ops : op.k = "connect" => (Made(op.s) <=> (op.at \notin Early))
    /\ \A op \in ops : op.k \in {"refresh", "close"} => Made(op.s)
    /\ \A op \in ops : op.k = "connect" /\ op.at = "closing" /\ op.old # 0 => Made(op.old)

\* At most one connect works for a session, and while one closes the session
\* before it, the controller has none.
ConnectInv ==
    /\ \A op \in ops, o \in ops :
          /\ op.k = "connect" /\ o.k = "connect"
          /\ op.s = o.s \/ (op.at = "closing" /\ o.at = "closing")
          => op = o
    /\ \A op \in ops : op.k = "connect" /\ op.at = "closing" => cc.tok = 0
    /\ \A op \in ops : op.k = "close" => op.s # cc.tok

\* The controller has a transport as soon as its session has one, and listens
\* only to that.
AttachInv ==
    /\ cc.tok # 0 => ((cc.res # 0) <=> Made(cc.tok))
    /\ cc.bound # 0 => cc.res # 0

\* The challenge that waits for a proof was sent on the channel that is open.
ChallengeInv == sync.nonce # 0 => cc.data /\ Allowed(cc) /\ sync.nonce = net[cc.res].link

\* A change of the group moves it by at most one room.
RoomInv == store.rdv <= count.changes + 1

\* NothingLeftBehind, without the connects that have joined and only wait.
ReleaseInv ==
    \A s \in Sessions :
        \/ ~Made(s)
        \/ net[s].sig = "off" /\ net[s].chan = "gone"
        \/ cc.res = s
        \/ \E op \in ops : \/ op.k = "close" /\ op.s = s
                           \/ op.k = "connect" /\ op.at \in Binding /\ op.s = s
                           \/ op.k = "connect" /\ op.at = "closing" /\ op.old = s
=============================================================================
