------------------------- MODULE ChatSessionProofs -------------------------
(***************************************************************************)
(* A chat session: only a member that proved itself on the channel that is *)
(* open now is open, and no provider or transport is left behind.  And of  *)
(* the background sessions, for any channels, groups and friends: each     *)
(* controller that runs is held by one entry, and the limits hold.         *)
(***************************************************************************)
EXTENDS ChatSession, BackgroundState, FiniteSetTheorems, SequenceTheorems, WellFoundedInduction, TLAPS

CONSTANTS SerialPrivate

\* The steps of the manager of the background sessions; MaxFaults bounds the faults of either model.
Bg == INSTANCE Background

----------------------------------------------------------------------------
(* What the helpers do to a controller and to a handshake.                 *)

\* The handshake's peer: what it is believed to be, and by which channel.
SameView(c, d) ==
    /\ d.tok = c.tok /\ d.res = c.res /\ d.bound = c.bound /\ d.view = c.view
    /\ d.data = c.data /\ d.open = c.open /\ d.by = c.by

LEMMA Zeros == 0 \in 0..MaxSessions /\ 0 \in 0..MaxLinks /\ 0 \in 0..(MaxChanges + 1)
BY BoundsAreNatural

LEMMA DetachedTyped == Detached \in Controllers /\ NoHandshake \in Handshakes
BY Zeros DEF Detached, Controllers, NoHandshake, Handshakes, Trusts

LEMMA FailedTyped == Failed \in Handshakes /\ Failed.nonce = 0 /\ ~Failed.timer
BY DetachedTyped DEF Failed, NoHandshake, Handshakes

LEMMA AskedTyped ==
    ASSUME NEW c \in Controllers, NEW b \in BOOLEAN, c.task \in {0, c.tok}
    PROVE  /\ Asked(c, b) \in Controllers /\ Asked(c, b).task \in {0, c.tok}
           /\ SameView(c, Asked(c, b)) /\ Asked(c, b).conf = c.conf
<1>1. CASE c.tok = 0 \/ ~c.conf
  BY <1>1 DEF Asked, SameView
<1>2. CASE c.tok # 0 /\ c.conf /\ c.task = 0
  BY <1>2 DEF Asked, SameView, Controllers
<1>3. CASE c.tok # 0 /\ c.conf /\ c.task # 0
  BY <1>3 DEF Asked, SameView, Controllers
<1>4. QED
  BY <1>1, <1>2, <1>3

LEMMA StartedTyped ==
    ASSUME NEW c \in Controllers, NEW o \in Started(c)
    PROVE  o \in Refreshes /\ o.k = "refresh" /\ o.s = c.tok /\ c.conf
<1>1. c.tok # 0 /\ c.conf /\ o = Refresh(c.tok)
  BY DEF Started
<1>2. c.tok \in Sessions
  BY <1>1 DEF Controllers, Sessions
<1>3. QED
  BY <1>1, <1>2 DEF Refresh, Refreshes

LEMMA ForgetTyped ==
    ASSUME NEW c \in Controllers
    PROVE  /\ ForgetPeer(c) \in Controllers
           /\ ForgetPeer(c).tok = c.tok /\ ForgetPeer(c).res = c.res /\ ForgetPeer(c).bound = c.bound
           /\ ForgetPeer(c).task = c.task /\ ForgetPeer(c).view = c.view
           /\ ~ForgetPeer(c).data /\ ~ForgetPeer(c).open
BY DEF ForgetPeer, Controllers

LEMMA RevokedTyped ==
    ASSUME NEW c \in Controllers
    PROVE  /\ MarkRevokedReady(c) \in Controllers
           /\ MarkRevokedReady(c).tok = c.tok /\ MarkRevokedReady(c).res = c.res
           /\ MarkRevokedReady(c).bound = c.bound /\ MarkRevokedReady(c).task = c.task
           /\ MarkRevokedReady(c).view = c.view /\ MarkRevokedReady(c).data = c.data
           /\ MarkRevokedReady(c).by = c.by
           /\ MarkRevokedReady(c).open => c.open
BY DEF MarkRevokedReady, Controllers

\* Who opens the peer: only a member on an open channel, and by that nonce.
LEMMA ReadyTyped ==
    ASSUME NEW c \in Controllers, NEW nonce \in 0..MaxLinks
    PROVE  /\ MarkReady(c, nonce) \in Controllers
           /\ MarkReady(c, nonce).tok = c.tok /\ MarkReady(c, nonce).res = c.res
           /\ MarkReady(c, nonce).bound = c.bound /\ MarkReady(c, nonce).task = c.task
           /\ MarkReady(c, nonce).view = c.view /\ MarkReady(c, nonce).data = c.data
           /\ MarkReady(c, nonce).open =>
                 \/ c.open /\ MarkReady(c, nonce).by = c.by
                 \/ c.data /\ c.view # "revoked" /\ MarkReady(c, nonce).by = nonce
<1>1. CASE ~c.data \/ c.open
  BY <1>1 DEF MarkReady
<1>2. CASE c.data /\ ~c.open /\ c.view = "revoked"
  BY <1>2, RevokedTyped DEF MarkReady
<1>3. CASE c.data /\ ~c.open /\ c.view # "revoked"
  BY <1>3 DEF MarkReady, Controllers
<1>4. QED
  BY <1>1, <1>2, <1>3 DEF Controllers

\* A refresh installs what storage says of the peer.
LEMMA InstallTyped ==
    ASSUME NEW c \in Controllers, NEW trust \in Trusts
    PROVE  /\ Install(c, trust) \in Controllers
           /\ Install(c, trust).tok = c.tok /\ Install(c, trust).res = c.res
           /\ Install(c, trust).bound = c.bound /\ Install(c, trust).task = c.task
           /\ Install(c, trust).view = trust /\ Install(c, trust).by = c.by
           /\ Install(c, trust).data <=> (c.data /\ trust # "unknown")
           /\ Install(c, trust).open => c.open /\ (c.data => trust = "member")
<1> DEFINE seen == [c EXCEPT !.view = trust]
           held == [seen EXCEPT !.open = FALSE]
<1>1. /\ seen \in Controllers /\ seen.tok = c.tok /\ seen.res = c.res /\ seen.bound = c.bound
      /\ seen.task = c.task /\ seen.view = trust /\ seen.by = c.by /\ seen.data = c.data /\ seen.open = c.open
  BY DEF Controllers
<1> HIDE DEF seen
<1>2. /\ held \in Controllers /\ held.tok = c.tok /\ held.res = c.res /\ held.bound = c.bound
      /\ held.task = c.task /\ held.view = trust /\ held.by = c.by /\ held.data = c.data /\ ~held.open
  BY <1>1 DEF Controllers
<1> HIDE DEF held
<1>3. c.data \in BOOLEAN
  BY DEF Controllers
<1>4. CASE ~c.data \/ trust = "member"
  BY <1>1, <1>3, <1>4 DEF Install, seen
<1>5. CASE c.data /\ trust = "revoked"
  <2>1. Install(c, trust) = MarkRevokedReady(held)
    BY <1>5 DEF Install, seen, held
  <2> DEFINE d == MarkRevokedReady(held)
  <2>2. /\ d \in Controllers /\ d.tok = held.tok /\ d.res = held.res /\ d.bound = held.bound
        /\ d.task = held.task /\ d.view = held.view /\ d.data = held.data /\ d.by = held.by
        /\ d.open => held.open
    BY <1>2, RevokedTyped
  <2>3. Install(c, trust) = d
    BY <2>1
  <2> HIDE DEF d
  <2>4. ~d.open /\ d.data
    BY <1>2, <1>5, <2>2
  <2>5. QED
    BY <1>2, <1>5, <2>2, <2>3, <2>4
<1>6. CASE c.data /\ trust = "unknown"
  <2>1. Install(c, trust) = ForgetPeer(seen)
    BY <1>6 DEF Install, seen
  <2>2. ForgetPeer(seen).by = seen.by
    BY <1>1 DEF ForgetPeer, Controllers
  <2>3. ForgetPeer(seen).data = FALSE /\ ForgetPeer(seen).open = FALSE
    BY <1>1 DEF ForgetPeer, Controllers
  <2>4. QED
    BY <1>1, <1>6, <2>1, <2>2, <2>3, ForgetTyped
<1>7. QED
  BY <1>4, <1>5, <1>6 DEF Trusts

LEMMA SyncAfterTyped ==
    ASSUME NEW c \in Controllers, NEW d \in Controllers, NEW y \in Handshakes,
           y.failed => ~y.timer /\ y.nonce = 0
    PROVE  /\ SyncAfter(c, d, y) \in Handshakes
           /\ SyncAfter(c, d, y).failed => ~SyncAfter(c, d, y).timer /\ SyncAfter(c, d, y).nonce = 0
           /\ SyncAfter(c, d, y).nonce # 0 => SyncAfter(c, d, y).nonce = y.nonce /\ (c.data => d.data)
<1>1. CASE SyncAfter(c, d, y) = NoHandshake
  BY <1>1, DetachedTyped DEF NoHandshake
<1>2. CASE SyncAfter(c, d, y) = y /\ ~(c.data /\ ~d.data)
  BY <1>2 DEF Controllers
<1>3. QED
  BY <1>1, <1>2 DEF SyncAfter

\* begin sends the challenge that waits, or one named by the channel.
LEMMA BeginTyped ==
    ASSUME NEW c \in Controllers, NEW y \in Handshakes, NEW link \in 0..MaxLinks,
           y.failed => ~y.timer /\ y.nonce = 0
    PROVE  /\ Begin(c, y, link) \in Handshakes
           /\ Begin(c, y, link).failed => ~Begin(c, y, link).timer /\ Begin(c, y, link).nonce = 0
           /\ Begin(c, y, link).nonce # 0 =>
                 \/ Begin(c, y, link).nonce = y.nonce
                 \/ c.data /\ Allowed(c) /\ y.nonce = 0 /\ Begin(c, y, link).nonce = link
<1>1. CASE ~MayBegin(c, y)
  BY <1>1 DEF Begin
<1>2. CASE MayBegin(c, y) /\ y.since = "late"
  BY <1>2, FailedTyped DEF Begin
<1>3. CASE MayBegin(c, y) /\ y.since # "late"
  BY <1>3 DEF Begin, MayBegin, Handshakes
<1>4. QED
  BY <1>1, <1>2, <1>3

LEMMA EndedTyped ==
    ASSUME NEW c \in Controllers, NEW op, c.task \in {0, c.tok}
    PROVE  /\ EndedTask(c, op) \in Controllers /\ EndedTask(c, op).task \in {0, c.tok}
           /\ SameView(c, EndedTask(c, op))
<1>1. CASE c.task = op.s
  BY <1>1, Zeros DEF EndedTask, SameView, Controllers
<1>2. CASE c.task # op.s
  BY <1>2 DEF EndedTask, SameView
<1>3. QED
  BY <1>1, <1>2

----------------------------------------------------------------------------
(* Connections and operations in flight.                                   *)

\* A change of a connection that neither makes it nor ends it.
Kept(n, m) ==
    /\ m.sig = n.sig /\ m.room = n.room /\ m.link = n.link
    /\ (m.chan = "none") <=> (n.chan = "none")
    /\ (m.chan = "gone") <=> (n.chan = "gone")

LEMMA TryingTyped ==
    ASSUME NEW n \in Connections
    PROVE  /\ Trying(n) \in Connections /\ Kept(n, Trying(n)) /\ Trying(n).sees = n.sees
           /\ (Trying(n).chan = "open") <=> (n.chan = "open")
<1>1. CASE n.chan = "idle"
  BY <1>1 DEF Trying, Kept, Connections
<1>2. CASE n.chan # "idle"
  <2>1. Trying(n) = n
    BY <1>2 DEF Trying, Connections
  <2>2. QED
    BY <2>1 DEF Kept
<1>3. QED
  BY <1>1, <1>2

LEMMA UnlinkedTyped ==
    ASSUME NEW n \in Connections
    PROVE  /\ Unlinked(n) \in Connections /\ Kept(n, Unlinked(n)) /\ Unlinked(n).sees = n.sees
           /\ Unlinked(n).chan # "open"
<1>1. CASE n.chan \in {"open", "trying"}
  BY <1>1 DEF Unlinked, Kept, Connections
<1>2. CASE n.chan \notin {"open", "trying"}
  <2>1. Unlinked(n) = n
    BY <1>2 DEF Unlinked, Connections
  <2>2. QED
    BY <1>2, <2>1 DEF Kept
<1>3. QED
  BY <1>1, <1>2

LEMMA PresentTyped ==
    ASSUME NEW c \in Controllers, NEW n \in Connections
    PROVE  /\ ConnectPresent(c, n) \in Connections /\ Kept(n, ConnectPresent(c, n))
           /\ (ConnectPresent(c, n).chan = "open") <=> (n.chan = "open")
BY TryingTyped DEF ConnectPresent, Kept

LEMMA LeftTyped ==
    ASSUME NEW c \in Controllers, NEW n \in Connections
    PROVE  /\ LeftPeer(c, n) \in Connections /\ Kept(n, LeftPeer(c, n))
           /\ (LeftPeer(c, n).chan = "open") <=> (n.chan = "open" /\ ~(n.sees /\ Allowed(c)))
BY UnlinkedTyped DEF LeftPeer, Kept

LEMMA NewConnections == NotCreated \in Connections /\ Gone \in Connections
BY Zeros DEF NotCreated, Gone, Connections

LEMMA OpKinds ==
    ASSUME NEW op \in Ops
    PROVE  /\ op.s \in Sessions
           /\ op.k = "connect" <=> op \in Connects
           /\ op.k = "refresh" <=> op \in Refreshes
           /\ op.k = "verify" <=> op \in Verifications
           /\ op.k = "close" <=> op \in Closings
           /\ op.k \in {"connect", "refresh", "verify", "close"}
BY DEF Ops, Connects, Refreshes, Verifications, Closings

LEMMA ConnectMoves ==
    ASSUME NEW op \in Connects, NEW o,
           \/ \E at \in {"network", "refresh"}, snap \in Snapshots \cup {NoSnapshot} :
                 o = [op EXCEPT !.at = at, !.snap = snap]
           \/ \E at \in {"attach", "join"} : o = [op EXCEPT !.at = at]
           \/ o = [op EXCEPT !.at = "infer", !.old = 0]
    PROVE  o \in Connects /\ o.k = "connect" /\ o.s = op.s
BY Zeros DEF Connects

LEMMA RefreshMovesOn ==
    ASSUME NEW op \in Refreshes, NEW o,
           \/ \E at \in {"install", "rejoin"}, snap \in Snapshots \cup {NoSnapshot} :
                 o = [op EXCEPT !.at = at, !.snap = snap]
           \/ o = [op EXCEPT !.at = "send"]
           \/ o = Refresh(op.s)
    PROVE  o \in Refreshes /\ o.k = "refresh" /\ o.s = op.s
<1>1. CASE \E at \in {"install", "rejoin"}, snap \in Snapshots \cup {NoSnapshot} :
              o = [op EXCEPT !.at = at, !.snap = snap]
  BY <1>1 DEF Refreshes
<1>2. CASE o = [op EXCEPT !.at = "send"]
  BY <1>2 DEF Refreshes
<1>3. CASE o = Refresh(op.s)
  BY <1>3 DEF Refreshes, Refresh
<1>4. QED
  BY <1>1, <1>2, <1>3

LEMMA CloseTyped ==
    ASSUME NEW s \in 0..MaxSessions, NEW o \in Close(s)
    PROVE  o \in Closings /\ o.k = "close" /\ o.s = s /\ s # 0
<1>1. s # 0 /\ o = [k |-> "close", s |-> s]
  BY DEF Close
<1>2. s \in Sessions
  BY <1>1 DEF Sessions
<1>3. QED
  BY <1>1, <1>2 DEF Closings

LEMMA ReleasedTyped ==
    ASSUME NEW op \in Connects, NEW o \in Released(op)
    PROVE  o \in Closings /\ o.k = "close" /\ o.s = op.s /\ net[op.s] # NotCreated
<1>1. op.s \in 0..MaxSessions
  BY DEF Connects, Sessions
<1>2. net[op.s] # NotCreated /\ o \in Close(op.s)
  BY DEF Released
<1>3. QED
  BY <1>1, <1>2, CloseTyped

\* The end of an iteration of a refresh.
LEMMA IterationTyped ==
    ASSUME NEW c \in Controllers, c.task \in {0, c.tok}, NEW op \in Refreshes, NEW others \in SUBSET Ops,
           IterationEnds(c, op, others)
    PROVE  /\ cc' \in Controllers /\ cc'.task \in {0, cc'.tok} /\ SameView(c, cc')
           /\ others \subseteq ops'
           /\ \A o \in ops' : o \in others \/ (o \in Refreshes /\ o.k = "refresh" /\ o.s = op.s)
<1>1. CASE Again(c, op)
  <2>1. cc' = [c EXCEPT !.pending = FALSE] /\ ops' = others \cup {Refresh(op.s)}
    BY <1>1 DEF IterationEnds
  <2>2. cc' \in Controllers /\ cc'.task \in {0, cc'.tok} /\ SameView(c, cc')
    BY <2>1 DEF Controllers, SameView
  <2>3. Refresh(op.s) \in Refreshes /\ Refresh(op.s).k = "refresh" /\ Refresh(op.s).s = op.s
    BY DEF Refreshes, Refresh
  <2>4. QED
    BY <2>1, <2>2, <2>3
<1>2. CASE ~Again(c, op)
  <2>1. cc' = EndedTask(c, op) /\ ops' = others
    BY <1>2 DEF IterationEnds
  <2>2. /\ EndedTask(c, op) \in Controllers /\ EndedTask(c, op).task \in {0, c.tok}
        /\ SameView(c, EndedTask(c, op))
    BY EndedTyped
  <2>3. EndedTask(c, op).tok = c.tok
    BY <2>2 DEF SameView
  <2>4. QED
    BY <2>1, <2>2, <2>3
<1>3. QED
  BY <1>1, <1>2

----------------------------------------------------------------------------
(* Typing.                                                                 *)

Typed == TypeOK /\ RoomInv

CcTyped(c) == c \in Controllers /\ c.task \in {0, c.tok} /\ c.bound \in {0, c.tok} /\ c.res \in {0, c.tok}
SyncTyped(y) == y \in Handshakes /\ (y.failed => ~y.timer /\ y.nonce = 0)
CountTyped ==
    count \in [sessions : 0..MaxSessions, links : 0..MaxLinks, changes : 0..MaxChanges, faults : 0..MaxFaults]

LEMMA TypedParts ==
    Typed <=> /\ CcTyped(cc) /\ SyncTyped(sync) /\ ops \subseteq Ops /\ net \in [Sessions -> Connections]
              /\ store \in Snapshots /\ CountTyped /\ RoomInv
BY DEF Typed, TypeOK, CcTyped, SyncTyped, CountTyped

LEMMA TypedPartsNext ==
    ASSUME CcTyped(cc'), SyncTyped(sync'), ops' \subseteq Ops, net' \in [Sessions -> Connections],
           store' \in Snapshots, CountTyped', RoomInv'
    PROVE  Typed'
BY DEF Typed, TypeOK, CcTyped, SyncTyped, CountTyped

LEMMA SameStore == ASSUME Typed, UNCHANGED store, count' = count PROVE store' \in Snapshots /\ CountTyped' /\ RoomInv'
BY TypedParts DEF CountTyped, RoomInv

LEMMA FaultCounted ==
    ASSUME Typed, UNCHANGED store, count' = count \/ (count.faults < MaxFaults /\ count' = [count EXCEPT !.faults = @ + 1])
    PROVE  store' \in Snapshots /\ CountTyped' /\ RoomInv' /\ count'.sessions = count.sessions
<1>1. CASE count' = count
  BY <1>1, SameStore
<1>2. CASE count.faults < MaxFaults /\ count' = [count EXCEPT !.faults = @ + 1]
  <2>1. CountTyped
    BY TypedParts
  <2>2. count.faults + 1 \in 0..MaxFaults
    BY <1>2, <2>1, BoundsAreNatural DEF CountTyped
  <2>3. CountTyped' /\ count'.changes = count.changes /\ count'.sessions = count.sessions
    BY <1>2, <2>1, <2>2 DEF CountTyped
  <2>4. QED
    BY <2>3, TypedParts DEF RoomInv
<1>3. QED
  BY <1>1, <1>2

LEMMA DetachedParts == CcTyped(Detached) /\ SyncTyped(NoHandshake) /\ SyncTyped(Failed)
BY DetachedTyped, FailedTyped DEF CcTyped, SyncTyped, Detached, NoHandshake

LEMMA SameViewTyped ==
    ASSUME NEW c, NEW d, CcTyped(c), d \in Controllers, d.task \in {0, c.tok}, SameView(c, d)
    PROVE  CcTyped(d)
BY DEF CcTyped, SameView

LEMMA InitTyped == Init => Typed
<1> SUFFICES ASSUME Init PROVE Typed
  OBVIOUS
<1>1. CcTyped(cc) /\ SyncTyped(sync) /\ ops \subseteq Ops
  BY DetachedParts DEF Init
<1>2. net \in [Sessions -> Connections]
  BY NewConnections DEF Init
<1>3. store \in Snapshots /\ RoomInv
  BY BoundsAreNatural DEF Init, Snapshots, Trusts, Rooms, RoomInv
<1>4. CountTyped
  BY BoundsAreNatural DEF Init, CountTyped
<1>5. QED
  BY <1>1, <1>2, <1>3, <1>4, TypedParts

LEMMA OpTyped ==
    ASSUME Typed, NEW op \in ops
    PROVE  op \in Ops /\ op.s \in Sessions /\ op.s \in 1..MaxSessions
BY TypedParts, OpKinds DEF Sessions

LEMMA SnapTyped ==
    ASSUME NEW op \in Ops, op.k \in {"connect", "refresh"}
    PROVE  op.snap \in Snapshots \cup {NoSnapshot} /\ op.snap.trust \in Trusts /\ op.snap.rdv \in 0..(MaxChanges + 1)
<1>1. op.snap \in Snapshots \cup {NoSnapshot}
  BY OpKinds DEF Connects, Refreshes
<1>2. QED
  BY <1>1, Zeros, BoundsAreNatural DEF Snapshots, NoSnapshot, Rooms, Trusts

LEMMA TypingSessions ==
    ASSUME Typed, Connect \/ Disconnect \/ \E op \in ops : Closed(op)
    PROVE  Typed'
<1>1. CcTyped(cc) /\ SyncTyped(sync) /\ ops \subseteq Ops /\ net \in [Sessions -> Connections] /\ CountTyped
  BY TypedParts
<1>2. cc.res \in 0..MaxSessions
  BY <1>1 DEF CcTyped, Controllers
<1>3. CASE Connect
  <2> DEFINE new == [k |-> "connect", s |-> count.sessions + 1, at |-> "closing", old |-> cc.res, snap |-> NoSnapshot]
  <2>1. count.sessions + 1 \in Sessions
    BY <1>1, <1>3, BoundsAreNatural DEF Connect, CountTyped, Sessions
  <2>2. new \in Connects
    BY <1>2, <2>1 DEF Connects
  <2>3. ops' \subseteq Ops
    BY <1>1, <1>3, <2>2 DEF Connect, Ops
  <2>4. CountTyped' /\ count'.changes = count.changes
    BY <1>1, <1>3, <2>1 DEF Connect, CountTyped, Sessions
  <2>5. RoomInv' /\ store' \in Snapshots
    BY <1>3, <2>4, TypedParts DEF Connect, RoomInv
  <2>6. QED
    BY <1>1, <1>3, <2>3, <2>4, <2>5, DetachedParts, TypedPartsNext DEF Connect
<1>4. CASE Disconnect
  <2>1. ops' \subseteq Ops
    BY <1>1, <1>2, <1>4, CloseTyped DEF Disconnect, Ops
  <2>2. QED
    BY <1>1, <1>4, <2>1, DetachedParts, SameStore, TypedPartsNext DEF Disconnect
<1>5. ASSUME NEW op \in ops, Closed(op) PROVE Typed'
  <2>1. net' \in [Sessions -> Connections]
    BY <1>1, <1>5, NewConnections DEF Closed
  <2>2. ops' \subseteq Ops /\ CcTyped(cc') /\ SyncTyped(sync')
    BY <1>1, <1>5 DEF Closed
  <2>3. QED
    BY <1>5, <2>1, <2>2, SameStore, TypedPartsNext DEF Closed
<1>6. QED
  BY <1>3, <1>4, <1>5

LEMMA TypingConnects ==
    ASSUME Typed, ConnectInv, NEW op \in ops,
           \/ ConnectCloses(op) \/ ConnectInfers(op) \/ ConnectCreates(op) \/ ConnectBinds(op)
           \/ ConnectReturns(op)
    PROVE  Typed'
<1>1. CcTyped(cc) /\ SyncTyped(sync) /\ ops \subseteq Ops /\ net \in [Sessions -> Connections] /\ store \in Snapshots
  BY TypedParts
<1>2. op \in Connects /\ op \in Ops /\ op.k = "connect" /\ op.s \in Sessions /\ op.s \in 0..MaxSessions
  BY OpTyped, OpKinds DEF ConnectCloses, ConnectInfers, ConnectCreates, ConnectBinds, ConnectReturns
<1>3. cc \in Controllers
  BY <1>1 DEF CcTyped
<1>4. ASSUME Aborted(op) PROVE Typed'
  <2>1. ops' \subseteq Ops
    BY <1>1, <1>2, <1>4, ReleasedTyped DEF Aborted, Ops
  <2>2. QED
    BY <1>1, <1>4, <2>1, SameStore, TypedPartsNext DEF Aborted
<1>5. ASSUME UNCHANGED <<sync, store, count>>, CcTyped(cc'), net' \in [Sessions -> Connections],
             NEW o \in Connects, ops' = (ops \ {op}) \cup {o}
      PROVE  Typed'
  <2>1. ops' \subseteq Ops
    BY <1>1, <1>5 DEF Ops
  <2>2. QED
    BY <1>1, <1>5, <2>1, SameStore, TypedPartsNext
<1>6. CASE ConnectCloses(op)
  <2> DEFINE o == [op EXCEPT !.at = "infer", !.old = 0]
  <2>1. o \in Connects
    BY <1>2, ConnectMoves
  <2>2. cc.tok = 0
    BY <1>6 DEF ConnectCloses, ConnectInv
  <2>3. CcTyped(cc')
    BY <1>1, <1>2, <1>3, <1>6, <2>2 DEF ConnectCloses, CcTyped, Controllers
  <2>4. net' \in [Sessions -> Connections]
    BY <1>1, <1>6, NewConnections DEF ConnectCloses
  <2>5. QED
    BY <1>5, <1>6, <2>1, <2>3, <2>4 DEF ConnectCloses
<1>7. CASE ConnectInfers(op)
  <2> SUFFICES ASSUME ~Aborted(op) PROVE Typed'
    BY <1>4
  <2> DEFINE o == [op EXCEPT !.at = "network", !.snap = store]
  <2>1. o \in Connects
    BY <1>1, <1>2, ConnectMoves
  <2>2. store.trust \in Trusts /\ store.rdv \in 0..(MaxChanges + 1)
    BY <1>1, BoundsAreNatural DEF Snapshots, Rooms
  <2>3. CcTyped(Configured(cc, store))
    BY <1>1, <1>3, <2>2 DEF Configured, CcTyped, Controllers
  <2>4. QED
    BY <1>1, <1>5, <1>7, <2>1, <2>3 DEF ConnectInfers
<1>8. CASE ConnectCreates(op)
  <2> SUFFICES ASSUME ~Aborted(op) PROVE Typed'
    BY <1>4
  <2> DEFINE o == [op EXCEPT !.at = "attach"]
  <2>1. o \in Connects
    BY <1>2, ConnectMoves
  <2>2. CcTyped(cc')
    BY <1>1, <1>2, <1>3, <1>8 DEF ConnectCreates, CcTyped, Controllers
  <2>3. net' \in [Sessions -> Connections]
    BY <1>1, <1>2, <1>8 DEF ConnectCreates, Connections
  <2>4. QED
    BY <1>5, <1>8, <2>1, <2>2, <2>3 DEF ConnectCreates
<1>9. CASE ConnectBinds(op)
  <2> SUFFICES ASSUME ~Aborted(op) PROVE Typed'
    BY <1>4
  <2> DEFINE o == [op EXCEPT !.at = "join"]
  <2>1. o \in Connects
    BY <1>2, ConnectMoves
  <2>2. CcTyped(cc')
    BY <1>1, <1>2, <1>3, <1>9 DEF ConnectBinds, CcTyped, Controllers
  <2>3. op.snap.rdv \in 0..(MaxChanges + 1)
    BY <1>2, SnapTyped
  <2>4. net' \in [Sessions -> Connections]
    BY <1>1, <1>2, <1>9, <2>3 DEF ConnectBinds, Connections
  <2>5. QED
    BY <1>5, <1>9, <2>1, <2>2, <2>4 DEF ConnectBinds
<1>10. CASE ConnectReturns(op)
  BY <1>1, <1>10, SameStore, TypedPartsNext DEF ConnectReturns
<1>11. QED
  BY <1>6, <1>7, <1>8, <1>9, <1>10

LEMMA TypingJoins ==
    ASSUME Typed, NEW op \in ops, NEW ok \in BOOLEAN, ConnectJoins(op, ok)
    PROVE  Typed'
<1>1. CcTyped(cc) /\ SyncTyped(sync) /\ ops \subseteq Ops /\ net \in [Sessions -> Connections]
  BY TypedParts
<1>2. op \in Connects /\ op.s \in Sessions /\ op.s \in 0..MaxSessions /\ cc \in Controllers /\ cc.task \in {0, cc.tok}
  BY <1>1, OpTyped, OpKinds DEF ConnectJoins, CcTyped
<1>3. store' \in Snapshots /\ CountTyped' /\ RoomInv'
  BY FaultCounted DEF ConnectJoins
<1>4. net' \in [Sessions -> Connections]
  BY <1>1, <1>2 DEF ConnectJoins, Connections
<1>5. CASE cc.tok = op.s /\ ok
  <2> DEFINE o == [op EXCEPT !.at = "refresh", !.snap = NoSnapshot]
  <2>1. o \in Connects
    BY <1>2, ConnectMoves
  <2>2. ops' \subseteq Ops
    BY <1>1, <1>2, <1>5, <2>1, StartedTyped DEF ConnectJoins, Ops
  <2>3. CcTyped(cc')
    <3>1. cc' = Asked(cc, FALSE)
      BY <1>5 DEF ConnectJoins
    <3>2. Asked(cc, FALSE) \in Controllers /\ Asked(cc, FALSE).task \in {0, cc.tok} /\ SameView(cc, Asked(cc, FALSE))
      BY <1>2, AskedTyped
    <3>3. QED
      BY <1>1, <3>1, <3>2, SameViewTyped
  <2>4. QED
    BY <1>1, <1>3, <1>4, <1>5, <2>2, <2>3, TypedPartsNext DEF ConnectJoins
<1>6. CASE cc.tok = op.s /\ ~ok
  <2>1. ops' \subseteq Ops
    BY <1>1, <1>2, <1>6, CloseTyped DEF ConnectJoins, Ops
  <2>2. QED
    BY <1>3, <1>4, <1>6, <2>1, DetachedParts, TypedPartsNext DEF ConnectJoins
<1>7. CASE cc.tok # op.s
  <2>1. ops' \subseteq Ops
    BY <1>1, <1>2, <1>7, ReleasedTyped DEF ConnectJoins, Ops
  <2>2. QED
    BY <1>1, <1>3, <1>4, <1>7, <2>1, TypedPartsNext DEF ConnectJoins
<1>8. QED
  BY <1>5, <1>6, <1>7

LEMMA TypingLinks ==
    ASSUME Typed, NEW s \in Sessions, LinkOpens(s) \/ LinkCloses(s)
    PROVE  Typed'
<1>1. CcTyped(cc) /\ SyncTyped(sync) /\ ops \subseteq Ops /\ net \in [Sessions -> Connections] /\ CountTyped
  BY TypedParts
<1>2. cc \in Controllers
  BY <1>1 DEF CcTyped
<1>3. CASE LinkOpens(s)
  <2>1. count.links + 1 \in 0..MaxLinks
    BY <1>1, <1>3, BoundsAreNatural DEF LinkOpens, CountTyped
  <2>2. CountTyped' /\ count'.changes = count.changes
    BY <1>1, <1>3, <2>1 DEF LinkOpens, CountTyped
  <2>3. net' \in [Sessions -> Connections]
    <3> DEFINE n == [net[s] EXCEPT !.chan = "open", !.link = count.links + 1]
    <3>1. n \in Connections
      <4>1. net[s] \in Connections
        BY <1>1
      <4>2. QED
        BY <2>1, <4>1 DEF Connections
    <3>2. net' = [net EXCEPT ![s] = n]
      BY <1>1, <1>3 DEF LinkOpens
    <3> HIDE DEF n
    <3>3. QED
      BY <1>1, <3>1, <3>2
  <2>4. store' \in Snapshots /\ RoomInv'
    BY <1>3, <2>2, TypedParts DEF LinkOpens, RoomInv
  <2>5. CcTyped(cc') /\ SyncTyped(sync')
    <3>1. CASE ~Live(s)
      BY <1>1, <1>3, <3>1 DEF LinkOpens
    <3>2. CASE Live(s)
      <4> DEFINE c == [cc EXCEPT !.data = TRUE]
                 y == [sync EXCEPT !.failed = FALSE]
      <4>1. CcTyped(c) /\ c \in Controllers
        BY <1>1, <1>2 DEF CcTyped, Controllers
      <4>2. y \in Handshakes /\ ~y.failed
        BY <1>1 DEF SyncTyped, Handshakes
      <4>3. cc' = c /\ sync' = Begin(c, y, count.links + 1)
        BY <1>3, <3>2 DEF LinkOpens
      <4> HIDE DEF c, y
      <4>4. SyncTyped(Begin(c, y, count.links + 1))
        BY <2>1, <4>1, <4>2, BeginTyped DEF SyncTyped
      <4>5. QED
        BY <4>1, <4>3, <4>4
    <3>3. QED
      BY <3>1, <3>2
  <2>6. QED
    BY <1>1, <1>3, <2>2, <2>3, <2>4, <2>5, TypedPartsNext DEF LinkOpens
<1>4. CASE LinkCloses(s)
  <2>1. net' \in [Sessions -> Connections]
    BY <1>1, <1>4 DEF LinkCloses, Connections
  <2>2. CcTyped(ForgetPeer(cc))
    BY <1>1, <1>2, ForgetTyped DEF CcTyped
  <2>3. QED
    BY <1>1, <1>4, <2>1, <2>2, DetachedParts, SameStore, TypedPartsNext DEF LinkCloses
<1>5. QED
  BY <1>3, <1>4

LEMMA TypingHandshake ==
    ASSUME Typed, TracksChannel,
           \/ ChallengeArrives \/ TimerFires \/ DeadlinePasses
           \/ \E good \in BOOLEAN : ProofArrives(good)
           \/ \E op \in ops : Verified(op)
    PROVE  Typed'
<1>1. CcTyped(cc) /\ SyncTyped(sync) /\ ops \subseteq Ops /\ net \in [Sessions -> Connections] /\ CountTyped
  BY TypedParts
<1>2. cc \in Controllers /\ sync \in Handshakes
  BY <1>1 DEF CcTyped, SyncTyped
<1>3. cc.data => net[cc.res].link \in 0..MaxLinks
  <2>1. cc.data => cc.res \in Sessions
    BY <1>2 DEF TracksChannel, Channel, Controllers, Sessions
  <2>2. QED
    BY <1>1, <2>1 DEF Connections
<1>4. CASE ChallengeArrives
  <2>1. SyncTyped(Begin(cc, sync, net[cc.res].link))
    BY <1>1, <1>2, <1>3, <1>4, BeginTyped DEF ChallengeArrives, SyncTyped
  <2>2. QED
    BY <1>1, <1>4, <2>1, SameStore, TypedPartsNext DEF ChallengeArrives
<1>5. CASE TimerFires
  <2> DEFINE y == [sync EXCEPT !.timer = FALSE]
  <2>1. y \in Handshakes /\ ~y.failed /\ SyncTyped(y)
    BY <1>1, <1>2, <1>5 DEF TimerFires, SyncTyped, Handshakes
  <2>2. sync' = IF ~cc.data \/ cc.open THEN y ELSE IF y.since = "late" THEN Failed ELSE Begin(cc, y, net[cc.res].link)
    BY <1>5 DEF TimerFires
  <2> HIDE DEF y
  <2>3. cc.data => SyncTyped(Begin(cc, y, net[cc.res].link))
    BY <1>2, <1>3, <2>1, BeginTyped DEF SyncTyped
  <2>4. SyncTyped(sync')
    BY <2>1, <2>2, <2>3, DetachedParts
  <2>5. QED
    BY <1>1, <1>5, <2>4, SameStore, TypedPartsNext DEF TimerFires
<1>6. CASE DeadlinePasses
  <2>1. SyncTyped(sync')
    BY <1>1, <1>2, <1>6 DEF DeadlinePasses, SyncTyped, Handshakes
  <2>2. QED
    BY <1>1, <1>6, <2>1, SameStore, TypedPartsNext DEF DeadlinePasses
<1>7. ASSUME NEW good \in BOOLEAN, ProofArrives(good) PROVE Typed'
  <2>1. store' \in Snapshots /\ CountTyped' /\ RoomInv'
    BY <1>7, FaultCounted DEF ProofArrives
  <2> DEFINE o == [k |-> "verify", s |-> cc.tok, nonce |-> sync.nonce, good |-> good]
  <2>2. cc.tok \in Sessions /\ sync.nonce \in 1..MaxLinks
    BY <1>2, <1>7 DEF ProofArrives, Channel, Controllers, Handshakes, Sessions
  <2>3. o \in Verifications
    BY <2>2 DEF Verifications
  <2>4. ops' \subseteq Ops
    BY <1>1, <1>7, <2>3 DEF ProofArrives, Ops
  <2>5. QED
    BY <1>1, <1>7, <2>1, <2>4, TypedPartsNext DEF ProofArrives
<1>8. ASSUME NEW op \in ops, Verified(op) PROVE Typed'
  <2>1. op.nonce \in 0..MaxLinks
    BY <1>8, OpTyped, OpKinds DEF Verified, Verifications
  <2>2. CcTyped(MarkRevokedReady(cc)) /\ CcTyped(MarkReady(cc, op.nonce))
    BY <1>1, <1>2, <2>1, RevokedTyped, ReadyTyped DEF CcTyped
  <2>3. CcTyped(cc') /\ SyncTyped(sync')
    BY <1>1, <1>8, <2>2, DetachedParts DEF Verified
  <2>4. QED
    BY <1>1, <1>8, <2>3, SameStore, TypedPartsNext DEF Verified
<1>9. QED
  BY <1>4, <1>5, <1>6, <1>7, <1>8

\* Asking for a refresh and starting its task.
LEMMA AskedOps ==
    ASSUME Typed, NEW b \in BOOLEAN
    PROVE  CcTyped(Asked(cc, b)) /\ ops \cup Started(cc) \subseteq Ops
<1>1. CcTyped(cc) /\ ops \subseteq Ops
  BY TypedParts
<1>2. cc \in Controllers /\ cc.task \in {0, cc.tok}
  BY <1>1 DEF CcTyped
<1>3. Asked(cc, b) \in Controllers /\ Asked(cc, b).task \in {0, cc.tok} /\ SameView(cc, Asked(cc, b))
  BY <1>2, AskedTyped
<1>4. CcTyped(Asked(cc, b))
  BY <1>1, <1>3, SameViewTyped
<1>5. QED
  BY <1>1, <1>2, <1>4, StartedTyped DEF Ops

LEMMA TypingSignals ==
    ASSUME Typed, NEW s \in Sessions,
           PeerAppears(s) \/ PeerDisappears(s) \/ OfferArrives(s) \/ ProviderReconnects(s)
    PROVE  Typed'
<1>1. CcTyped(cc) /\ SyncTyped(sync) /\ ops \subseteq Ops /\ net \in [Sessions -> Connections] /\ cc \in Controllers
  BY TypedParts DEF CcTyped
<1>2. net[s] \in Connections
  BY <1>1
<1>3. CASE PeerAppears(s)
  <2> DEFINE n == [net[s] EXCEPT !.sees = TRUE]
             m == IF Allowed(cc) THEN Trying(n) ELSE n
  <2>1. n \in Connections
    BY <1>2 DEF Connections
  <2>2. net' = [net EXCEPT ![s] = m]
    BY <1>3 DEF PeerAppears
  <2>3. m \in Connections
    BY <2>1, TryingTyped
  <2> HIDE DEF n, m
  <2>4. net' \in [Sessions -> Connections]
    BY <1>1, <2>2, <2>3
  <2>5. CcTyped(cc') /\ ops' \subseteq Ops
    BY <1>1, <1>3, AskedOps DEF PeerAppears
  <2>6. QED
    BY <1>1, <1>3, <2>4, <2>5, SameStore, TypedPartsNext DEF PeerAppears
<1>4. CASE PeerDisappears(s)
  <2>1. LeftPeer(cc, net[s]) \in Connections
    BY <1>1, <1>2, LeftTyped
  <2>2. [LeftPeer(cc, net[s]) EXCEPT !.sees = FALSE] \in Connections
    BY <2>1 DEF Connections
  <2>3. net' \in [Sessions -> Connections]
    BY <1>1, <1>4, <2>2 DEF PeerDisappears
  <2>4. CcTyped(ForgetPeer(cc))
    BY <1>1, ForgetTyped DEF CcTyped
  <2>5. QED
    BY <1>1, <1>4, <2>3, <2>4, DetachedParts, SameStore, TypedPartsNext DEF PeerDisappears
<1>5. CASE OfferArrives(s)
  <2>1. net' \in [Sessions -> Connections]
    BY <1>1, <1>2, <1>5, TryingTyped DEF OfferArrives
  <2>2. QED
    BY <1>1, <1>5, <2>1, SameStore, TypedPartsNext DEF OfferArrives
<1>6. CASE ProviderReconnects(s)
  BY <1>1, <1>6, AskedOps, SameStore, TypedPartsNext DEF ProviderReconnects
<1>7. QED
  BY <1>3, <1>4, <1>5, <1>6

\* What storage may become.
LEMMA LaterTyped ==
    ASSUME Typed, count.changes < MaxChanges, NEW g \in Later(store)
    PROVE  g \in Snapshots /\ g.rdv <= store.rdv + 1
<1>1. store \in Snapshots /\ CountTyped /\ RoomInv
  BY TypedParts
<1>2. store.rdv + 1 \in Rooms /\ store.rdv \in Rooms /\ store.rdv \in Nat
  BY <1>1, BoundsAreNatural DEF Snapshots, Rooms, RoomInv, CountTyped
<1>3. CASE g = [store EXCEPT !.rdv = @ + 1]
  BY <1>1, <1>2, <1>3 DEF Snapshots
<1>4. CASE g = [store EXCEPT !.trust = "member"]
  BY <1>1, <1>2, <1>4 DEF Snapshots, Trusts
<1>5. CASE g = [trust |-> "revoked", rdv |-> store.rdv + 1]
  BY <1>1, <1>2, <1>5 DEF Snapshots, Trusts
<1>6. QED
  BY <1>3, <1>4, <1>5 DEF Later

LEMMA TypingStore ==
    ASSUME Typed, NEW g \in Later(store), NEW arrived \in BOOLEAN, StoreChanges(g, arrived)
    PROVE  Typed'
<1>1. CcTyped(cc) /\ SyncTyped(sync) /\ ops \subseteq Ops /\ net \in [Sessions -> Connections] /\ cc \in Controllers
      /\ CountTyped /\ store \in Snapshots /\ RoomInv
  BY TypedParts DEF CcTyped
<1>2. g \in Snapshots /\ g.rdv <= store.rdv + 1 /\ g.trust \in Trusts
  BY LaterTyped DEF StoreChanges, Snapshots
<1>3. CountTyped' /\ store' \in Snapshots /\ RoomInv'
  <2>1. count.changes + 1 \in 0..MaxChanges
    BY <1>1, BoundsAreNatural DEF StoreChanges, CountTyped
  <2>2. CountTyped' /\ count'.changes = count.changes + 1
    BY <1>1, <2>1 DEF StoreChanges, CountTyped
  <2>3. store' = g
    BY DEF StoreChanges
  <2>4. g.rdv <= count.changes + 1 + 1
    BY <1>1, <1>2, <2>1, BoundsAreNatural DEF RoomInv, Snapshots, Rooms
  <2>5. QED
    BY <1>2, <2>2, <2>3, <2>4 DEF RoomInv
<1> DEFINE heard == IF cc.bound = 0 THEN cc ELSE Asked(cc, TRUE)
           c == IF arrived THEN Install(heard, g.trust) ELSE heard
<1>4. CcTyped(heard) /\ heard \in Controllers
  BY <1>1, AskedOps DEF CcTyped
<1>5. cc' = c /\ sync' = SyncAfter(cc, c, sync)
  BY DEF StoreChanges
<1> HIDE DEF heard
<1>6. CcTyped(Install(heard, g.trust))
  BY <1>2, <1>4, InstallTyped DEF CcTyped
<1>7. CcTyped(c) /\ c \in Controllers
  BY <1>4, <1>6 DEF CcTyped
<1>8. SyncTyped(SyncAfter(cc, c, sync))
  BY <1>1, <1>7, SyncAfterTyped DEF SyncTyped
<1>9. ops' \subseteq Ops
  BY <1>1, AskedOps DEF StoreChanges
<1>10. net' \in [Sessions -> Connections]
  <2>1. CASE ~arrived
    BY <1>1, <2>1 DEF StoreChanges
  <2>2. CASE arrived
    <3> DEFINE n == IF g.trust = "unknown" THEN Unlinked(net[cc.res]) ELSE net[cc.res]
    <3>1. cc.res \in Sessions
      BY <1>1, <2>2 DEF StoreChanges, Channel, Controllers, Sessions
    <3>2. n \in Connections
      BY <1>1, <3>1, UnlinkedTyped
    <3>3. net' = [net EXCEPT ![cc.res] = ConnectPresent(c, n)]
      BY <2>2, <1>5 DEF StoreChanges, heard
    <3> HIDE DEF n, c
    <3>4. ConnectPresent(c, n) \in Connections
      BY <1>7, <3>2, PresentTyped
    <3>5. QED
      BY <1>1, <3>1, <3>3, <3>4
  <2>3. QED
    BY <2>1, <2>2
<1> HIDE DEF c
<1>11. QED
  BY <1>3, <1>5, <1>7, <1>8, <1>9, <1>10, TypedPartsNext

LEMMA TypingRefreshes ==
    ASSUME Typed, NEW op \in ops, RefreshReads(op) \/ RefreshInstalls(op) \/ RefreshMoves(op)
    PROVE  Typed'
<1>1. CcTyped(cc) /\ SyncTyped(sync) /\ ops \subseteq Ops /\ net \in [Sessions -> Connections] /\ cc \in Controllers
      /\ store \in Snapshots
  BY TypedParts DEF CcTyped
<1>2. op \in Refreshes /\ op \in Ops /\ op.k = "refresh" /\ op.s \in Sessions /\ cc.task \in {0, cc.tok}
  BY <1>1, OpTyped, OpKinds DEF RefreshReads, RefreshInstalls, RefreshMoves, CcTyped
<1>3. op.snap.trust \in Trusts /\ op.snap.rdv \in 0..(MaxChanges + 1) /\ net[op.s] \in Connections
  BY <1>1, <1>2, SnapTyped
<1>4. ASSUME UNCHANGED <<store, count>>, CcTyped(cc'), SyncTyped(sync'), net' \in [Sessions -> Connections],
             NEW o \in Refreshes, ops' = (ops \ {op}) \cup {o}
      PROVE  Typed'
  <2>1. ops' \subseteq Ops
    BY <1>1, <1>4 DEF Ops
  <2>2. QED
    BY <1>4, <2>1, SameStore, TypedPartsNext
<1>5. ASSUME RefreshReturns(op) PROVE Typed'
  <2>1. EndedTask(cc, op) \in Controllers /\ EndedTask(cc, op).task \in {0, cc.tok} /\ SameView(cc, EndedTask(cc, op))
    BY <1>1, <1>2, EndedTyped
  <2>2. CcTyped(EndedTask(cc, op))
    BY <1>1, <2>1, SameViewTyped
  <2>3. ops' \subseteq Ops
    BY <1>1, <1>5 DEF RefreshReturns
  <2>4. QED
    BY <1>1, <1>5, <2>2, <2>3, SameStore, TypedPartsNext DEF RefreshReturns
<1>6. CASE RefreshReads(op)
  <2> DEFINE o == [op EXCEPT !.at = "install", !.snap = store]
  <2>1. o \in Refreshes
    BY <1>1, <1>2, RefreshMovesOn
  <2>2. QED
    BY <1>1, <1>4, <1>6, <2>1 DEF RefreshReads
<1>7. CASE RefreshInstalls(op)
  <2> SUFFICES ASSUME ~RefreshReturns(op) PROVE Typed'
    BY <1>5
  <2> DEFINE o == [op EXCEPT !.at = "send"]
             c == Install(cc, op.snap.trust)
             n == IF cc.data /\ op.snap.trust = "unknown" THEN Unlinked(net[op.s]) ELSE net[op.s]
  <2>1. o \in Refreshes
    BY <1>2, RefreshMovesOn
  <2>2. CcTyped(c) /\ c \in Controllers
    BY <1>1, <1>3, InstallTyped DEF CcTyped
  <2>3. n \in Connections
    BY <1>3, UnlinkedTyped
  <2>4. /\ cc' = c /\ sync' = SyncAfter(cc, c, sync)
        /\ net' = IF cc.res = 0 THEN net ELSE [net EXCEPT ![op.s] = ConnectPresent(c, n)]
        /\ ops' = (ops \ {op}) \cup {o} /\ UNCHANGED <<store, count>>
    BY <1>7 DEF RefreshInstalls
  <2> HIDE DEF c, n, o
  <2>5. SyncTyped(SyncAfter(cc, c, sync))
    BY <1>1, <2>2, SyncAfterTyped DEF SyncTyped
  <2>6. net' \in [Sessions -> Connections]
    BY <1>1, <1>2, <2>2, <2>3, <2>4, PresentTyped
  <2>7. QED
    BY <1>4, <2>1, <2>2, <2>4, <2>5, <2>6
<1>8. CASE RefreshMoves(op)
  <2> SUFFICES ASSUME ~RefreshReturns(op) PROVE Typed'
    BY <1>5
  <2>1. CASE op.snap.rdv = cc.rdv
    <3>1. IterationEnds(cc, op, ops \ {op}) /\ UNCHANGED <<sync, net, store, count>>
      BY <1>8, <2>1 DEF RefreshMoves
    <3>2. /\ cc' \in Controllers /\ cc'.task \in {0, cc'.tok} /\ SameView(cc, cc')
          /\ \A o \in ops' : o \in ops \/ o \in Refreshes
      BY <1>1, <1>2, <3>1, IterationTyped
    <3>3. CcTyped(cc')
      BY <1>1, <3>2 DEF CcTyped, SameView
    <3>4. ops' \subseteq Ops
      BY <1>1, <3>2 DEF Ops
    <3>5. QED
      BY <1>1, <3>1, <3>3, <3>4, SameStore, TypedPartsNext
  <2>2. CASE op.snap.rdv # cc.rdv
    <3> DEFINE o == [op EXCEPT !.at = "rejoin", !.snap = NoSnapshot]
               left == net[op.s].sees /\ Allowed(cc)
               c == IF left THEN ForgetPeer(cc) ELSE cc
               n == LeftPeer(cc, net[op.s])
               m == [n EXCEPT !.sig = "joining", !.room = op.snap.rdv, !.sees = FALSE]
    <3>1. o \in Refreshes
      BY <1>2, RefreshMovesOn
    <3>2. CcTyped(c) /\ c \in Controllers
      BY <1>1, ForgetTyped DEF CcTyped
    <3>3. n \in Connections
      BY <1>1, <1>3, LeftTyped
    <3>4. /\ cc' = [c EXCEPT !.rdv = op.snap.rdv] /\ sync' = IF left THEN NoHandshake ELSE sync
          /\ net' = [net EXCEPT ![op.s] = m]
          /\ ops' = (ops \ {op}) \cup {o} /\ UNCHANGED <<store, count>>
      BY <1>8, <2>2 DEF RefreshMoves
    <3> HIDE DEF c, n, o
    <3>5. CcTyped(cc')
      BY <1>3, <3>2, <3>4 DEF CcTyped, Controllers
    <3>6. m \in Connections
      BY <1>3, <3>3 DEF Connections
    <3>7. net' \in [Sessions -> Connections] /\ SyncTyped(sync')
      BY <1>1, <3>4, <3>6, DetachedParts
    <3>8. QED
      BY <1>4, <3>1, <3>4, <3>5, <3>7
  <2>3. QED
    BY <2>1, <2>2
<1>9. QED
  BY <1>6, <1>7, <1>8

LEMMA TypingRejoins ==
    ASSUME Typed, NEW op \in ops, NEW ok \in BOOLEAN, RefreshJoins(op, ok)
    PROVE  Typed'
<1>1. CcTyped(cc) /\ SyncTyped(sync) /\ ops \subseteq Ops /\ net \in [Sessions -> Connections] /\ cc \in Controllers
  BY TypedParts DEF CcTyped
<1>2. op \in Refreshes /\ op.s \in Sessions /\ cc.task \in {0, cc.tok} /\ cc.res \in 0..MaxSessions
  BY <1>1, OpTyped, OpKinds DEF RefreshJoins, CcTyped, Controllers
<1>3. store' \in Snapshots /\ CountTyped' /\ RoomInv'
  BY FaultCounted DEF RefreshJoins
<1>4. net' \in [Sessions -> Connections]
  BY <1>1, <1>2 DEF RefreshJoins, Connections
<1> DEFINE waiting == {o \in ops : o.k = "connect" /\ o.s = op.s}
<1>5. CASE cc.tok = op.s /\ ok
  <2>1. IterationEnds(cc, op, ops \ {op}) /\ UNCHANGED sync
    BY <1>5 DEF RefreshJoins
  <2>2. /\ cc' \in Controllers /\ cc'.task \in {0, cc'.tok} /\ SameView(cc, cc')
        /\ \A o \in ops' : o \in ops \/ o \in Refreshes
    BY <1>1, <1>2, <2>1, IterationTyped
  <2>3. CcTyped(cc') /\ ops' \subseteq Ops
    BY <1>1, <2>2 DEF CcTyped, SameView, Ops
  <2>4. QED
    BY <1>1, <1>3, <1>4, <2>1, <2>3, TypedPartsNext
<1>6. CASE ~(cc.tok = op.s /\ ok) /\ cc.tok = op.s /\ waiting # {}
  <2>1. cc' = Detached /\ sync' = NoHandshake /\ ops' = (ops \ ({op} \cup waiting)) \cup Close(cc.res)
    BY <1>6 DEF RefreshJoins
  <2>2. ops' \subseteq Ops
    BY <1>1, <1>2, <2>1, CloseTyped DEF Ops
  <2>3. QED
    BY <1>3, <1>4, <2>1, <2>2, DetachedParts, TypedPartsNext
<1>7. CASE ~(cc.tok = op.s /\ ok) /\ ~(cc.tok = op.s /\ waiting # {})
  <2>1. cc' = EndedTask(cc, op) /\ ops' = ops \ {op} /\ UNCHANGED sync
    BY <1>7 DEF RefreshJoins
  <2>2. EndedTask(cc, op) \in Controllers /\ EndedTask(cc, op).task \in {0, cc.tok} /\ SameView(cc, EndedTask(cc, op))
    BY <1>1, <1>2, EndedTyped
  <2>3. CcTyped(cc') /\ ops' \subseteq Ops
    BY <1>1, <2>1, <2>2, SameViewTyped
  <2>4. QED
    BY <1>1, <1>3, <1>4, <2>1, <2>3, TypedPartsNext
<1>8. QED
  BY <1>5, <1>6, <1>7

----------------------------------------------------------------------------
(* The peer: the controller follows the channel of its session, a peer is  *)
(* open by a proof that was asked for on that channel, and only a member.  *)

PeerInv == TracksChannel /\ OpenIsProven /\ RevokedNeverOpen /\ ChallengeInv

LEMMA PeerRules ==
    PeerInv <=> /\ cc.data <=> Channel
                /\ cc.open => Channel /\ cc.by = net[cc.res].link /\ cc.view = "member"
                /\ sync.nonce # 0 => cc.data /\ Allowed(cc) /\ sync.nonce = net[cc.res].link
BY DEF PeerInv, TracksChannel, OpenIsProven, RevokedNeverOpen, ChallengeInv

LEMMA PeerRulesNext ==
    ASSUME cc'.data <=> Channel',
           cc'.open => Channel' /\ cc'.by = net'[cc'.res].link /\ cc'.view = "member",
           sync'.nonce # 0 => cc'.data /\ cc'.view # "unknown" /\ sync'.nonce = net'[cc'.res].link
    PROVE  PeerInv'
BY DEF PeerInv, TracksChannel, OpenIsProven, RevokedNeverOpen, ChallengeInv, Allowed

SamePeer(c, d) ==
    d.tok = c.tok /\ d.res = c.res /\ d.view = c.view /\ d.data = c.data /\ d.open = c.open /\ d.by = c.by

\* A step that leaves the controller's view of the peer and its channel alone.
LEMMA PeerFrame ==
    ASSUME Typed, PeerInv, SamePeer(cc, cc'), sync'.nonce \in {0, sync.nonce},
           cc.tok # 0 /\ cc.res = cc.tok =>
              /\ net'[cc.res].chan = "open" <=> net[cc.res].chan = "open"
              /\ net[cc.res].chan = "open" => net'[cc.res].link = net[cc.res].link
    PROVE  PeerInv'
<1>1. Channel' <=> Channel
  BY DEF Channel, SamePeer
<1>2. Channel => net'[cc'.res].link = net[cc.res].link
  BY DEF Channel, SamePeer
<1>3. QED
  BY <1>1, <1>2, PeerRules, PeerRulesNext DEF SamePeer, Allowed

\* A step after which the session has no open channel and knows it.
LEMMA PeerDown ==
    ASSUME ~cc'.data, ~cc'.open, sync'.nonce = 0, ~(cc'.tok # 0 /\ cc'.res = cc'.tok /\ net'[cc'.res].chan = "open")
    PROVE  PeerInv'
BY PeerRulesNext DEF Channel

LEMMA SameIsSame ==
    ASSUME NEW c, NEW d, SameView(c, d) PROVE SamePeer(c, d)
BY DEF SameView, SamePeer

LEMMA DetachedIsDown == ~Detached.data /\ ~Detached.open /\ Detached.tok = 0 /\ Detached.res = 0 /\ Detached.bound = 0
                        /\ NoHandshake.nonce = 0 /\ Failed.nonce = 0
BY FailedTyped DEF Detached, NoHandshake

\* Before its session has a transport the controller has no channel.
LEMMA NoTransportNoPeer ==
    ASSUME PeerInv, cc.res = 0
    PROVE  ~cc.data /\ ~cc.open /\ sync.nonce = 0
BY PeerRules DEF Channel

LEMMA PeerSessions ==
    ASSUME Typed, PeerInv, ConnectInv, Connect \/ Disconnect \/ \E op \in ops : Closed(op)
    PROVE  PeerInv'
<1>1. CASE Connect \/ Disconnect
  BY <1>1, DetachedIsDown, PeerDown DEF Connect, Disconnect
<1>2. ASSUME NEW op \in ops, Closed(op) PROVE PeerInv'
  <2>1. op.s # cc.tok
    BY <1>2 DEF Closed, ConnectInv
  <2>2. cc.res # op.s => net'[cc.res] = net[cc.res]
    BY <1>2, TypedParts DEF Closed
  <2>3. QED
    BY <1>2, <2>1, <2>2, PeerFrame DEF Closed, SamePeer
<1>3. QED
  BY <1>1, <1>2

LEMMA PeerConnects ==
    ASSUME Typed, PeerInv, ConnectInv, CreationInv, AttachInv, NEW op \in ops,
           \/ ConnectCloses(op) \/ ConnectInfers(op) \/ ConnectCreates(op) \/ ConnectBinds(op)
           \/ ConnectReturns(op)
    PROVE  PeerInv'
<1>1. CcTyped(cc) /\ net \in [Sessions -> Connections] /\ cc \in Controllers
  BY TypedParts DEF CcTyped
<1>2. op.s \in Sessions /\ op.s # 0
  BY OpTyped
<1>3. ASSUME UNCHANGED <<cc, sync, net>> PROVE PeerInv'
  BY <1>3, PeerFrame DEF SamePeer
<1>4. ASSUME op.k = "connect", op.at \in Early, cc.tok = op.s PROVE cc.res = 0
  BY <1>2, <1>4 DEF CreationInv, AttachInv
<1>5. CASE ConnectCloses(op)
  <2>1. cc.tok = 0 /\ cc.res = 0
    BY <1>1, <1>5 DEF ConnectCloses, ConnectInv, CcTyped
  <2>2. cc' = [cc EXCEPT !.tok = op.s] /\ sync' = sync
    BY <1>5 DEF ConnectCloses
  <2>3. cc'.tok # 0 /\ cc'.res = 0 /\ cc'.data = cc.data /\ cc'.open = cc.open
    BY <1>1, <1>2, <2>1, <2>2 DEF Controllers
  <2>4. QED
    BY <2>1, <2>2, <2>3, NoTransportNoPeer, PeerDown
<1>6. CASE ConnectInfers(op)
  <2>1. CASE Aborted(op)
    BY <1>3, <2>1 DEF Aborted
  <2>2. CASE ~Aborted(op)
    <3>1. cc.tok = op.s /\ cc.res = 0
      BY <1>4, <1>6, <2>2 DEF ConnectInfers, Early
    <3>2. cc' = Configured(cc, store) /\ sync' = sync
      BY <1>6, <2>2 DEF ConnectInfers
    <3>3. cc'.tok # 0 /\ cc'.res = 0 /\ cc'.data = cc.data /\ cc'.open = cc.open
      BY <1>1, <1>2, <3>1, <3>2 DEF Configured, Controllers
    <3>4. QED
      BY <3>1, <3>2, <3>3, NoTransportNoPeer, PeerDown
  <2>3. QED
    BY <2>1, <2>2
<1>7. CASE ConnectCreates(op)
  <2>1. CASE Aborted(op)
    BY <1>3, <2>1 DEF Aborted
  <2>2. CASE ~Aborted(op)
    <3>1. cc.tok = op.s /\ cc.res = 0
      BY <1>4, <1>7, <2>2 DEF ConnectCreates, Early
    <3>2. cc' = [cc EXCEPT !.res = op.s] /\ sync' = sync
          /\ net' = [net EXCEPT ![op.s].sig = "new", ![op.s].chan = "idle"]
      BY <1>7, <2>2 DEF ConnectCreates
    <3>3. cc'.res = op.s /\ cc'.data = cc.data /\ cc'.open = cc.open
      BY <1>1, <1>2, <3>1, <3>2 DEF Controllers
    <3>4. net'[op.s].chan = "idle"
      BY <1>1, <1>2, <3>2 DEF Connections
    <3>5. QED
      BY <3>1, <3>2, <3>3, <3>4, NoTransportNoPeer, PeerDown
  <2>3. QED
    BY <2>1, <2>2
<1>8. CASE ConnectBinds(op)
  <2>1. CASE Aborted(op)
    BY <1>3, <2>1 DEF Aborted
  <2>2. CASE ~Aborted(op)
    <3>1. cc' = [cc EXCEPT !.bound = op.s] /\ sync' = sync
          /\ net' = [net EXCEPT ![op.s].sig = "joining", ![op.s].room = op.snap.rdv]
      BY <1>8, <2>2 DEF ConnectBinds
    <3>2. SamePeer(cc, cc')
      BY <1>1, <3>1 DEF SamePeer, Controllers
    <3>3. \A s \in Sessions : net'[s].chan = net[s].chan /\ net'[s].link = net[s].link
      BY <1>1, <3>1 DEF Connections
    <3>4. cc.tok # 0 => cc.tok \in Sessions
      BY <1>1 DEF Controllers, Sessions
    <3>5. QED
      BY <3>1, <3>2, <3>3, <3>4, PeerFrame
  <2>3. QED
    BY <2>1, <2>2
<1>9. CASE ConnectReturns(op)
  BY <1>3, <1>9 DEF ConnectReturns
<1>10. QED
  BY <1>5, <1>6, <1>7, <1>8, <1>9

LEMMA PeerJoins ==
    ASSUME Typed, PeerInv, NEW op \in ops, NEW ok \in BOOLEAN, ConnectJoins(op, ok)
    PROVE  PeerInv'
<1>1. CcTyped(cc) /\ net \in [Sessions -> Connections] /\ cc \in Controllers /\ cc.task \in {0, cc.tok}
  BY TypedParts DEF CcTyped
<1>2. \A s \in Sessions : net'[s].chan = net[s].chan /\ net'[s].link = net[s].link
  BY <1>1 DEF ConnectJoins, Connections
<1>3. cc.tok # 0 => cc.tok \in Sessions
  BY <1>1 DEF Controllers, Sessions
<1>4. CASE cc.tok = op.s /\ ok
  <2>1. SamePeer(cc, Asked(cc, FALSE))
    BY <1>1, AskedTyped, SameIsSame
  <2>2. cc' = Asked(cc, FALSE) /\ sync' = sync
    BY <1>4 DEF ConnectJoins
  <2>3. QED
    BY <1>2, <1>3, <2>1, <2>2, PeerFrame
<1>5. CASE cc.tok = op.s /\ ~ok
  BY <1>5, DetachedIsDown, PeerDown DEF ConnectJoins
<1>6. CASE cc.tok # op.s
  BY <1>2, <1>3, <1>6, PeerFrame DEF ConnectJoins, SamePeer
<1>7. QED
  BY <1>4, <1>5, <1>6

LEMMA PeerLinks ==
    ASSUME Typed, PeerInv, AttachInv, NEW s \in Sessions, LinkOpens(s) \/ LinkCloses(s)
    PROVE  PeerInv'
<1>1. CcTyped(cc) /\ SyncTyped(sync) /\ net \in [Sessions -> Connections] /\ CountTyped
      /\ cc \in Controllers /\ sync \in Handshakes
  BY TypedParts DEF CcTyped, SyncTyped
<1>2. s # 0
  BY DEF Sessions
<1>3. CASE ~Live(s)
  <2>1. \A r \in Sessions : r # s => net'[r] = net[r]
    BY <1>1, <1>3 DEF LinkOpens, LinkCloses
  <2>2. cc.tok # 0 => cc.tok \in Sessions
    BY <1>1 DEF Controllers, Sessions
  <2>3. cc' = cc /\ sync' = sync
    BY <1>3 DEF LinkOpens, LinkCloses
  <2>4. QED
    BY <1>3, <2>1, <2>2, <2>3, PeerFrame DEF Live, SamePeer
<1>4. CASE LinkOpens(s) /\ Live(s)
  <2> DEFINE c == [cc EXCEPT !.data = TRUE]
             y == [sync EXCEPT !.failed = FALSE]
             link == count.links + 1
  <2>1. cc.tok = s /\ net[s].chan = "trying" /\ cc.res = s
    BY <1>1, <1>2, <1>4 DEF LinkOpens, Live, AttachInv, Made, CcTyped
  <2>2. ~cc.data /\ ~cc.open /\ sync.nonce = 0
    BY <2>1, PeerRules DEF Channel
  <2>3. cc' = c /\ sync' = Begin(c, y, link) /\ net' = [net EXCEPT ![s].chan = "open", ![s].link = link]
    BY <1>4 DEF LinkOpens
  <2>4. c \in Controllers /\ c.tok = s /\ c.res = s /\ c.data /\ ~c.open
    BY <1>1, <2>1, <2>2 DEF Controllers
  <2>5. y \in Handshakes /\ ~y.failed /\ y.nonce = 0
    BY <1>1, <2>2 DEF Handshakes
  <2>6. link \in 0..MaxLinks
    BY <1>1, <1>4, BoundsAreNatural DEF LinkOpens, CountTyped
  <2>7. net'[s].chan = "open" /\ net'[s].link = link
    BY <1>1, <2>3 DEF Connections
  <2> HIDE DEF c, y, link
  <2>8. sync'.nonce # 0 => Allowed(c) /\ sync'.nonce = link
    BY <2>3, <2>4, <2>5, <2>6, BeginTyped
  <2>9. Channel'
    BY <1>2, <2>3, <2>4, <2>7 DEF Channel
  <2>10. QED
    BY <2>3, <2>4, <2>7, <2>8, <2>9, PeerRulesNext DEF Allowed
<1>5. CASE LinkCloses(s) /\ Live(s)
  <2>1. cc' = ForgetPeer(cc) /\ sync' = NoHandshake /\ net' = [net EXCEPT ![s].chan = "idle"] /\ cc.tok = s
    BY <1>5 DEF LinkCloses, Live
  <2>2. ~cc'.data /\ ~cc'.open /\ cc'.tok = s
    BY <1>1, <2>1, ForgetTyped
  <2>3. net'[s].chan = "idle"
    BY <1>1, <2>1 DEF Connections
  <2>4. QED
    BY <2>1, <2>2, <2>3, DetachedIsDown, PeerDown
<1>6. QED
  BY <1>3, <1>4, <1>5

LEMMA PeerHandshake ==
    ASSUME Typed, PeerInv,
           \/ ChallengeArrives \/ TimerFires \/ DeadlinePasses
           \/ \E good \in BOOLEAN : ProofArrives(good)
           \/ \E op \in ops : Verified(op)
    PROVE  PeerInv'
<1>1. CcTyped(cc) /\ SyncTyped(sync) /\ net \in [Sessions -> Connections]
      /\ cc \in Controllers /\ sync \in Handshakes
  BY TypedParts DEF CcTyped, SyncTyped
<1> DEFINE link == net[cc.res].link
<1>2. cc.data => Channel /\ link \in 0..MaxLinks
  <2>1. Channel => cc.res \in Sessions
    BY <1>1 DEF Channel, Controllers, Sessions
  <2>2. QED
    BY <1>1, <2>1, PeerRules DEF Connections
<1> HIDE DEF link
\* A handshake that begins, or begins again.
<1>3. ASSUME UNCHANGED <<cc, net>>, NEW y \in Handshakes, y.failed => ~y.timer /\ y.nonce = 0,
             y.nonce = sync.nonce, cc.data, sync' = Begin(cc, y, link)
      PROVE  PeerInv'
  <2>1. sync'.nonce # 0 => sync'.nonce = sync.nonce \/ (Allowed(cc) /\ sync'.nonce = link)
    BY <1>1, <1>2, <1>3, BeginTyped
  <2>2. Channel' <=> Channel
    BY <1>3 DEF Channel
  <2>3. sync'.nonce # 0 => cc'.data /\ cc'.view # "unknown" /\ sync'.nonce = net'[cc'.res].link
    BY <1>3, <2>1, PeerRules DEF Allowed, link
  <2>4. QED
    BY <1>3, <2>2, <2>3, PeerRules, PeerRulesNext
<1>4. CASE ChallengeArrives
  BY <1>1, <1>3, <1>4 DEF ChallengeArrives, SyncTyped, link
<1>5. CASE TimerFires
  <2> DEFINE y == [sync EXCEPT !.timer = FALSE]
  <2>1. y \in Handshakes /\ ~y.failed /\ y.nonce = sync.nonce
    BY <1>1, <1>5 DEF TimerFires, SyncTyped, Handshakes
  <2>2. sync' = IF ~cc.data \/ cc.open THEN y ELSE IF y.since = "late" THEN Failed ELSE Begin(cc, y, link)
    BY <1>5 DEF TimerFires, link
  <2>3. UNCHANGED <<cc, net>>
    BY <1>5 DEF TimerFires
  <2> HIDE DEF y
  <2>4. CASE ~cc.data \/ cc.open
    BY <2>1, <2>2, <2>3, <2>4, PeerFrame DEF SamePeer
  <2>5. CASE ~(~cc.data \/ cc.open) /\ y.since = "late"
    BY <2>2, <2>3, <2>5, DetachedIsDown, PeerFrame DEF SamePeer
  <2>6. CASE ~(~cc.data \/ cc.open) /\ y.since # "late"
    BY <1>3, <2>1, <2>2, <2>3, <2>6
  <2>7. QED
    BY <2>4, <2>5, <2>6
<1>6. CASE DeadlinePasses
  <2>1. sync'.nonce = sync.nonce
    BY <1>1, <1>6 DEF DeadlinePasses, Handshakes
  <2>2. QED
    BY <1>6, <2>1, PeerFrame DEF DeadlinePasses, SamePeer
<1>7. ASSUME NEW good \in BOOLEAN, ProofArrives(good) PROVE PeerInv'
  BY <1>7, PeerFrame DEF ProofArrives, SamePeer
<1>8. ASSUME NEW op \in ops, Verified(op) PROVE PeerInv'
  <2>0. net' = net
    BY <1>8 DEF Verified
  <2>1. CASE ~StillAsked(op)
    BY <1>8, <2>1, PeerFrame DEF Verified, SamePeer
  <2>2. CASE StillAsked(op) /\ ~op.good
    BY <1>8, <2>2, DetachedIsDown, PeerFrame DEF Verified, SamePeer
  <2>3. CASE StillAsked(op) /\ op.good
    <3>1. op.nonce \in 1..MaxLinks /\ op.nonce \in 0..MaxLinks /\ sync.nonce = op.nonce
      BY <1>8, <2>3, OpTyped, OpKinds DEF Verified, Verifications, StillAsked
    <3>2. Channel /\ Allowed(cc) /\ op.nonce = link
      BY <1>2, <3>1, PeerRules DEF link
    <3>3. sync'.nonce = 0 /\ cc' = IF cc.view = "revoked" THEN MarkRevokedReady(cc) ELSE MarkReady(cc, op.nonce)
      BY <1>8, <2>3, DetachedIsDown DEF Verified
    <3>4. /\ cc'.tok = cc.tok /\ cc'.res = cc.res /\ cc'.view = cc.view /\ cc'.data = cc.data
          /\ cc'.open => (cc.open /\ cc'.by = cc.by) \/ (cc.view # "revoked" /\ cc'.by = op.nonce)
      <4>1. CASE cc.view = "revoked"
        BY <1>1, <3>3, <4>1, RevokedTyped
      <4>2. CASE cc.view # "revoked"
        BY <1>1, <3>1, <3>3, <4>2, ReadyTyped
      <4>3. QED
        BY <4>1, <4>2
    <3>5. cc.view # "revoked" /\ Allowed(cc) => cc.view = "member"
      BY <1>1 DEF Controllers, Allowed, Trusts
    <3>6. Channel' <=> Channel
      BY <2>0, <3>4 DEF Channel
    <3>7. cc'.open => cc'.by = link /\ cc'.view = "member"
      BY <3>2, <3>4, <3>5, PeerRules DEF link
    <3>8. net'[cc'.res].link = link
      BY <2>0, <3>4 DEF link
    <3>9. QED
      BY <3>2, <3>3, <3>4, <3>6, <3>7, <3>8, PeerRules, PeerRulesNext
  <2>4. QED
    BY <2>1, <2>2, <2>3
<1>9. QED
  BY <1>4, <1>5, <1>6, <1>7, <1>8

LEMMA PeerSignals ==
    ASSUME Typed, PeerInv, NEW s \in Sessions,
           PeerAppears(s) \/ PeerDisappears(s) \/ OfferArrives(s) \/ ProviderReconnects(s)
    PROVE  PeerInv'
<1>1. CcTyped(cc) /\ net \in [Sessions -> Connections] /\ cc \in Controllers /\ cc.task \in {0, cc.tok}
  BY TypedParts DEF CcTyped
<1>2. net[s] \in Connections /\ s # 0 /\ (cc.tok # 0 => cc.tok \in Sessions)
  BY <1>1 DEF Sessions, Controllers
<1>3. SamePeer(cc, Asked(cc, TRUE)) /\ SamePeer(cc, Asked(cc, FALSE)) /\ SamePeer(cc, cc)
  <2>1. SameView(cc, Asked(cc, TRUE)) /\ SameView(cc, Asked(cc, FALSE))
    BY <1>1, AskedTyped
  <2>2. QED
    BY <2>1, SameIsSame DEF SamePeer
<1>4. ASSUME SamePeer(cc, cc'), sync' = sync, NEW n, net' = [net EXCEPT ![s] = n],
             n.chan = "open" <=> net[s].chan = "open", n.link = net[s].link
      PROVE  PeerInv'
  BY <1>1, <1>2, <1>4, PeerFrame
<1>5. CASE PeerAppears(s)
  <2> DEFINE n == [net[s] EXCEPT !.sees = TRUE]
             m == IF Allowed(cc) THEN Trying(n) ELSE n
  <2>1. n \in Connections /\ n.chan = net[s].chan /\ n.link = net[s].link
    BY <1>2 DEF Connections
  <2>2. net' = [net EXCEPT ![s] = m] /\ sync' = sync
    BY <1>5 DEF PeerAppears
  <2>3. m.chan = "open" <=> n.chan = "open"
    BY <2>1, TryingTyped
  <2>4. m.link = n.link
    BY <2>1, TryingTyped DEF Kept
  <2>5. SamePeer(cc, cc')
    BY <1>3, <1>5 DEF PeerAppears
  <2> HIDE DEF n, m
  <2>6. QED
    BY <1>4, <2>1, <2>2, <2>3, <2>4, <2>5
<1>6. CASE PeerDisappears(s)
  <2> DEFINE m == LeftPeer(cc, net[s])
             n == [m EXCEPT !.sees = FALSE]
  <2>1. m \in Connections /\ m.link = net[s].link
        /\ (m.chan = "open" <=> net[s].chan = "open" /\ ~(net[s].sees /\ Allowed(cc)))
    BY <1>1, <1>2, LeftTyped DEF Kept
  <2>2. net' = [net EXCEPT ![s] = n] /\ net[s].sees /\ cc.bound = s
    BY <1>6 DEF PeerDisappears
  <2> HIDE DEF m
  <2>3. n.chan = m.chan /\ n.link = m.link
    BY <2>1 DEF Connections
  <2> HIDE DEF n
  <2>4. CASE Allowed(cc)
    <3>1. cc' = ForgetPeer(cc) /\ sync' = NoHandshake
      BY <1>6, <2>4 DEF PeerDisappears
    <3>2. cc'.tok = s /\ ~cc'.data /\ ~cc'.open
      BY <1>1, <1>2, <2>2, <3>1, ForgetTyped DEF CcTyped
    <3>3. net'[s].chan # "open"
      BY <1>1, <2>1, <2>2, <2>3, <2>4
    <3>4. QED
      BY <3>1, <3>2, <3>3, DetachedIsDown, PeerDown
  <2>5. CASE ~Allowed(cc)
    <3>1. cc' = cc /\ sync' = sync
      BY <1>6, <2>5 DEF PeerDisappears
    <3>2. n.chan = "open" <=> net[s].chan = "open"
      BY <2>1, <2>3, <2>5
    <3>3. QED
      BY <1>3, <1>4, <2>1, <2>2, <2>3, <3>1, <3>2
  <2>6. QED
    BY <2>4, <2>5
<1>7. CASE OfferArrives(s)
  <2>1. Trying(net[s]).chan = "open" <=> net[s].chan = "open"
    BY <1>2, TryingTyped
  <2>2. Trying(net[s]).link = net[s].link
    BY <1>2, TryingTyped DEF Kept
  <2>3. QED
    BY <1>3, <1>4, <1>7, <2>1, <2>2 DEF OfferArrives
<1>8. CASE ProviderReconnects(s)
  BY <1>3, <1>8, PeerFrame DEF ProviderReconnects
<1>9. QED
  BY <1>5, <1>6, <1>7, <1>8

\* Installing what storage says of the peer, on the session's own channel.
LEMMA PeerInstalls ==
    ASSUME Typed, PeerInv, NEW h \in Controllers, SamePeer(cc, h), NEW trust \in Trusts, NEW n, NEW r \in Sessions,
           cc.tok = r, cc.res = r,
           cc' = Install(h, trust), sync' = SyncAfter(cc, Install(h, trust), sync),
           net' = [net EXCEPT ![r] = n],
           n.link = net[r].link,
           n.chan = "open" <=> net[r].chan = "open" /\ trust # "unknown"
    PROVE  PeerInv'
<1>1. CcTyped(cc) /\ SyncTyped(sync) /\ net \in [Sessions -> Connections]
      /\ cc \in Controllers /\ sync \in Handshakes /\ r # 0
  BY TypedParts DEF CcTyped, SyncTyped, Sessions
<1>2. cc' \in Controllers /\ cc'.tok = r /\ cc'.res = r /\ cc'.view = trust /\ cc'.by = cc.by
  BY InstallTyped DEF SamePeer
<1>3. cc'.data <=> (cc.data /\ trust # "unknown")
  <2>1. h.data = cc.data
    BY DEF SamePeer
  <2>2. QED
    BY <2>1, InstallTyped
<1>4. cc'.open => cc.open /\ (cc.data => trust = "member")
  <2>1. h.open = cc.open /\ h.data = cc.data
    BY DEF SamePeer
  <2>2. QED
    BY <2>1, InstallTyped
<1>5. sync'.nonce # 0 => sync'.nonce = sync.nonce /\ (cc.data => cc'.data)
  BY <1>1, <1>2, SyncAfterTyped DEF SyncTyped
<1>6. net'[r] = n
  BY <1>1
<1>7. Channel <=> net[r].chan = "open"
  BY <1>1 DEF Channel
<1>8. Channel' <=> n.chan = "open"
  BY <1>1, <1>2, <1>6 DEF Channel
<1>9. cc'.data <=> Channel'
  BY <1>3, <1>7, <1>8, PeerRules
<1>10. cc'.open => Channel' /\ cc'.by = net'[cc'.res].link /\ cc'.view = "member"
  BY <1>2, <1>4, <1>6, <1>7, <1>8, PeerRules
<1>11. sync'.nonce # 0 => cc'.data /\ cc'.view # "unknown" /\ sync'.nonce = net'[cc'.res].link
  BY <1>2, <1>3, <1>5, <1>6, PeerRules
<1>12. QED
  BY <1>9, <1>10, <1>11, PeerRulesNext

LEMMA PeerStore ==
    ASSUME Typed, PeerInv, NEW g \in Later(store), NEW arrived \in BOOLEAN, StoreChanges(g, arrived)
    PROVE  PeerInv'
<1>1. CcTyped(cc) /\ SyncTyped(sync) /\ net \in [Sessions -> Connections] /\ cc \in Controllers
      /\ cc.task \in {0, cc.tok} /\ sync \in Handshakes
  BY TypedParts DEF CcTyped, SyncTyped
<1>2. g.trust \in Trusts
  BY LaterTyped DEF StoreChanges, Snapshots
<1> DEFINE heard == IF cc.bound = 0 THEN cc ELSE Asked(cc, TRUE)
           c == IF arrived THEN Install(heard, g.trust) ELSE heard
<1>3. heard \in Controllers /\ SamePeer(cc, heard)
  BY <1>1, AskedTyped, SameIsSame DEF SamePeer
<1>4. cc' = c /\ sync' = SyncAfter(cc, c, sync)
  BY DEF StoreChanges
<1>5. CASE ~arrived
  <2>1. cc' = heard /\ sync' = SyncAfter(cc, heard, sync) /\ net' = net
    BY <1>4, <1>5 DEF StoreChanges
  <2> HIDE DEF heard
  <2>2. sync'.nonce \in {0, sync.nonce}
    BY <1>1, <1>3, <2>1, SyncAfterTyped DEF SyncTyped
  <2>3. QED
    BY <1>3, <2>1, <2>2, PeerFrame
<1>6. CASE arrived
  <2> DEFINE m == IF g.trust = "unknown" THEN Unlinked(net[cc.res]) ELSE net[cc.res]
             n == ConnectPresent(c, m)
  <2>1. Channel /\ net' = [net EXCEPT ![cc.res] = n]
    BY <1>4, <1>6 DEF StoreChanges, heard
  <2>2. cc.res \in Sessions /\ cc.tok = cc.res
    BY <1>1, <2>1 DEF Channel, Controllers, Sessions
  <2>3. m \in Connections /\ m.link = net[cc.res].link /\ (m.chan = "open" <=> net[cc.res].chan = "open" /\ g.trust # "unknown")
    BY <1>1, <2>2, UnlinkedTyped DEF Kept
  <2>4. cc' = Install(heard, g.trust) /\ c = Install(heard, g.trust)
    BY <1>4, <1>6
  <2> HIDE DEF m, heard, c
  <2>5. c \in Controllers
    BY <1>2, <1>3, <2>4, InstallTyped
  <2>6. n.link = m.link /\ (n.chan = "open" <=> m.chan = "open")
    BY <2>3, <2>5, PresentTyped DEF Kept
  <2> HIDE DEF n
  <2>7. QED
    BY <1>2, <1>3, <1>4, <2>1, <2>2, <2>3, <2>4, <2>6, PeerInstalls
<1>7. QED
  BY <1>5, <1>6

LEMMA PeerRefreshes ==
    ASSUME Typed, PeerInv, CreationInv, AttachInv, NEW op \in ops,
           RefreshReads(op) \/ RefreshInstalls(op) \/ RefreshMoves(op)
    PROVE  PeerInv'
<1>1. CcTyped(cc) /\ SyncTyped(sync) /\ net \in [Sessions -> Connections] /\ cc \in Controllers /\ cc.task \in {0, cc.tok}
  BY TypedParts DEF CcTyped
<1>2. op \in Refreshes /\ op \in Ops /\ op.k = "refresh" /\ op.s \in Sessions /\ op.s # 0
  BY OpTyped, OpKinds DEF RefreshReads, RefreshInstalls, RefreshMoves
<1>3. op.snap.trust \in Trusts /\ net[op.s] \in Connections
  BY <1>1, <1>2, SnapTyped
<1>4. cc.tok = op.s => cc.res = op.s
  BY <1>1, <1>2 DEF CreationInv, AttachInv, CcTyped
<1>5. ASSUME RefreshReturns(op) PROVE PeerInv'
  <2>1. SamePeer(cc, EndedTask(cc, op))
    BY <1>1, EndedTyped, SameIsSame
  <2>2. QED
    BY <1>5, <2>1, PeerFrame DEF RefreshReturns
<1>6. CASE RefreshReads(op)
  BY <1>6, PeerFrame DEF RefreshReads, SamePeer
<1>7. CASE RefreshInstalls(op) /\ ~RefreshReturns(op)
  <2> DEFINE c == Install(cc, op.snap.trust)
             m == IF cc.data /\ op.snap.trust = "unknown" THEN Unlinked(net[op.s]) ELSE net[op.s]
             n == ConnectPresent(c, m)
  <2>1. cc.tok = op.s /\ cc.res = op.s
    BY <1>4, <1>7 DEF RefreshInstalls
  <2>2. cc' = c /\ sync' = SyncAfter(cc, c, sync) /\ net' = [net EXCEPT ![op.s] = n]
    BY <1>2, <1>7, <2>1 DEF RefreshInstalls
  <2>3. cc.data <=> net[op.s].chan = "open"
    BY <1>2, <2>1, PeerRules DEF Channel
  <2>4. m \in Connections /\ m.link = net[op.s].link
        /\ (m.chan = "open" <=> net[op.s].chan = "open" /\ op.snap.trust # "unknown")
    BY <1>3, <2>3, UnlinkedTyped DEF Kept
  <2>5. c \in Controllers
    BY <1>1, <1>3, InstallTyped
  <2> HIDE DEF m
  <2>6. n.link = m.link /\ (n.chan = "open" <=> m.chan = "open")
    BY <2>4, <2>5, PresentTyped DEF Kept
  <2> HIDE DEF n
  <2>7. SamePeer(cc, cc)
    BY DEF SamePeer
  <2>8. QED
    BY <1>1, <1>2, <1>3, <2>1, <2>2, <2>4, <2>6, <2>7, PeerInstalls
<1>8. CASE RefreshMoves(op) /\ ~RefreshReturns(op)
  <2>1. CASE op.snap.rdv = cc.rdv
    <3>1. IterationEnds(cc, op, ops \ {op}) /\ UNCHANGED <<sync, net, store, count>>
      BY <1>8, <2>1 DEF RefreshMoves
    <3>2. SameView(cc, cc')
      BY <1>1, <1>2, <3>1, TypedParts, IterationTyped
    <3>3. QED
      BY <3>1, <3>2, SameIsSame, PeerFrame
  <2>2. CASE op.snap.rdv # cc.rdv
    <3> DEFINE left == net[op.s].sees /\ Allowed(cc)
               c == IF left THEN ForgetPeer(cc) ELSE cc
               n == LeftPeer(cc, net[op.s])
               m == [n EXCEPT !.sig = "joining", !.room = op.snap.rdv, !.sees = FALSE]
    <3>1. cc.tok = op.s /\ cc.res = op.s
      BY <1>4, <1>8 DEF RefreshMoves
    <3>2. n \in Connections /\ n.link = net[op.s].link /\ (n.chan = "open" <=> net[op.s].chan = "open" /\ ~left)
      BY <1>1, <1>3, LeftTyped DEF Kept
    <3>3. /\ cc' = [c EXCEPT !.rdv = op.snap.rdv] /\ sync' = IF left THEN NoHandshake ELSE sync
          /\ net' = [net EXCEPT ![op.s] = m]
      BY <1>8, <2>2 DEF RefreshMoves
    <3> HIDE DEF n
    <3>4. m.link = n.link /\ m.chan = n.chan
      BY <3>2 DEF Connections
    <3> HIDE DEF m
    <3>5. net'[op.s] = m
      BY <1>1, <1>2, <3>3
    <3>6. CASE left
      <4>1. c \in Controllers /\ c.tok = op.s /\ ~c.data /\ ~c.open
        BY <1>1, <3>1, <3>6, ForgetTyped
      <4> HIDE DEF c
      <4>2. cc'.tok = op.s /\ ~cc'.data /\ ~cc'.open
        BY <3>3, <4>1 DEF Controllers
      <4>3. QED
        BY <3>2, <3>3, <3>4, <3>5, <3>6, <4>2, DetachedIsDown, PeerDown
    <3>7. CASE ~left
      <4>1. SamePeer(cc, cc')
        BY <1>1, <3>3, <3>7 DEF SamePeer, Controllers
      <4>2. QED
        BY <3>1, <3>2, <3>3, <3>4, <3>5, <3>7, <4>1, PeerFrame
    <3>8. QED
      BY <3>6, <3>7
  <2>3. QED
    BY <2>1, <2>2
<1>9. QED
  BY <1>5, <1>6, <1>7, <1>8

LEMMA PeerRejoins ==
    ASSUME Typed, PeerInv, NEW op \in ops, NEW ok \in BOOLEAN, RefreshJoins(op, ok)
    PROVE  PeerInv'
<1>1. CcTyped(cc) /\ net \in [Sessions -> Connections] /\ cc \in Controllers /\ cc.task \in {0, cc.tok}
      /\ op \in Refreshes /\ ops \subseteq Ops
  BY TypedParts, OpTyped, OpKinds DEF CcTyped, RefreshJoins
<1>2. \A s \in Sessions : net'[s].chan = net[s].chan /\ net'[s].link = net[s].link
  BY <1>1 DEF RefreshJoins, Connections
<1>3. cc.tok # 0 => cc.tok \in Sessions
  BY <1>1 DEF Controllers, Sessions
<1> DEFINE waiting == {o \in ops : o.k = "connect" /\ o.s = op.s}
<1>4. CASE cc.tok = op.s /\ ok
  <2>1. IterationEnds(cc, op, ops \ {op}) /\ UNCHANGED sync
    BY <1>4 DEF RefreshJoins
  <2>2. SamePeer(cc, cc')
    BY <1>1, <2>1, IterationTyped, SameIsSame
  <2>3. QED
    BY <1>2, <1>3, <2>1, <2>2, PeerFrame
<1>5. CASE ~(cc.tok = op.s /\ ok) /\ cc.tok = op.s /\ waiting # {}
  BY <1>5, DetachedIsDown, PeerDown DEF RefreshJoins
<1>6. CASE ~(cc.tok = op.s /\ ok) /\ ~(cc.tok = op.s /\ waiting # {})
  <2>1. cc' = EndedTask(cc, op) /\ sync' = sync
    BY <1>6 DEF RefreshJoins
  <2>2. SamePeer(cc, cc')
    BY <1>1, <2>1, EndedTyped, SameIsSame
  <2>3. QED
    BY <1>2, <1>3, <2>1, <2>2, PeerFrame
<1>7. QED
  BY <1>4, <1>5, <1>6

----------------------------------------------------------------------------
(* The order in which a session comes into being.                          *)

OrderInv == CreationInv /\ ConnectInv /\ AttachInv

\* A step that makes no session and lets no connect go on.
LEMMA OrderFrame ==
    ASSUME Typed, OrderInv, count'.sessions = count.sessions,
           \A s \in Sessions : net'[s].chan = "none" <=> net[s].chan = "none",
           \A s \in Sessions : net[s].chan = "none" => net'[s] = net[s],
           \A o \in ops' : o \in Ops,
           \A o \in ops' : o.k = "connect" => o \in ops,
           \A o \in ops' : o.k \in {"refresh", "close"} => net[o.s].chan # "none",
           \A o \in ops' : o.k = "close" => o.s # cc'.tok,
           \/ cc'.tok = 0 /\ cc'.bound = 0
           \/ cc'.tok = cc.tok /\ cc'.res = cc.res /\ cc'.bound = cc.bound
    PROVE  OrderInv'
<1>1. \A s \in Sessions : Made(s)' <=> Made(s)
  BY DEF Made
<1>2. \A o \in ops' : o.s \in Sessions /\ (o.k = "connect" => o \in Connects)
  BY OpKinds
<1>3. cc.tok # 0 => cc.tok \in Sessions
  BY TypedParts DEF CcTyped, Controllers, Sessions
<1>4. CreationInv'
  <2>1. \A s \in Sessions : ~Made(s)' => net'[s] = NotCreated
    BY <1>1 DEF OrderInv, CreationInv, Made
  <2>2. \A s \in Sessions : s > count'.sessions => ~Made(s)'
    BY <1>1 DEF OrderInv, CreationInv
  <2>3. \A o \in ops' : o.k = "connect" => o.s <= count'.sessions /\ (Made(o.s)' <=> (o.at \notin Early))
    BY <1>1, <1>2 DEF OrderInv, CreationInv
  <2>4. \A o \in ops' : o.k \in {"refresh", "close"} => Made(o.s)'
    BY <1>1, <1>2 DEF Made
  <2>5. \A o \in ops' : o.k = "connect" /\ o.at = "closing" /\ o.old # 0 => Made(o.old)'
    <3>1. \A o \in ops' : o.k = "connect" /\ o.old # 0 => o.old \in Sessions
      BY <1>2 DEF Connects, Sessions
    <3>2. QED
      BY <1>1, <3>1 DEF OrderInv, CreationInv
  <2>6. QED
    BY <2>1, <2>2, <2>3, <2>4, <2>5 DEF CreationInv
<1>5. ConnectInv'
  BY DEF OrderInv, ConnectInv
<1>6. AttachInv'
  BY <1>1, <1>3 DEF OrderInv, AttachInv
<1>7. QED
  BY <1>4, <1>5, <1>6 DEF OrderInv

\* A connect that goes on for the controller's session.
LEMMA OrderAdvances ==
    ASSUME Typed, OrderInv, NEW op \in ops, op.k = "connect", NEW o \in Connects, o.k = "connect",
           o.s = op.s, o.at # "closing", op.at = "closing" \/ cc.tok = op.s,
           count'.sessions = count.sessions,
           \A p \in ops' : p = o \/ (p \in ops /\ p # op) \/ (p.k = "refresh" /\ p.s = op.s /\ o.at \notin Early),
           \A s \in Sessions : s # op.s =>
              (net'[s].chan = "none" <=> net[s].chan = "none") /\ (net[s].chan = "none" => net'[s] = net[s]),
           o.at \in Early => op.at \in Early /\ net'[op.s] = net[op.s],
           o.at \notin Early => net'[op.s].chan # "none",
           cc'.tok = op.s, cc'.res # 0 <=> o.at \notin Early, cc'.bound # 0 => cc'.res # 0
    PROVE  OrderInv'
<1>1. op \in Connects /\ op.s \in Sessions /\ op.s # 0 /\ op.s <= count.sessions /\ (Made(op.s) <=> op.at \notin Early)
  BY OpTyped, OpKinds DEF OrderInv, CreationInv
<1>2. \A s \in Sessions : s # op.s => (Made(s)' <=> Made(s))
  BY DEF Made
<1>3. Made(op.s)' <=> o.at \notin Early
  BY <1>1 DEF Made
<1>4. Made(op.s) => Made(op.s)'
  BY <1>1, <1>3
<1>5. \A p \in ops' : p # o /\ p.k # "refresh" => p \in ops /\ p # op /\ p \in Ops /\ p.s \in Sessions
  BY OpTyped
<1>6. \A p \in ops' : p # o /\ p.k = "connect" => p.s # op.s /\ p.at # "closing"
  <2>1. \A p \in ops' : p # o /\ p.k = "connect" => p.s # op.s
    BY <1>5 DEF OrderInv, ConnectInv
  <2>2. \A p \in ops' : p # o /\ p.k = "connect" => p.at # "closing"
    BY <1>1, <1>5 DEF OrderInv, ConnectInv
  <2>3. QED
    BY <2>1, <2>2
<1>7. CreationInv'
  <2>1. \A s \in Sessions : ~Made(s)' => net'[s] = NotCreated
    <3>1. \A s \in Sessions : s # op.s /\ ~Made(s)' => net'[s] = NotCreated
      BY <1>2 DEF OrderInv, CreationInv, Made
    <3>2. ~Made(op.s)' => net'[op.s] = NotCreated
      BY <1>1, <1>3 DEF OrderInv, CreationInv
    <3>3. QED
      BY <3>1, <3>2
  <2>2. \A s \in Sessions : s > count'.sessions => ~Made(s)'
    <3>1. \A s \in Sessions : s > count'.sessions => s # op.s
      BY <1>1, TypedParts DEF CountTyped, Sessions
    <3>2. QED
      BY <1>2, <3>1 DEF OrderInv, CreationInv
  <2>3. \A p \in ops' : p.k = "connect" => p.s <= count'.sessions /\ (Made(p.s)' <=> (p.at \notin Early))
    BY <1>1, <1>2, <1>3, <1>5, <1>6 DEF OrderInv, CreationInv
  <2>4. \A p \in ops' : p.k \in {"refresh", "close"} => Made(p.s)'
    <3>1. ASSUME NEW p \in ops', p \in ops, p.k \in {"refresh", "close"} PROVE Made(p.s)'
      <4>1. p.s \in Sessions /\ Made(p.s)
        BY <3>1, OpTyped DEF OrderInv, CreationInv
      <4>2. QED
        BY <1>2, <1>4, <4>1
    <3>2. QED
      BY <1>3, <3>1
  <2>5. \A p \in ops' : p.k = "connect" /\ p.at = "closing" /\ p.old # 0 => Made(p.old)'
    BY <1>6
  <2>6. QED
    BY <2>1, <2>2, <2>3, <2>4, <2>5 DEF CreationInv
<1>8. ConnectInv'
  <2>1. \A p \in ops', q \in ops' :
            p.k = "connect" /\ q.k = "connect" /\ (p.s = q.s \/ (p.at = "closing" /\ q.at = "closing")) => p = q
    <3>1. \A p \in ops', q \in ops' : p # o /\ q # o /\ p.k = "connect" /\ q.k = "connect"
                                      /\ (p.s = q.s \/ (p.at = "closing" /\ q.at = "closing")) => p = q
      BY <1>5 DEF OrderInv, ConnectInv
    <3>2. QED
      BY <1>6, <3>1
  <2>2. \A p \in ops' : p.k = "connect" /\ p.at = "closing" => cc'.tok = 0
    BY <1>6
  <2>3. \A p \in ops' : p.k = "close" => p.s # cc'.tok
    <3>1. ASSUME NEW p \in ops', p.k = "close" PROVE p.s # op.s
      <4>1. p \in ops /\ Made(p.s) /\ p.s # cc.tok
        BY <1>5, <3>1 DEF OrderInv, CreationInv, ConnectInv
      <4>2. QED
        BY <1>1, <4>1 DEF Early
    <3>2. QED
      BY <3>1
  <2>4. QED
    BY <2>1, <2>2, <2>3 DEF ConnectInv
<1>9. AttachInv'
  BY <1>1, <1>3 DEF AttachInv
<1>10. QED
  BY <1>7, <1>8, <1>9 DEF OrderInv

LEMMA OrderConnect == ASSUME Typed, OrderInv, Connect PROVE OrderInv'
<1> DEFINE new == [k |-> "connect", s |-> count.sessions + 1, at |-> "closing", old |-> cc.res, snap |-> NoSnapshot]
<1>1. ops' = ops \cup {new} /\ cc' = Detached /\ net' = net /\ count' = [count EXCEPT !.sessions = @ + 1]
  BY DEF Connect
<1>2. CcTyped(cc) /\ CountTyped /\ cc \in Controllers
  BY TypedParts DEF CcTyped
<1>3. new.k = "connect" /\ new.s = count.sessions + 1 /\ new.at = "closing" /\ new.old = cc.res
  OBVIOUS
<1>4. count'.sessions = count.sessions + 1 /\ count.sessions \in Nat /\ count.sessions + 1 \in Sessions
  BY <1>1, <1>2, BoundsAreNatural DEF Connect, CountTyped, Sessions
<1>5. cc'.tok = 0 /\ cc'.res = 0 /\ cc'.bound = 0
  BY <1>1, DetachedIsDown
<1>6. \A s \in Sessions : Made(s)' <=> Made(s)
  BY <1>1 DEF Made
<1>7. cc.res # 0 => Made(cc.res)
  BY <1>2 DEF OrderInv, AttachInv, CcTyped
<1> HIDE DEF new
<1>8. CreationInv'
  <2>1. \A s \in Sessions : ~Made(s)' => net'[s] = NotCreated
    BY <1>1, <1>6 DEF OrderInv, CreationInv
  <2>2. \A s \in Sessions : s > count'.sessions => ~Made(s)'
    BY <1>4, <1>6 DEF OrderInv, CreationInv, Sessions
  <2>3. ~Made(count.sessions + 1)
    BY <1>4 DEF OrderInv, CreationInv
  <2>4. ASSUME NEW p \in ops', p.k = "connect"
        PROVE  p.s <= count'.sessions /\ (Made(p.s)' <=> p.at \notin Early)
    <3>1. CASE p = new
      BY <1>3, <1>4, <1>6, <2>3, <3>1 DEF Early
    <3>2. CASE p \in ops
      <4>1. p.s \in Sessions /\ p.s <= count.sessions /\ (Made(p.s) <=> p.at \notin Early)
        BY <2>4, <3>2, OpTyped DEF OrderInv, CreationInv
      <4>2. p.s <= count.sessions + 1
        BY <1>4, <4>1 DEF Sessions
      <4>3. QED
        BY <1>4, <1>6, <4>1, <4>2
    <3>3. QED
      BY <1>1, <3>1, <3>2
  <2>5. \A p \in ops' : p.k \in {"refresh", "close"} => Made(p.s)'
    BY <1>1, <1>3, <1>6, OpTyped DEF OrderInv, CreationInv
  <2>6. ASSUME NEW p \in ops', p.k = "connect", p.at = "closing", p.old # 0 PROVE Made(p.old)'
    <3>1. CASE p = new
      <4>1. cc.res \in Sessions
        BY <1>2, <1>3, <2>6, <3>1 DEF Controllers, Sessions
      <4>2. QED
        BY <1>3, <1>6, <1>7, <2>6, <3>1, <4>1
    <3>2. CASE p \in ops
      <4>1. p.old \in Sessions
        BY <2>6, <3>2, OpTyped, OpKinds DEF Connects, Sessions
      <4>2. QED
        BY <1>6, <2>6, <3>2, <4>1 DEF OrderInv, CreationInv
    <3>3. QED
      BY <1>1, <3>1, <3>2
  <2>7. QED
    BY <2>1, <2>2, <2>4, <2>5, <2>6 DEF CreationInv
<1>9. ConnectInv'
  <2>1. \A p \in ops : p.k = "connect" => p.s # new.s /\ p.at # "closing"
    <3>1. \A p \in ops : p.k = "connect" => p.s <= count.sessions /\ p.s \in Sessions /\ p.at # "closing"
      BY OpTyped DEF OrderInv, CreationInv, Connect
    <3>2. QED
      BY <1>3, <1>4, <3>1 DEF Sessions
  <2>2. \A p \in ops', q \in ops' :
            p.k = "connect" /\ q.k = "connect" /\ (p.s = q.s \/ (p.at = "closing" /\ q.at = "closing")) => p = q
    BY <1>1, <2>1 DEF OrderInv, ConnectInv
  <2>3. \A p \in ops' : p.k = "close" => p.s # cc'.tok
    <3>1. \A p \in ops' : p.k = "close" => p.s \in Sessions
      BY <1>1, <1>3, OpTyped
    <3>2. QED
      BY <1>5, <3>1 DEF Sessions
  <2>4. QED
    BY <1>5, <2>2, <2>3 DEF ConnectInv
<1>10. AttachInv'
  BY <1>5 DEF AttachInv
<1>11. QED
  BY <1>8, <1>9, <1>10 DEF OrderInv

LEMMA OldOps ==
    ASSUME Typed, OrderInv, NEW o \in ops
    PROVE  /\ o \in Ops /\ o.s \in Sessions /\ o.s # 0
           /\ o.k \in {"refresh", "close"} => net[o.s].chan # "none"
           /\ o.k = "close" => o.s # cc.tok
BY OpTyped DEF OrderInv, CreationInv, ConnectInv, Made

LEMMA NewCloses ==
    ASSUME NEW s \in 0..MaxSessions, NEW o \in Close(s)
    PROVE  o \in Ops /\ o.k = "close" /\ o.s = s /\ s # 0
BY CloseTyped DEF Ops

LEMMA NewRefreshes ==
    ASSUME NEW c \in Controllers, NEW o \in Started(c)
    PROVE  o \in Ops /\ o.k = "refresh" /\ o.s = c.tok
BY StartedTyped DEF Ops

LEMMA OrderSessions ==
    ASSUME Typed, OrderInv, Disconnect \/ \E op \in ops : Closed(op)
    PROVE  OrderInv'
<1>1. CcTyped(cc) /\ net \in [Sessions -> Connections] /\ cc \in Controllers /\ cc.res \in 0..MaxSessions
  BY TypedParts DEF CcTyped, Controllers
<1>2. CASE Disconnect
  <2>1. cc.res # 0 => net[cc.res].chan # "none"
    BY <1>1 DEF OrderInv, AttachInv, CcTyped, Made
  <2>2. ASSUME NEW o \in ops'
        PROVE  /\ o \in Ops /\ o.s # 0 /\ (o.k = "connect" => o \in ops)
               /\ o.k \in {"refresh", "close"} => net[o.s].chan # "none"
    <3>1. CASE o \in ops
      BY <3>1, OldOps
    <3>2. CASE o \in Close(cc.res)
      BY <1>1, <2>1, <3>2, NewCloses
    <3>3. QED
      BY <1>2, <3>1, <3>2 DEF Disconnect
  <2>3. cc'.tok = 0 /\ cc'.bound = 0 /\ net' = net /\ count' = count
    BY <1>2, DetachedIsDown DEF Disconnect
  <2>4. QED
    BY <2>2, <2>3, OrderFrame
<1>3. ASSUME NEW op \in ops, Closed(op) PROVE OrderInv'
  <2>1. op.k = "close" /\ ops' = ops \ {op} /\ net' = [net EXCEPT ![op.s] = Gone] /\ cc' = cc /\ count' = count
    BY <1>3 DEF Closed
  <2>2. op.s \in Sessions /\ net[op.s].chan # "none"
    BY <2>1, OldOps
  <2>3. \A s \in Sessions : s # op.s => net'[s] = net[s]
    BY <1>1, <2>1
  <2>4. net'[op.s].chan = "gone"
    BY <1>1, <2>1, <2>2 DEF Gone
  <2>5. \A o \in ops' : o \in ops
    BY <2>1
  <2>6. /\ \A s \in Sessions : net'[s].chan = "none" <=> net[s].chan = "none"
        /\ \A s \in Sessions : net[s].chan = "none" => net'[s] = net[s]
    BY <2>2, <2>3, <2>4
  <2>7. QED
    BY <2>1, <2>5, <2>6, OldOps, OrderFrame
<1>4. QED
  BY <1>2, <1>3

\* A connect whose session was replaced, or that returns.
LEMMA OrderLeaves ==
    ASSUME Typed, OrderInv, NEW op \in ops, UNCHANGED <<cc, net, count>>,
           \/ op.k = "connect" /\ cc.tok # op.s /\ Aborted(op)
           \/ ops' = ops \ {op}
    PROVE  OrderInv'
<1>1. ASSUME NEW o \in ops'
      PROVE  /\ o \in Ops /\ (o.k = "connect" => o \in ops)
             /\ o.k \in {"refresh", "close"} => net[o.s].chan # "none"
             /\ o.k = "close" => o.s # cc.tok
  <2>1. CASE o \in ops
    BY <2>1, OldOps
  <2>2. CASE o \notin ops
    <3>1. op.k = "connect" /\ cc.tok # op.s /\ o \in Released(op)
      BY <2>2 DEF Aborted
    <3>2. op \in Connects /\ op.s \in Sessions
      BY <3>1, OpTyped, OpKinds
    <3>3. o \in Closings /\ o.k = "close" /\ o.s = op.s /\ net[op.s] # NotCreated
      BY <3>1, <3>2, ReleasedTyped
    <3>4. net[op.s].chan # "none"
      BY <3>2, <3>3 DEF OrderInv, CreationInv, Made
    <3>5. QED
      BY <3>1, <3>3, <3>4 DEF Ops
  <2>3. QED
    BY <2>1, <2>2
<1>2. QED
  BY <1>1, OrderFrame

LEMMA OrderConnects ==
    ASSUME Typed, OrderInv, NEW op \in ops,
           \/ ConnectCloses(op) \/ ConnectInfers(op) \/ ConnectCreates(op) \/ ConnectBinds(op)
           \/ ConnectReturns(op)
    PROVE  OrderInv'
<1>1. CcTyped(cc) /\ net \in [Sessions -> Connections] /\ cc \in Controllers /\ store \in Snapshots
  BY TypedParts DEF CcTyped
<1>2. op \in Connects /\ op \in Ops /\ op.k = "connect" /\ op.s \in Sessions /\ op.s # 0
  BY OpTyped, OpKinds DEF ConnectCloses, ConnectInfers, ConnectCreates, ConnectBinds, ConnectReturns
<1>3. net[op.s].chan = "none" <=> op.at \in Early
  BY <1>2 DEF OrderInv, CreationInv, Made
<1>4. cc.tok = op.s => (cc.res # 0 <=> op.at \notin Early) /\ (cc.res # 0 => cc.res = op.s) /\ (cc.bound # 0 => cc.res # 0)
  BY <1>1, <1>2, <1>3 DEF OrderInv, AttachInv, Made, CcTyped
<1>5. CASE ConnectCloses(op)
  <2> DEFINE o == [op EXCEPT !.at = "infer", !.old = 0]
  <2>1. o \in Connects /\ o.k = "connect" /\ o.s = op.s /\ o.at = "infer"
    BY <1>2, ConnectMoves DEF Connects
  <2>2. /\ op.at = "closing" /\ cc.tok = 0 /\ cc' = [cc EXCEPT !.tok = op.s] /\ ops' = (ops \ {op}) \cup {o}
        /\ net' = (IF op.old = 0 THEN net ELSE [net EXCEPT ![op.old] = Gone]) /\ count' = count
    BY <1>5 DEF ConnectCloses, OrderInv, ConnectInv
  <2>3. cc.res = 0 /\ cc.bound = 0
    BY <1>1, <2>2 DEF CcTyped
  <2>4. cc'.tok = op.s /\ cc'.res = 0 /\ cc'.bound = 0
    BY <1>1, <2>2, <2>3 DEF Controllers
  <2>5. op.old # 0 => op.old \in Sessions /\ net[op.old].chan # "none"
    BY <1>2, <2>2 DEF OrderInv, CreationInv, Made, Connects, Sessions
  <2>6. \A s \in Sessions : s # op.old => net'[s] = net[s]
    BY <1>1, <2>2
  <2>7. op.old # 0 => net'[op.old].chan = "gone" /\ op.old # op.s
    BY <1>1, <1>3, <2>2, <2>5 DEF Gone, Early
  <2>8. net'[op.s] = net[op.s]
    BY <1>2, <2>6, <2>7
  <2>9. \A s \in Sessions : (net'[s].chan = "none" <=> net[s].chan = "none") /\ (net[s].chan = "none" => net'[s] = net[s])
    BY <2>5, <2>6, <2>7 DEF Sessions
  <2> HIDE DEF o
  <2>10. QED
    BY <1>2, <2>1, <2>2, <2>4, <2>8, <2>9, OrderAdvances DEF Early
<1>6. CASE ConnectInfers(op)
  <2>1. CASE cc.tok # op.s
    BY <1>2, <1>6, <2>1, OrderLeaves DEF ConnectInfers, Aborted
  <2>2. CASE cc.tok = op.s
    <3> DEFINE o == [op EXCEPT !.at = "network", !.snap = store]
    <3>1. o \in Connects /\ o.k = "connect" /\ o.s = op.s /\ o.at = "network"
      BY <1>1, <1>2, ConnectMoves DEF Connects
    <3>2. /\ op.at = "infer" /\ cc' = Configured(cc, store) /\ ops' = (ops \ {op}) \cup {o}
          /\ net' = net /\ count' = count
      BY <1>6, <2>2 DEF ConnectInfers
    <3>3. cc'.tok = op.s /\ cc'.res = cc.res /\ cc'.bound = cc.bound
      BY <1>1, <2>2, <3>2 DEF Configured, Controllers
    <3> HIDE DEF o
    <3>4. QED
      BY <1>2, <1>4, <2>2, <3>1, <3>2, <3>3, OrderAdvances DEF Early
  <2>3. QED
    BY <2>1, <2>2
<1>7. CASE ConnectCreates(op)
  <2>1. CASE cc.tok # op.s
    BY <1>2, <1>7, <2>1, OrderLeaves DEF ConnectCreates, Aborted
  <2>2. CASE cc.tok = op.s
    <3> DEFINE o == [op EXCEPT !.at = "attach"]
    <3>1. o \in Connects /\ o.k = "connect" /\ o.s = op.s /\ o.at = "attach"
      BY <1>2, ConnectMoves DEF Connects
    <3>2. /\ op.at = "network" /\ cc' = [cc EXCEPT !.res = op.s] /\ ops' = (ops \ {op}) \cup {o}
          /\ net' = [net EXCEPT ![op.s].sig = "new", ![op.s].chan = "idle"] /\ count' = count
      BY <1>7, <2>2 DEF ConnectCreates
    <3>3. cc'.tok = op.s /\ cc'.res = op.s /\ cc'.bound = cc.bound
      BY <1>1, <2>2, <3>2 DEF Controllers
    <3>4. net'[op.s].chan = "idle" /\ \A s \in Sessions : s # op.s => net'[s] = net[s]
      BY <1>1, <1>2, <3>2 DEF Connections
    <3> HIDE DEF o
    <3>5. QED
      BY <1>2, <2>2, <3>1, <3>2, <3>3, <3>4, OrderAdvances DEF Early
  <2>3. QED
    BY <2>1, <2>2
<1>8. CASE ConnectBinds(op)
  <2>1. CASE cc.tok # op.s
    BY <1>2, <1>8, <2>1, OrderLeaves DEF ConnectBinds, Aborted
  <2>2. CASE cc.tok = op.s
    <3> DEFINE o == [op EXCEPT !.at = "join"]
    <3>1. o \in Connects /\ o.k = "connect" /\ o.s = op.s /\ o.at = "join"
      BY <1>2, ConnectMoves DEF Connects
    <3>2. /\ op.at = "attach" /\ cc' = [cc EXCEPT !.bound = op.s] /\ ops' = (ops \ {op}) \cup {o}
          /\ net' = [net EXCEPT ![op.s].sig = "joining", ![op.s].room = op.snap.rdv] /\ count' = count
      BY <1>8, <2>2 DEF ConnectBinds
    <3>3. cc'.tok = op.s /\ cc'.res = cc.res /\ cc.res # 0
      BY <1>1, <1>4, <2>2, <3>2 DEF Controllers, Early
    <3>4. net'[op.s].chan # "none" /\ \A s \in Sessions : s # op.s => net'[s] = net[s]
      BY <1>1, <1>2, <1>3, <3>2 DEF Connections, Early
    <3> HIDE DEF o
    <3>5. QED
      BY <1>2, <2>2, <3>1, <3>2, <3>3, <3>4, OrderAdvances DEF Early
  <2>3. QED
    BY <2>1, <2>2
<1>9. CASE ConnectReturns(op)
  BY <1>9, OrderLeaves DEF ConnectReturns
<1>10. QED
  BY <1>5, <1>6, <1>7, <1>8, <1>9

LEMMA OrderJoins ==
    ASSUME Typed, OrderInv, NEW op \in ops, NEW ok \in BOOLEAN, ConnectJoins(op, ok)
    PROVE  OrderInv'
<1>1. CcTyped(cc) /\ net \in [Sessions -> Connections] /\ cc \in Controllers /\ cc.task \in {0, cc.tok}
  BY TypedParts DEF CcTyped
<1>2. op \in Connects /\ op.k = "connect" /\ op.at = "join" /\ op.s \in Sessions /\ op.s # 0 /\ op.s \in 0..MaxSessions
  BY OpTyped, OpKinds DEF ConnectJoins
<1>3. net[op.s].chan # "none"
  BY <1>2 DEF OrderInv, CreationInv, Made, Early
<1>4. /\ net' = [net EXCEPT ![op.s].sig = IF ok THEN "on" ELSE "failed"]
      /\ count'.sessions = count.sessions
  <2>1. count' = count \/ (count.faults < MaxFaults /\ count' = [count EXCEPT !.faults = @ + 1])
    BY DEF ConnectJoins
  <2>2. QED
    BY <2>1, FaultCounted DEF ConnectJoins
<1>5. /\ \A s \in Sessions : net'[s].chan = net[s].chan
      /\ \A s \in Sessions : s # op.s => net'[s] = net[s]
  BY <1>1, <1>4 DEF Connections
<1>6. CASE cc.tok = op.s /\ ok
  <2> DEFINE o == [op EXCEPT !.at = "refresh", !.snap = NoSnapshot]
  <2>1. o \in Connects /\ o.k = "connect" /\ o.s = op.s /\ o.at = "refresh"
    BY <1>2, ConnectMoves DEF Connects
  <2>2. cc' = Asked(cc, FALSE) /\ ops' = (ops \ {op}) \cup Started(cc) \cup {o}
    BY <1>6 DEF ConnectJoins
  <2>3. cc'.tok = cc.tok /\ cc'.res = cc.res /\ cc'.bound = cc.bound
    BY <1>1, <2>2, AskedTyped DEF SameView
  <2>4. cc.res # 0
    BY <1>2, <1>3, <1>6 DEF OrderInv, AttachInv, Made
  <2> HIDE DEF o
  <2>5. \A p \in ops' : p = o \/ (p \in ops /\ p # op) \/ (p.k = "refresh" /\ p.s = op.s)
    BY <1>1, <1>6, <2>2, StartedTyped
  <2>6. QED
    BY <1>2, <1>3, <1>4, <1>5, <1>6, <2>1, <2>3, <2>4, <2>5, OrderAdvances DEF Early
<1>7. ASSUME NEW o \in ops', ~(cc.tok = op.s /\ ok)
      PROVE  /\ o \in Ops /\ o.s # 0 /\ (o.k = "connect" => o \in ops)
             /\ o.k \in {"refresh", "close"} => net[o.s].chan # "none"
             /\ o.k = "close" /\ cc.tok # op.s => o.s # cc.tok
  <2>1. CASE o \in ops
    BY <2>1, OldOps
  <2>2. CASE o \notin ops
    <3>1. o \in Close(op.s)
      BY <1>7, <2>2 DEF ConnectJoins, Released
    <3>2. QED
      BY <1>2, <1>3, <3>1, NewCloses
  <2>3. QED
    BY <2>1, <2>2
<1>8. CASE cc.tok = op.s /\ ~ok
  <2>1. cc'.tok = 0 /\ cc'.bound = 0
    BY <1>8, DetachedIsDown DEF ConnectJoins
  <2>2. QED
    BY <1>3, <1>4, <1>5, <1>7, <1>8, <2>1, OrderFrame
<1>9. CASE cc.tok # op.s
  <2>1. cc' = cc
    BY <1>9 DEF ConnectJoins
  <2>2. QED
    BY <1>3, <1>4, <1>5, <1>7, <1>9, <2>1, OrderFrame
<1>10. QED
  BY <1>6, <1>8, <1>9

\* A step that changes one session that is made, and starts at most a refresh of
\* the controller's.
LEMMA OrderMade ==
    ASSUME Typed, OrderInv, count'.sessions = count.sessions, NEW s \in Sessions,
           net[s].chan # "none" \/ net' = net, NEW n, net' = net \/ net' = [net EXCEPT ![s] = n],
           n.chan # "none" \/ net' = net,
           \A o \in ops' : o \in ops \/ (o \in Ops /\ o.k = "verify")
                           \/ (o \in Ops /\ o.k = "refresh" /\ net[o.s].chan # "none"),
           cc'.tok = cc.tok /\ cc'.res = cc.res /\ cc'.bound = cc.bound
    PROVE  OrderInv'
<1>1. net \in [Sessions -> Connections]
  BY TypedParts
<1>2. /\ \A r \in Sessions : net'[r].chan = "none" <=> net[r].chan = "none"
      /\ \A r \in Sessions : net[r].chan = "none" => net'[r] = net[r]
  BY <1>1
<1>3. ASSUME NEW o \in ops'
      PROVE  /\ o \in Ops /\ (o.k = "connect" => o \in ops)
             /\ o.k \in {"refresh", "close"} => net[o.s].chan # "none"
             /\ o.k = "close" => o.s # cc'.tok
  <2>1. CASE o \in ops
    BY <2>1, OldOps
  <2>2. CASE o \notin ops
    BY <2>2
  <2>3. QED
    BY <2>1, <2>2
<1>4. QED
  BY <1>2, <1>3, OrderFrame

LEMMA OrderLinks ==
    ASSUME Typed, OrderInv, NEW s \in Sessions, LinkOpens(s) \/ LinkCloses(s)
    PROVE  OrderInv'
<1>1. CcTyped(cc) /\ net \in [Sessions -> Connections] /\ cc \in Controllers /\ CountTyped
  BY TypedParts DEF CcTyped
<1>2. count'.sessions = count.sessions /\ ops' = ops /\ net[s].chan # "none"
  BY <1>1 DEF LinkOpens, LinkCloses, CountTyped
<1>3. cc'.tok = cc.tok /\ cc'.res = cc.res /\ cc'.bound = cc.bound
  <2>1. cc' \in {cc, [cc EXCEPT !.data = TRUE], ForgetPeer(cc)}
    BY DEF LinkOpens, LinkCloses
  <2>2. QED
    BY <1>1, <2>1, ForgetTyped DEF Controllers
<1>4. PICK chan \in {"open", "idle"}, link \in Nat : net' = [net EXCEPT ![s].chan = chan, ![s].link = link]
  <2>1. CASE LinkOpens(s)
    <3>1. count.links + 1 \in Nat
      BY <1>1, BoundsAreNatural DEF CountTyped
    <3>2. QED
      BY <2>1, <3>1 DEF LinkOpens
  <2>2. CASE LinkCloses(s)
    <3>1. [net EXCEPT ![s].chan = "idle", ![s].link = net[s].link] = [net EXCEPT ![s].chan = "idle"]
      BY <1>1 DEF Connections
    <3>2. net[s].link \in Nat
      BY <1>1, BoundsAreNatural DEF Connections
    <3>3. QED
      BY <2>2, <3>1, <3>2 DEF LinkCloses
  <2>3. QED
    BY <2>1, <2>2
<1> DEFINE n == [net[s] EXCEPT !.chan = chan, !.link = link]
<1>5. n.chan # "none" /\ net' = [net EXCEPT ![s] = n]
  BY <1>1, <1>4 DEF Connections
<1> HIDE DEF n
<1>6. QED
  BY <1>2, <1>3, <1>5, OrderMade

LEMMA OrderHandshake ==
    ASSUME Typed, OrderInv,
           \/ ChallengeArrives \/ TimerFires \/ DeadlinePasses
           \/ \E good \in BOOLEAN : ProofArrives(good)
           \/ \E op \in ops : Verified(op)
    PROVE  OrderInv'
<1>1. CcTyped(cc) /\ SyncTyped(sync) /\ cc \in Controllers /\ CountTyped /\ sync \in Handshakes
  BY TypedParts DEF CcTyped, SyncTyped
<1>2. net' = net
  BY DEF ChallengeArrives, TimerFires, DeadlinePasses, ProofArrives, Verified
<1>3. count'.sessions = count.sessions
  BY <1>1 DEF ChallengeArrives, TimerFires, DeadlinePasses, ProofArrives, Verified, CountTyped
<1>4. cc'.tok = cc.tok /\ cc'.res = cc.res /\ cc'.bound = cc.bound
  <2>1. cc' = cc \/ \E op \in ops : Verified(op)
    BY DEF ChallengeArrives, TimerFires, DeadlinePasses, ProofArrives
  <2>2. ASSUME NEW op \in ops, Verified(op) PROVE cc'.tok = cc.tok /\ cc'.res = cc.res /\ cc'.bound = cc.bound
    <3>1. op.nonce \in 0..MaxLinks
      BY <2>2, OpTyped, OpKinds DEF Verified, Verifications
    <3>2. cc' \in {cc, MarkRevokedReady(cc), MarkReady(cc, op.nonce)}
      BY <2>2 DEF Verified
    <3>3. QED
      BY <1>1, <3>1, <3>2, RevokedTyped, ReadyTyped
  <2>3. QED
    BY <2>1, <2>2
<1>5. ASSUME NEW o \in ops' PROVE o \in ops \/ (o \in Ops /\ o.k = "verify")
  <2>1. CASE \E good \in BOOLEAN : ProofArrives(good)
    <3>1. PICK good \in BOOLEAN : ProofArrives(good)
      BY <2>1
    <3>2. cc.tok \in Sessions /\ sync.nonce \in 1..MaxLinks
      BY <1>1, <3>1 DEF ProofArrives, Channel, Controllers, Handshakes, Sessions
    <3>3. [k |-> "verify", s |-> cc.tok, nonce |-> sync.nonce, good |-> good] \in Verifications
      BY <3>2 DEF Verifications
    <3>4. QED
      BY <3>1, <3>3 DEF ProofArrives, Ops
  <2>2. CASE ~\E good \in BOOLEAN : ProofArrives(good)
    BY <1>5, <2>2 DEF ChallengeArrives, TimerFires, DeadlinePasses, Verified
  <2>3. QED
    BY <2>1, <2>2
<1>6. ASSUME NEW o \in ops'
      PROVE  /\ o \in Ops /\ (o.k = "connect" => o \in ops)
             /\ o.k \in {"refresh", "close"} => net[o.s].chan # "none"
             /\ o.k = "close" => o.s # cc'.tok
  BY <1>4, <1>5, OldOps
<1>7. QED
  BY <1>2, <1>3, <1>4, <1>6, OrderFrame

\* Who listens to a provider has a session with a transport.
LEMMA BoundIsMade ==
    ASSUME Typed, OrderInv, cc.bound # 0
    PROVE  cc.tok = cc.bound /\ net[cc.tok].chan # "none"
BY TypedParts DEF CcTyped, OrderInv, AttachInv, Made

LEMMA AskedFrame ==
    ASSUME Typed, NEW b \in BOOLEAN
    PROVE  /\ Asked(cc, b) \in Controllers
           /\ Asked(cc, b).tok = cc.tok /\ Asked(cc, b).res = cc.res /\ Asked(cc, b).bound = cc.bound
<1>1. cc \in Controllers /\ cc.task \in {0, cc.tok}
  BY TypedParts DEF CcTyped
<1>2. QED
  BY <1>1, AskedTyped DEF SameView

LEMMA OrderSignals ==
    ASSUME Typed, OrderInv, NEW s \in Sessions,
           PeerAppears(s) \/ PeerDisappears(s) \/ OfferArrives(s) \/ ProviderReconnects(s)
    PROVE  OrderInv'
<1>1. CcTyped(cc) /\ net \in [Sessions -> Connections] /\ cc \in Controllers /\ net[s] \in Connections /\ s # 0
  BY TypedParts DEF CcTyped, Sessions
<1>2. cc.bound = s /\ cc.tok = s /\ net[s].chan # "none" /\ count' = count
  BY <1>1, BoundIsMade DEF PeerAppears, PeerDisappears, OfferArrives, ProviderReconnects
<1>3. cc'.tok = cc.tok /\ cc'.res = cc.res /\ cc'.bound = cc.bound
  <2>1. cc' \in {cc, Asked(cc, TRUE), Asked(cc, FALSE), ForgetPeer(cc)}
    BY DEF PeerAppears, PeerDisappears, OfferArrives, ProviderReconnects
  <2>2. QED
    BY <1>1, <2>1, ForgetTyped, AskedFrame
<1>4. ASSUME NEW o \in ops' PROVE o \in ops \/ (o \in Ops /\ o.k = "refresh" /\ net[o.s].chan # "none")
  <2>1. ops' \in {ops, ops \cup Started(cc)}
    BY DEF PeerAppears, PeerDisappears, OfferArrives, ProviderReconnects
  <2>2. QED
    BY <1>1, <1>2, <1>4, <2>1, NewRefreshes
<1>5. \E n : n.chan # "none" /\ (net' = net \/ net' = [net EXCEPT ![s] = n])
  <2>1. CASE PeerAppears(s)
    <3> DEFINE n == [net[s] EXCEPT !.sees = TRUE]
               m == IF Allowed(cc) THEN Trying(n) ELSE n
    <3>1. n \in Connections /\ n.chan # "none"
      BY <1>1, <1>2 DEF Connections
    <3>2. net' = [net EXCEPT ![s] = m]
      BY <2>1 DEF PeerAppears
    <3> HIDE DEF n
    <3>3. m.chan # "none"
      BY <3>1, TryingTyped DEF Kept
    <3> HIDE DEF m
    <3>4. QED
      BY <3>2, <3>3
  <2>2. CASE PeerDisappears(s)
    <3> DEFINE m == LeftPeer(cc, net[s])
               n == [m EXCEPT !.sees = FALSE]
    <3>1. m \in Connections /\ m.chan # "none"
      BY <1>1, <1>2, LeftTyped DEF Kept
    <3>2. net' = [net EXCEPT ![s] = n]
      BY <2>2 DEF PeerDisappears
    <3> HIDE DEF m
    <3>3. n.chan # "none"
      BY <3>1 DEF Connections
    <3> HIDE DEF n
    <3>4. QED
      BY <3>2, <3>3
  <2>3. CASE OfferArrives(s)
    <3>1. Trying(net[s]).chan # "none"
      BY <1>1, <1>2, TryingTyped DEF Kept
    <3>2. QED
      BY <2>3, <3>1 DEF OfferArrives
  <2>4. CASE ProviderReconnects(s)
    BY <1>2, <2>4 DEF ProviderReconnects
  <2>5. QED
    BY <2>1, <2>2, <2>3, <2>4
<1>6. QED
  BY <1>2, <1>3, <1>4, <1>5, OrderMade

LEMMA OrderStore ==
    ASSUME Typed, OrderInv, NEW g \in Later(store), NEW arrived \in BOOLEAN, StoreChanges(g, arrived)
    PROVE  OrderInv'
<1>1. CcTyped(cc) /\ net \in [Sessions -> Connections] /\ cc \in Controllers /\ CountTyped
  BY TypedParts DEF CcTyped
<1>2. g.trust \in Trusts
  BY LaterTyped DEF StoreChanges, Snapshots
<1> DEFINE heard == IF cc.bound = 0 THEN cc ELSE Asked(cc, TRUE)
           c == IF arrived THEN Install(heard, g.trust) ELSE heard
<1>3. heard \in Controllers /\ heard.tok = cc.tok /\ heard.res = cc.res /\ heard.bound = cc.bound
  BY <1>1, AskedFrame
<1>4. cc' = c /\ count'.sessions = count.sessions
  BY <1>1 DEF StoreChanges, CountTyped
<1>5. c \in Controllers /\ c.tok = cc.tok /\ c.res = cc.res /\ c.bound = cc.bound
  <2> HIDE DEF heard
  <2>1. QED
    BY <1>2, <1>3, InstallTyped
<1>6. ASSUME NEW o \in ops' PROVE o \in ops \/ (o \in Ops /\ o.k = "refresh" /\ net[o.s].chan # "none")
  <2>1. o \in ops \/ (cc.bound # 0 /\ o \in Started(cc))
    BY DEF StoreChanges
  <2>2. QED
    BY <1>1, <2>1, BoundIsMade, NewRefreshes
<1>7. CASE ~arrived
  <2>1. net' = net
    BY <1>7 DEF StoreChanges
  <2>2. ASSUME NEW o \in ops'
        PROVE  /\ o \in Ops /\ (o.k = "connect" => o \in ops)
               /\ o.k \in {"refresh", "close"} => net[o.s].chan # "none"
               /\ o.k = "close" => o.s # cc'.tok
    BY <1>4, <1>5, <1>6, OldOps
  <2>3. QED
    BY <1>4, <1>5, <2>1, <2>2, OrderFrame
<1>8. CASE arrived
  <2> DEFINE m == IF g.trust = "unknown" THEN Unlinked(net[cc.res]) ELSE net[cc.res]
             n == ConnectPresent(c, m)
  <2>1. cc.res \in Sessions /\ net[cc.res].chan = "open"
    BY <1>1, <1>8 DEF StoreChanges, Channel, Controllers, Sessions
  <2>2. net' = [net EXCEPT ![cc.res] = n]
    BY <1>4, <1>8 DEF StoreChanges, heard
  <2>3. m \in Connections /\ m.chan # "none"
    BY <1>1, <2>1, UnlinkedTyped DEF Kept
  <2> HIDE DEF m, c
  <2>4. n.chan # "none"
    BY <1>5, <2>3, PresentTyped DEF Kept
  <2> HIDE DEF n
  <2>5. QED
    BY <1>4, <1>5, <1>6, <2>1, <2>2, <2>4, OrderMade
<1>9. QED
  BY <1>7, <1>8

LEMMA OrderRefreshes ==
    ASSUME Typed, OrderInv, NEW op \in ops, RefreshReads(op) \/ RefreshInstalls(op) \/ RefreshMoves(op)
    PROVE  OrderInv'
<1>1. CcTyped(cc) /\ net \in [Sessions -> Connections] /\ cc \in Controllers /\ cc.task \in {0, cc.tok}
      /\ store \in Snapshots /\ ops \subseteq Ops
  BY TypedParts DEF CcTyped
<1>2. op \in Refreshes /\ op \in Ops /\ op.k = "refresh" /\ op.s \in Sessions /\ net[op.s].chan # "none"
  BY OpKinds, OldOps DEF RefreshReads, RefreshInstalls, RefreshMoves
<1>3. op.snap.trust \in Trusts /\ op.snap.rdv \in 0..(MaxChanges + 1) /\ net[op.s] \in Connections /\ count' = count
  BY <1>1, <1>2, SnapTyped
      DEF RefreshReads, RefreshInstalls, RefreshMoves, RefreshReturns
<1>4. ASSUME cc'.tok = cc.tok /\ cc'.res = cc.res /\ cc'.bound = cc.bound,
             \A o \in ops' : o \in ops \/ (o \in Refreshes /\ o.k = "refresh" /\ o.s = op.s),
             \E n : n.chan # "none" /\ (net' = net \/ net' = [net EXCEPT ![op.s] = n])
      PROVE  OrderInv'
  <2>1. \A o \in ops' : o \in ops \/ (o \in Ops /\ o.k = "refresh" /\ net[o.s].chan # "none")
    BY <1>2, <1>4 DEF Ops
  <2>2. PICK n : n.chan # "none" /\ (net' = net \/ net' = [net EXCEPT ![op.s] = n])
    BY <1>4
  <2>3. QED
    BY <1>2, <1>3, <1>4, <2>1, <2>2, OrderMade
<1>5. ASSUME RefreshReturns(op) PROVE OrderInv'
  <2>1. SameView(cc, EndedTask(cc, op))
    BY <1>1, EndedTyped
  <2>2. QED
    BY <1>2, <1>4, <1>5, <2>1 DEF RefreshReturns, SameView
<1>6. CASE RefreshReads(op)
  <2> DEFINE o == [op EXCEPT !.at = "install", !.snap = store]
  <2>1. o \in Refreshes /\ o.k = "refresh" /\ o.s = op.s
    BY <1>1, <1>2, RefreshMovesOn
  <2>2. QED
    BY <1>2, <1>4, <1>6, <2>1 DEF RefreshReads
<1>7. CASE RefreshInstalls(op) /\ ~RefreshReturns(op)
  <2> DEFINE o == [op EXCEPT !.at = "send"]
             c == Install(cc, op.snap.trust)
             m == IF cc.data /\ op.snap.trust = "unknown" THEN Unlinked(net[op.s]) ELSE net[op.s]
             n == ConnectPresent(c, m)
  <2>1. o \in Refreshes /\ o.k = "refresh" /\ o.s = op.s
    BY <1>2, RefreshMovesOn
  <2>2. /\ cc' = c /\ ops' = (ops \ {op}) \cup {o}
        /\ net' = IF cc.res = 0 THEN net ELSE [net EXCEPT ![op.s] = n]
    BY <1>7 DEF RefreshInstalls
  <2>3. c \in Controllers /\ c.tok = cc.tok /\ c.res = cc.res /\ c.bound = cc.bound
    BY <1>1, <1>3, InstallTyped
  <2>4. m \in Connections /\ m.chan # "none"
    BY <1>2, <1>3, UnlinkedTyped DEF Kept
  <2> HIDE DEF m, c, o
  <2>5. n.chan # "none"
    BY <2>3, <2>4, PresentTyped DEF Kept
  <2> HIDE DEF n
  <2>6. QED
    BY <1>4, <2>1, <2>2, <2>3, <2>5
<1>8. CASE RefreshMoves(op) /\ ~RefreshReturns(op)
  <2>1. CASE op.snap.rdv = cc.rdv
    <3>1. IterationEnds(cc, op, ops \ {op}) /\ net' = net
      BY <1>8, <2>1 DEF RefreshMoves
    <3>2. SameView(cc, cc') /\ \A o \in ops' : o \in ops \/ (o \in Refreshes /\ o.k = "refresh" /\ o.s = op.s)
      BY <1>1, <1>2, <3>1, IterationTyped
    <3>3. QED
      BY <1>2, <1>4, <3>1, <3>2 DEF SameView
  <2>2. CASE op.snap.rdv # cc.rdv
    <3> DEFINE o == [op EXCEPT !.at = "rejoin", !.snap = NoSnapshot]
               c == IF net[op.s].sees /\ Allowed(cc) THEN ForgetPeer(cc) ELSE cc
               n == LeftPeer(cc, net[op.s])
               m == [n EXCEPT !.sig = "joining", !.room = op.snap.rdv, !.sees = FALSE]
    <3>1. o \in Refreshes /\ o.k = "refresh" /\ o.s = op.s
      BY <1>2, RefreshMovesOn
    <3>2. c \in Controllers /\ c.tok = cc.tok /\ c.res = cc.res /\ c.bound = cc.bound
      BY <1>1, ForgetTyped
    <3>3. n \in Connections /\ n.chan # "none"
      BY <1>1, <1>2, <1>3, LeftTyped DEF Kept
    <3>4. cc' = [c EXCEPT !.rdv = op.snap.rdv] /\ net' = [net EXCEPT ![op.s] = m] /\ ops' = (ops \ {op}) \cup {o}
      BY <1>8, <2>2 DEF RefreshMoves
    <3> HIDE DEF c, n, o
    <3>5. cc'.tok = cc.tok /\ cc'.res = cc.res /\ cc'.bound = cc.bound
      BY <3>2, <3>4 DEF Controllers
    <3>6. m.chan # "none"
      BY <3>3 DEF Connections
    <3> HIDE DEF m
    <3>7. QED
      BY <1>4, <3>1, <3>4, <3>5, <3>6
  <2>3. QED
    BY <2>1, <2>2
<1>9. QED
  BY <1>5, <1>6, <1>7, <1>8

LEMMA OrderRejoins ==
    ASSUME Typed, OrderInv, NEW op \in ops, NEW ok \in BOOLEAN, RefreshJoins(op, ok)
    PROVE  OrderInv'
<1>1. CcTyped(cc) /\ net \in [Sessions -> Connections] /\ cc \in Controllers /\ cc.task \in {0, cc.tok}
      /\ ops \subseteq Ops /\ cc.res \in 0..MaxSessions
  BY TypedParts DEF CcTyped, Controllers
<1>2. op \in Refreshes /\ op.s \in Sessions /\ net[op.s].chan # "none"
  BY OpKinds, OldOps DEF RefreshJoins
<1>3. count'.sessions = count.sessions
  <2>1. count' = count \/ (count.faults < MaxFaults /\ count' = [count EXCEPT !.faults = @ + 1])
    BY DEF RefreshJoins
  <2>2. QED
    BY <2>1, FaultCounted DEF RefreshJoins
<1>4. /\ \A s \in Sessions : net'[s].chan = net[s].chan
      /\ \A s \in Sessions : s # op.s => net'[s] = net[s]
  BY <1>1 DEF RefreshJoins, Connections
<1> DEFINE waiting == {o \in ops : o.k = "connect" /\ o.s = op.s}
<1>5. ASSUME cc'.tok = cc.tok /\ cc'.res = cc.res /\ cc'.bound = cc.bound,
             \A o \in ops' : o \in ops \/ (o \in Refreshes /\ o.k = "refresh" /\ o.s = op.s)
      PROVE  OrderInv'
  <2>1. ASSUME NEW o \in ops'
        PROVE  /\ o \in Ops /\ (o.k = "connect" => o \in ops)
               /\ o.k \in {"refresh", "close"} => net[o.s].chan # "none"
               /\ o.k = "close" => o.s # cc'.tok
    <3>1. CASE o \in ops
      BY <1>5, <3>1, OldOps
    <3>2. CASE o \notin ops
      BY <1>2, <1>5, <3>2 DEF Ops
    <3>3. QED
      BY <3>1, <3>2
  <2>2. QED
    BY <1>2, <1>3, <1>4, <1>5, <2>1, OrderFrame
<1>6. CASE cc.tok = op.s /\ ok
  <2>1. IterationEnds(cc, op, ops \ {op})
    BY <1>6 DEF RefreshJoins
  <2>2. SameView(cc, cc') /\ \A o \in ops' : o \in ops \/ (o \in Refreshes /\ o.k = "refresh" /\ o.s = op.s)
    BY <1>1, <1>2, <2>1, IterationTyped
  <2>3. QED
    BY <1>5, <2>2 DEF SameView
<1>7. CASE ~(cc.tok = op.s /\ ok) /\ cc.tok = op.s /\ waiting # {}
  <2>1. cc' = Detached /\ ops' = (ops \ ({op} \cup waiting)) \cup Close(cc.res)
    BY <1>7 DEF RefreshJoins
  <2>2. cc.res # 0 => net[cc.res].chan # "none"
    BY <1>1, <1>2, <1>7 DEF CcTyped
  <2>3. ASSUME NEW o \in ops'
        PROVE  /\ o \in Ops /\ o.s # 0 /\ (o.k = "connect" => o \in ops)
               /\ o.k \in {"refresh", "close"} => net[o.s].chan # "none"
    <3>1. CASE o \in ops
      BY <3>1, OldOps
    <3>2. CASE o \notin ops
      BY <1>1, <2>1, <2>2, <3>2, NewCloses
    <3>3. QED
      BY <3>1, <3>2
  <2>4. QED
    BY <1>2, <1>3, <1>4, <2>1, <2>3, DetachedIsDown, OrderFrame
<1>8. CASE ~(cc.tok = op.s /\ ok) /\ ~(cc.tok = op.s /\ waiting # {})
  <2>1. cc' = EndedTask(cc, op) /\ ops' = ops \ {op}
    BY <1>8 DEF RefreshJoins
  <2>2. SameView(cc, EndedTask(cc, op))
    BY <1>1, EndedTyped
  <2>3. QED
    BY <1>5, <2>1, <2>2 DEF SameView
<1>9. QED
  BY <1>6, <1>7, <1>8

----------------------------------------------------------------------------
(* What is made is released.                                               *)

Handles(o, s) ==
    \/ o.k = "close" /\ o.s = s
    \/ o.k = "connect" /\ o.at \in Binding /\ o.s = s
    \/ o.k = "connect" /\ o.at = "closing" /\ o.old = s
Handled(s) == \E o \in ops : Handles(o, s)
Ended(s) == net[s].sig = "off" /\ net[s].chan = "gone"

LEMMA ReleaseRule == ReleaseInv <=> \A s \in Sessions : ~Made(s) \/ Ended(s) \/ cc.res = s \/ Handled(s)
BY DEF ReleaseInv, Handled, Handles, Ended

LEMMA ReleaseFrame ==
    ASSUME ReleaseInv,
           \A s \in Sessions : net[s].chan = "none" => net'[s].chan = "none" \/ cc'.res = s,
           \A s \in Sessions : Ended(s) => Ended(s)' \/ cc'.res = s \/ Handled(s)',
           \A s \in Sessions : cc.res = s => cc'.res = s \/ Handled(s)',
           \A s \in Sessions : Handled(s) => Handled(s)' \/ cc'.res = s \/ Ended(s)'
    PROVE  ReleaseInv'
<1>1. \A s \in Sessions : Made(s)' \/ net'[s].chan = "none"
  BY DEF Made
<1>2. \A s \in Sessions : ~Made(s)' \/ Ended(s)' \/ cc'.res = s \/ Handled(s)'
  BY ReleaseRule DEF Made
<1>3. QED
  BY <1>2 DEF ReleaseInv, Handled, Handles, Ended

LEMMA HandledKept ==
    ASSUME NEW s, Handled(s),
           \A o \in ops : Handles(o, s) => o \in ops' \/ \E p \in ops' : Handles(p, s)
    PROVE  Handled(s)'
BY DEF Handled, Handles

LEMMA CloseHandles ==
    ASSUME NEW s, s # 0, Close(s) \subseteq ops'
    PROVE  Handled(s)'
<1>1. [k |-> "close", s |-> s] \in ops'
  BY DEF Close
<1>2. QED
  BY <1>1 DEF Handled, Handles

\* A step that leaves everything a session waits for in flight.
LEMMA ReleaseStays ==
    ASSUME ReleaseInv, cc'.res = cc.res,
           \A s \in Sessions : net[s].chan = "none" => net'[s].chan = "none",
           \A s \in Sessions : Ended(s) => Ended(s)' \/ cc.res = s,
           \A o \in ops : o.k \in {"connect", "close"} => o \in ops'
    PROVE  ReleaseInv'
<1>1. \A s \in Sessions : Handled(s) => Handled(s)'
  BY DEF Handled, Handles
<1>2. QED
  BY <1>1, ReleaseFrame

LEMMA ReleaseSessions ==
    ASSUME Typed, OrderInv, ReleaseInv, Connect \/ Disconnect \/ \E op \in ops : Closed(op)
    PROVE  ReleaseInv'
<1>1. net \in [Sessions -> Connections]
  BY TypedParts
<1>2. CASE Connect
  <2> DEFINE new == [k |-> "connect", s |-> count.sessions + 1, at |-> "closing", old |-> cc.res, snap |-> NoSnapshot]
  <2>1. net' = net /\ ops' = ops \cup {new}
    BY <1>2 DEF Connect
  <2>2. Handles(new, cc.res)
    BY DEF Handles
  <2> HIDE DEF new
  <2>3. \A s \in Sessions : cc.res = s => Handled(s)'
    BY <2>1, <2>2 DEF Handled, Handles
  <2>4. \A s \in Sessions : (Handled(s) => Handled(s)') /\ (Ended(s) => Ended(s)')
    BY <2>1 DEF Handled, Handles, Ended
  <2>5. QED
    BY <2>1, <2>3, <2>4, ReleaseFrame
<1>3. CASE Disconnect
  <2>1. net' = net /\ ops' = ops \cup Close(cc.res)
    BY <1>3 DEF Disconnect
  <2>2. ASSUME NEW s \in Sessions, cc.res = s PROVE Handled(s)'
    BY <2>1, <2>2, CloseHandles DEF Sessions
  <2>3. \A s \in Sessions : (Handled(s) => Handled(s)') /\ (Ended(s) => Ended(s)')
    BY <2>1 DEF Handled, Handles, Ended
  <2>4. QED
    BY <2>1, <2>2, <2>3, ReleaseFrame
<1>4. ASSUME NEW op \in ops, Closed(op) PROVE ReleaseInv'
  <2>1. op.k = "close" /\ ops' = ops \ {op} /\ net' = [net EXCEPT ![op.s] = Gone] /\ cc' = cc /\ op.s \in Sessions
    BY <1>4, OldOps DEF Closed
  <2>2. Ended(op.s)' /\ net[op.s].chan # "none" /\ \A s \in Sessions : s # op.s => net'[s] = net[s]
    BY <1>1, <2>1, OldOps DEF Ended, Gone
  <2>3. ASSUME NEW s \in Sessions, Handled(s) PROVE Handled(s)' \/ Ended(s)'
    <3>1. CASE s = op.s
      BY <2>2, <3>1
    <3>2. CASE s # op.s
      <4>1. PICK o \in ops : Handles(o, s)
        BY <2>3 DEF Handled
      <4>2. o \in ops'
        BY <2>1, <3>2, <4>1 DEF Handles
      <4>3. QED
        BY <4>1, <4>2 DEF Handled, Handles
    <3>3. QED
      BY <3>1, <3>2
  <2>4. \A s \in Sessions : Ended(s) => Ended(s)'
    BY <2>2 DEF Ended
  <2>5. QED
    BY <2>1, <2>2, <2>3, <2>4, ReleaseFrame
<1>5. QED
  BY <1>2, <1>3, <1>4

\* A connect that leaves: what it made is closed.
LEMMA ReleaseLeaves ==
    ASSUME Typed, OrderInv, ReleaseInv, NEW op \in ops, op.k = "connect", UNCHANGED cc,
           \A s \in Sessions : net'[s].chan = net[s].chan,
           \A s \in Sessions : s # op.s => net'[s] = net[s],
           net' = net \/ op.at \in Binding,
           op.at # "closing",
           ops' = (ops \ {op}) \cup Released(op)
    PROVE  ReleaseInv'
<1>1. op \in Connects /\ op.s \in Sessions /\ op.s # 0 /\ (Made(op.s) <=> op.at \notin Early)
  BY OpTyped, OpKinds DEF OrderInv, CreationInv
<1>2. op.at \in Binding => Handled(op.s)'
  <2>1. ASSUME op.at \in Binding PROVE Handled(op.s)'
    <3>1. net[op.s] # NotCreated
      BY <1>1, <2>1 DEF Made, NotCreated, Binding, Early
    <3>2. QED
      BY <1>1, <3>1, CloseHandles DEF Released
  <2>2. QED
    BY <2>1
<1>3. ASSUME NEW s \in Sessions, Handled(s) PROVE Handled(s)'
  <2>1. PICK o \in ops : Handles(o, s)
    BY <1>3 DEF Handled
  <2>2. CASE o = op
    BY <1>2, <2>1, <2>2 DEF Handles
  <2>3. CASE o # op
    BY <2>1, <2>3 DEF Handled, Handles
  <2>4. QED
    BY <2>2, <2>3
<1>4. \A s \in Sessions : Ended(s) => Ended(s)' \/ Handled(s)'
  BY <1>2 DEF Ended
<1>5. QED
  BY <1>3, <1>4, ReleaseFrame

LEMMA ReleaseConnects ==
    ASSUME Typed, OrderInv, ReleaseInv, NEW op \in ops,
           \/ ConnectCloses(op) \/ ConnectInfers(op) \/ ConnectCreates(op) \/ ConnectBinds(op)
           \/ ConnectReturns(op)
    PROVE  ReleaseInv'
<1>1. CcTyped(cc) /\ net \in [Sessions -> Connections] /\ cc \in Controllers
  BY TypedParts DEF CcTyped
<1>2. op \in Connects /\ op \in Ops /\ op.k = "connect" /\ op.s \in Sessions /\ op.s # 0
  BY OpTyped, OpKinds DEF ConnectCloses, ConnectInfers, ConnectCreates, ConnectBinds, ConnectReturns
<1>3. net[op.s].chan = "none" <=> op.at \in Early
  BY <1>2 DEF OrderInv, CreationInv, Made
<1>4. cc.tok = op.s => (cc.res # 0 <=> op.at \notin Early) /\ (cc.res # 0 => cc.res = op.s)
  BY <1>1, <1>2, <1>3 DEF OrderInv, AttachInv, Made, CcTyped
\* The others keep what they handle.
<1>5. ASSUME NEW o, ops' = (ops \ {op}) \cup {o}, NEW s \in Sessions, Handled(s), ~Handles(op, s) \/ Handles(o, s)
      PROVE  Handled(s)'
  <2>1. PICK p \in ops : Handles(p, s)
    BY <1>5 DEF Handled
  <2>2. CASE p = op
    BY <1>5, <2>1, <2>2 DEF Handled, Handles
  <2>3. CASE p # op
    BY <1>5, <2>1, <2>3 DEF Handled, Handles
  <2>4. QED
    BY <2>2, <2>3
<1>6. CASE ConnectCloses(op)
  <2> DEFINE o == [op EXCEPT !.at = "infer", !.old = 0]
  <2>1. /\ op.at = "closing" /\ cc' = [cc EXCEPT !.tok = op.s] /\ ops' = (ops \ {op}) \cup {o}
        /\ net' = (IF op.old = 0 THEN net ELSE [net EXCEPT ![op.old] = Gone])
    BY <1>6 DEF ConnectCloses
  <2>2. cc'.res = cc.res
    BY <1>1, <2>1 DEF Controllers
  <2> HIDE DEF o
  <2>3. \A s \in Sessions : Handles(op, s) => s = op.old
    BY <1>2, <2>1 DEF Handles, Binding
  <2>4. op.old # 0 => op.old \in Sessions /\ net[op.old].chan # "none"
    BY <1>2, <2>1 DEF OrderInv, CreationInv, Made, Connects, Sessions
  <2>5. \A s \in Sessions : s # op.old => net'[s] = net[s]
    BY <1>1, <2>1
  <2>6. op.old # 0 => Ended(op.old)'
    BY <1>1, <2>1, <2>4 DEF Ended, Gone
  <2>7. \A s \in Sessions : Handled(s) => Handled(s)' \/ Ended(s)'
    BY <1>5, <2>1, <2>3, <2>6 DEF Sessions
  <2>8. \A s \in Sessions : Ended(s) => Ended(s)'
    BY <2>5, <2>6 DEF Ended, Sessions
  <2>9. \A s \in Sessions : net[s].chan = "none" => net'[s].chan = "none"
    BY <2>4, <2>5 DEF Sessions
  <2>10. QED
    BY <2>2, <2>7, <2>8, <2>9, ReleaseFrame
<1>7. ASSUME Aborted(op), op.at # "closing" PROVE ReleaseInv'
  BY <1>2, <1>7, ReleaseLeaves DEF Aborted
<1>8. CASE ConnectInfers(op) /\ ~Aborted(op)
  <2> DEFINE o == [op EXCEPT !.at = "network", !.snap = store]
  <2>1. op.at = "infer" /\ cc' = Configured(cc, store) /\ ops' = (ops \ {op}) \cup {o} /\ net' = net
    BY <1>8 DEF ConnectInfers
  <2>2. cc'.res = cc.res
    BY <1>1, <2>1 DEF Configured, Controllers
  <2> HIDE DEF o
  <2>3. \A s \in Sessions : ~Handles(op, s)
    BY <1>2, <2>1 DEF Handles, Binding
  <2>4. QED
    BY <1>5, <2>1, <2>2, <2>3, ReleaseFrame DEF Ended
<1>9. CASE ConnectCreates(op) /\ ~Aborted(op)
  <2> DEFINE o == [op EXCEPT !.at = "attach"]
  <2>1. /\ op.at = "network" /\ cc' = [cc EXCEPT !.res = op.s] /\ ops' = (ops \ {op}) \cup {o} /\ cc.tok = op.s
        /\ net' = [net EXCEPT ![op.s].sig = "new", ![op.s].chan = "idle"]
    BY <1>9 DEF ConnectCreates
  <2>2. cc'.res = op.s /\ cc.res = 0 /\ \A s \in Sessions : s # op.s => net'[s] = net[s]
    BY <1>1, <1>2, <1>4, <2>1 DEF Controllers, Early
  <2> HIDE DEF o
  <2>3. \A s \in Sessions : ~Handles(op, s)
    BY <1>2, <2>1 DEF Handles, Binding
  <2>4. \A s \in Sessions : Handled(s) => Handled(s)'
    BY <1>5, <2>1, <2>3
  <2>5. \A s \in Sessions : Ended(s) => Ended(s)' \/ cc'.res = s
    BY <2>2 DEF Ended
  <2>6. \A s \in Sessions : s # 0
    BY DEF Sessions
  <2>7. QED
    BY <2>2, <2>4, <2>5, <2>6, ReleaseFrame
<1>10. CASE ConnectBinds(op) /\ ~Aborted(op)
  <2> DEFINE o == [op EXCEPT !.at = "join"]
  <2>1. /\ op.at = "attach" /\ cc' = [cc EXCEPT !.bound = op.s] /\ ops' = (ops \ {op}) \cup {o} /\ cc.tok = op.s
        /\ net' = [net EXCEPT ![op.s].sig = "joining", ![op.s].room = op.snap.rdv]
    BY <1>10 DEF ConnectBinds
  <2>2. cc'.res = cc.res /\ cc.res = op.s
    BY <1>1, <1>4, <2>1 DEF Controllers, Early
  <2>3. o.k = "connect" /\ o.at = "join" /\ o.s = op.s
    BY <1>2 DEF Connects
  <2>4. \A s \in Sessions : net'[s].chan = net[s].chan /\ (s # op.s => net'[s] = net[s])
    BY <1>1, <2>1 DEF Connections
  <2> HIDE DEF o
  <2>5. \A s \in Sessions : Handles(op, s) => Handles(o, s)
    BY <1>2, <2>1, <2>3 DEF Handles, Binding
  <2>6. \A s \in Sessions : Handled(s) => Handled(s)'
    BY <1>5, <2>1, <2>5
  <2>7. \A s \in Sessions : Ended(s) => Ended(s)' \/ cc'.res = s
    BY <2>2, <2>4 DEF Ended
  <2>8. QED
    BY <2>2, <2>4, <2>6, <2>7, ReleaseFrame
<1>11. CASE ConnectReturns(op)
  <2>1. op.at = "refresh" /\ ops' = ops \ {op} /\ net' = net /\ cc' = cc
    BY <1>11 DEF ConnectReturns
  <2>2. \A s \in Sessions : Handled(s) => Handled(s)'
    BY <1>2, <2>1 DEF Handled, Handles, Binding
  <2>3. QED
    BY <2>1, <2>2, ReleaseFrame DEF Ended
<1>12. QED
  BY <1>6, <1>7, <1>8, <1>9, <1>10, <1>11 DEF ConnectInfers, ConnectCreates, ConnectBinds

LEMMA ReleaseJoins ==
    ASSUME Typed, OrderInv, ReleaseInv, NEW op \in ops, NEW ok \in BOOLEAN, ConnectJoins(op, ok)
    PROVE  ReleaseInv'
<1>1. CcTyped(cc) /\ net \in [Sessions -> Connections] /\ cc \in Controllers /\ cc.task \in {0, cc.tok}
  BY TypedParts DEF CcTyped
<1>2. op \in Connects /\ op.k = "connect" /\ op.at = "join" /\ op.s \in Sessions /\ op.s # 0
  BY OpTyped, OpKinds DEF ConnectJoins
<1>3. cc.tok = op.s => cc.res = op.s
  BY <1>1, <1>2 DEF OrderInv, CreationInv, AttachInv, Made, CcTyped, Early
<1>4. /\ \A s \in Sessions : net'[s].chan = net[s].chan
      /\ \A s \in Sessions : s # op.s => net'[s] = net[s]
  BY <1>1 DEF ConnectJoins, Connections
<1>5. \A s \in Sessions : s # op.s => (Ended(s) => Ended(s)')
  BY <1>4 DEF Ended
<1>6. ASSUME NEW s \in Sessions, s # op.s, Handled(s), ops \ {op} \subseteq ops' PROVE Handled(s)'
  BY <1>2, <1>6 DEF Handled, Handles, Binding
<1>7. CASE cc.tok = op.s /\ ok
  <2>1. cc' = Asked(cc, FALSE) /\ ops \ {op} \subseteq ops'
    BY <1>7 DEF ConnectJoins
  <2>2. cc'.res = op.s
    BY <1>1, <1>3, <1>7, <2>1, AskedTyped DEF SameView
  <2>3. QED
    BY <1>3, <1>4, <1>5, <1>6, <1>7, <2>1, <2>2, ReleaseFrame
<1>8. CASE cc.tok = op.s /\ ~ok
  <2>1. ops \ {op} \subseteq ops' /\ Close(op.s) \subseteq ops'
    BY <1>8 DEF ConnectJoins
  <2>2. Handled(op.s)'
    BY <1>2, <2>1, CloseHandles
  <2>3. QED
    BY <1>3, <1>4, <1>5, <1>6, <1>8, <2>1, <2>2, ReleaseFrame
<1>9. CASE cc.tok # op.s
  BY <1>2, <1>4, <1>9, ReleaseLeaves DEF ConnectJoins, Binding
<1>10. QED
  BY <1>7, <1>8, <1>9

\* Callbacks come from transports and providers that are alive, and the handshake
\* changes none of them.
LEMMA ReleaseCallbacks ==
    ASSUME Typed, OrderInv, ReleaseInv,
           \/ \E s \in Sessions : LinkOpens(s) \/ LinkCloses(s)
           \/ \E s \in Sessions : PeerAppears(s) \/ PeerDisappears(s) \/ OfferArrives(s) \/ ProviderReconnects(s)
           \/ ChallengeArrives \/ TimerFires \/ DeadlinePasses
           \/ \E good \in BOOLEAN : ProofArrives(good)
           \/ \E op \in ops : Verified(op)
    PROVE  ReleaseInv'
<1>1. CcTyped(cc) /\ net \in [Sessions -> Connections] /\ cc \in Controllers
  BY TypedParts DEF CcTyped
<1>2. cc'.res = cc.res
  <2>1. \A s \in Sessions : LinkOpens(s) \/ LinkCloses(s) => cc'.res = cc.res
    <3>1. \A s \in Sessions : LinkOpens(s) \/ LinkCloses(s) =>
             cc' \in {cc, [cc EXCEPT !.data = TRUE], ForgetPeer(cc)}
      BY DEF LinkOpens, LinkCloses
    <3>2. [cc EXCEPT !.data = TRUE].res = cc.res /\ ForgetPeer(cc).res = cc.res
      BY <1>1, ForgetTyped DEF Controllers
    <3>3. QED
      BY <3>1, <3>2
  <2>2. \A s \in Sessions :
           PeerAppears(s) \/ PeerDisappears(s) \/ OfferArrives(s) \/ ProviderReconnects(s) => cc'.res = cc.res
    <3>1. \A s \in Sessions :
             PeerAppears(s) \/ PeerDisappears(s) \/ OfferArrives(s) \/ ProviderReconnects(s) =>
                cc' \in {cc, Asked(cc, TRUE), Asked(cc, FALSE), ForgetPeer(cc)}
      BY DEF PeerAppears, PeerDisappears, OfferArrives, ProviderReconnects
    <3>2. QED
      BY <1>1, <3>1, ForgetTyped, AskedFrame
  <2>3. \A op \in ops : Verified(op) => cc'.res = cc.res
    <3>1. ASSUME NEW op \in ops, Verified(op) PROVE cc'.res = cc.res
      <4>1. op.nonce \in 0..MaxLinks /\ cc' \in {cc, MarkRevokedReady(cc), MarkReady(cc, op.nonce)}
        BY <3>1, OpTyped, OpKinds DEF Verified, Verifications
      <4>2. QED
        BY <1>1, <4>1, RevokedTyped, ReadyTyped
    <3>2. QED
      BY <3>1
  <2>4. QED
    BY <2>1, <2>2, <2>3 DEF ChallengeArrives, TimerFires, DeadlinePasses, ProofArrives
<1>3. \A o \in ops : o.k \in {"connect", "close"} => o \in ops'
  BY DEF LinkOpens, LinkCloses, PeerAppears, PeerDisappears, OfferArrives, ProviderReconnects, ChallengeArrives,
         TimerFires, DeadlinePasses, ProofArrives, Verified
<1>4. \/ net' = net
      \/ \E s \in Sessions :
            net[s].chan # "none" /\ ~Ended(s) /\ \A r \in Sessions : r # s => net'[r] = net[r]
  <2>1. CASE \E s \in Sessions : LinkOpens(s) \/ LinkCloses(s)
    <3>1. PICK s \in Sessions : LinkOpens(s) \/ LinkCloses(s)
      BY <2>1
    <3>2. net[s].chan \in {"trying", "open"} /\ \A r \in Sessions : r # s => net'[r] = net[r]
      BY <1>1, <3>1 DEF LinkOpens, LinkCloses
    <3>3. QED
      BY <3>2 DEF Ended
  <2>2. CASE \E s \in Sessions : PeerAppears(s) \/ PeerDisappears(s) \/ OfferArrives(s) \/ ProviderReconnects(s)
    <3>1. PICK s \in Sessions : PeerAppears(s) \/ PeerDisappears(s) \/ OfferArrives(s) \/ ProviderReconnects(s)
      BY <2>2
    <3>2. net[s].sig = "on" /\ \A r \in Sessions : r # s => net'[r] = net[r]
      BY <1>1, <3>1 DEF PeerAppears, PeerDisappears, OfferArrives, ProviderReconnects
    <3>3. net[s].chan # "none"
      BY <3>2 DEF OrderInv, CreationInv, Made, NotCreated
    <3>4. QED
      BY <3>2, <3>3 DEF Ended
  <2>3. CASE \/ ChallengeArrives \/ TimerFires \/ DeadlinePasses
             \/ \E good \in BOOLEAN : ProofArrives(good)
             \/ \E op \in ops : Verified(op)
    BY <2>3 DEF ChallengeArrives, TimerFires, DeadlinePasses, ProofArrives, Verified
  <2>4. QED
    BY <2>1, <2>2, <2>3
<1>5. QED
  BY <1>2, <1>3, <1>4, ReleaseStays DEF Ended

LEMMA ReleaseStore ==
    ASSUME Typed, OrderInv, ReleaseInv, NEW g \in Later(store), NEW arrived \in BOOLEAN, StoreChanges(g, arrived)
    PROVE  ReleaseInv'
<1>1. CcTyped(cc) /\ net \in [Sessions -> Connections] /\ cc \in Controllers
  BY TypedParts DEF CcTyped
<1>2. g.trust \in Trusts
  BY LaterTyped DEF StoreChanges, Snapshots
<1> DEFINE heard == IF cc.bound = 0 THEN cc ELSE Asked(cc, TRUE)
           c == IF arrived THEN Install(heard, g.trust) ELSE heard
<1>3. heard \in Controllers /\ heard.res = cc.res
  BY <1>1, AskedFrame
<1>4. cc' = c
  BY DEF StoreChanges
<1> HIDE DEF heard
<1>5. cc'.res = cc.res
  BY <1>2, <1>3, <1>4, InstallTyped
<1>6. ops \subseteq ops'
  BY DEF StoreChanges
<1>7. CASE ~arrived
  BY <1>5, <1>6, <1>7, ReleaseStays DEF StoreChanges, Ended
<1>8. CASE arrived
  <2>1. net[cc.res].chan = "open" /\ \A s \in Sessions : s # cc.res => net'[s] = net[s]
    BY <1>1, <1>8 DEF StoreChanges, Channel
  <2>2. QED
    BY <1>5, <1>6, <2>1, ReleaseStays DEF Ended
<1>9. QED
  BY <1>7, <1>8

LEMMA ReleaseRefreshes ==
    ASSUME Typed, OrderInv, ReleaseInv, NEW op \in ops, RefreshReads(op) \/ RefreshInstalls(op) \/ RefreshMoves(op)
    PROVE  ReleaseInv'
<1>1. CcTyped(cc) /\ net \in [Sessions -> Connections] /\ cc \in Controllers /\ cc.task \in {0, cc.tok}
      /\ ops \subseteq Ops
  BY TypedParts DEF CcTyped
<1>2. op \in Refreshes /\ op \in Ops /\ op.k = "refresh" /\ op.s \in Sessions /\ op.s # 0 /\ net[op.s].chan # "none"
  BY OpKinds, OldOps DEF RefreshReads, RefreshInstalls, RefreshMoves
<1>3. op.snap.trust \in Trusts
  BY <1>2, SnapTyped
<1>4. cc.tok = op.s => cc.res = op.s
  BY <1>1, <1>2 DEF OrderInv, AttachInv, Made, CcTyped
<1>5. cc'.res = cc.res
  <2>1. CASE cc' \in {cc, EndedTask(cc, op), Install(cc, op.snap.trust)}
    BY <1>1, <1>3, <2>1, EndedTyped, InstallTyped DEF SameView
  <2>2. CASE IterationEnds(cc, op, ops \ {op})
    BY <1>1, <1>2, <2>2, IterationTyped DEF SameView
  <2>3. CASE cc' = [(IF net[op.s].sees /\ Allowed(cc) THEN ForgetPeer(cc) ELSE cc) EXCEPT !.rdv = op.snap.rdv]
    <3> DEFINE c == IF net[op.s].sees /\ Allowed(cc) THEN ForgetPeer(cc) ELSE cc
    <3>1. c \in Controllers /\ c.res = cc.res
      BY <1>1, ForgetTyped
    <3>2. cc' = [c EXCEPT !.rdv = op.snap.rdv]
      BY <2>3
    <3> HIDE DEF c
    <3>3. QED
      BY <3>1, <3>2 DEF Controllers
  <2>4. QED
    BY <2>1, <2>2, <2>3 DEF RefreshReads, RefreshInstalls, RefreshMoves, RefreshReturns
<1>6. \A o \in ops : o.k \in {"connect", "close"} => o \in ops'
  <2>1. IterationEnds(cc, op, ops \ {op}) => ops \ {op} \subseteq ops'
    BY DEF IterationEnds
  <2>2. QED
    BY <1>2, <2>1 DEF RefreshReads, RefreshInstalls, RefreshMoves, RefreshReturns
<1>7. net' = net \/ (cc.res = op.s /\ \A s \in Sessions : s # op.s => net'[s] = net[s])
  BY <1>1, <1>4 DEF RefreshReads, RefreshInstalls, RefreshMoves, RefreshReturns
<1>8. QED
  BY <1>2, <1>5, <1>6, <1>7, ReleaseStays DEF Ended

LEMMA ReleaseRejoins ==
    ASSUME Typed, OrderInv, ReleaseInv, ~LateJoin, NEW op \in ops, NEW ok \in BOOLEAN, RefreshJoins(op, ok)
    PROVE  ReleaseInv'
<1>1. CcTyped(cc) /\ net \in [Sessions -> Connections] /\ cc \in Controllers /\ cc.task \in {0, cc.tok}
      /\ ops \subseteq Ops
  BY TypedParts DEF CcTyped
<1>2. op \in Refreshes /\ op.k = "refresh" /\ op.s \in Sessions /\ op.s # 0 /\ net[op.s].chan # "none"
  BY OpKinds, OldOps DEF RefreshJoins
<1>3. cc.tok = op.s => cc.res = op.s
  BY <1>1, <1>2 DEF OrderInv, AttachInv, Made, CcTyped
<1>4. /\ \A s \in Sessions : net'[s].chan = net[s].chan
      /\ \A s \in Sessions : s # op.s => net'[s] = net[s]
      /\ net[op.s].sig = "off" => net'[op.s] = net[op.s]
  BY <1>1 DEF RefreshJoins, Connections
<1>5. \A s \in Sessions : Ended(s) => Ended(s)'
  BY <1>4 DEF Ended
<1> DEFINE waiting == {o \in ops : o.k = "connect" /\ o.s = op.s}
<1>6. CASE cc.tok = op.s /\ ok
  <2>1. IterationEnds(cc, op, ops \ {op})
    BY <1>6 DEF RefreshJoins
  <2>2. cc'.res = cc.res /\ ops \ {op} \subseteq ops'
    BY <1>1, <1>2, <2>1, IterationTyped DEF SameView
  <2>3. QED
    BY <1>2, <1>4, <1>5, <2>2, ReleaseStays
<1>7. CASE ~(cc.tok = op.s /\ ok) /\ cc.tok = op.s /\ waiting # {}
  <2>1. ops' = (ops \ ({op} \cup waiting)) \cup Close(cc.res)
    BY <1>7 DEF RefreshJoins
  <2>2. Handled(op.s)'
    BY <1>2, <1>3, <1>7, <2>1, CloseHandles
  <2>3. ASSUME NEW s \in Sessions, s # op.s, Handled(s) PROVE Handled(s)'
    <3>1. PICK o \in ops : Handles(o, s)
      BY <2>3 DEF Handled
    <3>2. o \notin waiting
      <4>1. SUFFICES ASSUME o \in waiting PROVE FALSE
        OBVIOUS
      <4>2. o.k = "connect" /\ o.at = "closing"
        BY <2>3, <3>1, <4>1 DEF Handles
      <4>3. cc.tok = 0
        BY <4>2 DEF OrderInv, ConnectInv
      <4>4. QED
        BY <1>2, <1>7, <4>3
    <3>3. o \in ops'
      BY <1>2, <2>1, <3>1, <3>2 DEF Handles
    <3>4. QED
      BY <3>1, <3>3 DEF Handled, Handles
  <2>4. QED
    BY <1>3, <1>4, <1>5, <1>7, <2>2, <2>3, ReleaseFrame
<1>8. CASE ~(cc.tok = op.s /\ ok) /\ ~(cc.tok = op.s /\ waiting # {})
  <2>1. cc' = EndedTask(cc, op) /\ ops' = ops \ {op}
    BY <1>8 DEF RefreshJoins
  <2>2. cc'.res = cc.res
    BY <1>1, <2>1, EndedTyped DEF SameView
  <2>3. QED
    BY <1>2, <1>4, <1>5, <2>1, <2>2, ReleaseStays
<1>9. QED
  BY <1>6, <1>7, <1>8

----------------------------------------------------------------------------
(* The theorems.                                                           *)

SessionInv == Typed /\ OrderInv /\ PeerInv

LEMMA SessionInit == Init => SessionInv /\ ReleaseInv
<1> SUFFICES ASSUME Init PROVE SessionInv /\ ReleaseInv
  OBVIOUS
<1>1. Typed
  BY InitTyped
<1>2. cc.tok = 0 /\ cc.res = 0 /\ cc.bound = 0 /\ ~cc.data /\ ~cc.open /\ sync.nonce = 0 /\ ops = {}
  BY DetachedIsDown DEF Init
<1>3. \A s \in Sessions : net[s] = NotCreated /\ ~Made(s)
  BY DEF Init, Made, NotCreated
<1>4. OrderInv
  BY <1>2, <1>3 DEF OrderInv, CreationInv, ConnectInv, AttachInv
<1>5. PeerInv
  BY <1>2, PeerRules DEF Channel
<1>6. ReleaseInv
  BY <1>3 DEF ReleaseInv
<1>7. QED
  BY <1>1, <1>4, <1>5, <1>6 DEF SessionInv

LEMMA SessionStep == SessionInv /\ [Next]_vars => SessionInv'
<1> SUFFICES ASSUME SessionInv, [Next]_vars PROVE SessionInv'
  OBVIOUS
<1>1. /\ Typed /\ OrderInv /\ PeerInv
      /\ CreationInv /\ ConnectInv /\ AttachInv /\ TracksChannel
  BY DEF SessionInv, OrderInv, PeerInv
<1>2. CASE Connect \/ Disconnect
  BY <1>1, <1>2, TypingSessions, OrderConnect, OrderSessions, PeerSessions DEF SessionInv
<1>3. ASSUME NEW op \in ops, Continues(op) PROVE SessionInv'
  <2>1. CASE Closed(op)
    BY <1>1, <2>1, TypingSessions, OrderSessions, PeerSessions DEF SessionInv
  <2>2. CASE ConnectCloses(op) \/ ConnectInfers(op) \/ ConnectCreates(op) \/ ConnectBinds(op) \/ ConnectReturns(op)
    <3>1. Typed'
      BY <1>1, <2>2, TypingConnects
    <3>2. OrderInv'
      BY <1>1, <2>2, OrderConnects
    <3>3. PeerInv'
      BY <1>1, <2>2, PeerConnects
    <3>4. QED
      BY <3>1, <3>2, <3>3 DEF SessionInv
  <2>3. ASSUME NEW ok \in BOOLEAN, ConnectJoins(op, ok) PROVE SessionInv'
    BY <1>1, <2>3, TypingJoins, OrderJoins, PeerJoins DEF SessionInv
  <2>4. CASE Verified(op)
    BY <1>1, <2>4, TypingHandshake, OrderHandshake, PeerHandshake DEF SessionInv
  <2>5. CASE RefreshReads(op) \/ RefreshInstalls(op) \/ RefreshMoves(op)
    <3>1. Typed'
      BY <1>1, <2>5, TypingRefreshes
    <3>2. OrderInv'
      BY <1>1, <2>5, OrderRefreshes
    <3>3. PeerInv'
      BY <1>1, <2>5, PeerRefreshes
    <3>4. QED
      BY <3>1, <3>2, <3>3 DEF SessionInv
  <2>6. ASSUME NEW ok \in BOOLEAN, RefreshJoins(op, ok) PROVE SessionInv'
    BY <1>1, <2>6, TypingRejoins, OrderRejoins, PeerRejoins DEF SessionInv
  <2>7. QED
    BY <1>3, <2>1, <2>2, <2>3, <2>4, <2>5, <2>6 DEF Continues
<1>4. ASSUME NEW s \in Sessions, LinkOpens(s) \/ LinkCloses(s) PROVE SessionInv'
  BY <1>1, <1>4, TypingLinks, OrderLinks, PeerLinks DEF SessionInv
<1>5. ASSUME NEW s \in Sessions, PeerAppears(s) \/ PeerDisappears(s) \/ OfferArrives(s) \/ ProviderReconnects(s)
      PROVE  SessionInv'
  <2>1. Typed'
    BY <1>1, <1>5, TypingSignals
  <2>2. OrderInv'
    BY <1>1, <1>5, OrderSignals
  <2>3. PeerInv'
    BY <1>1, <1>5, PeerSignals
  <2>4. QED
    BY <2>1, <2>2, <2>3 DEF SessionInv
<1>6. CASE ChallengeArrives \/ TimerFires \/ DeadlinePasses \/ \E good \in BOOLEAN : ProofArrives(good)
  BY <1>1, <1>6, TypingHandshake, OrderHandshake, PeerHandshake DEF SessionInv
<1>7. ASSUME NEW g \in Later(store), NEW arrived \in BOOLEAN, StoreChanges(g, arrived) PROVE SessionInv'
  BY <1>1, <1>7, TypingStore, OrderStore, PeerStore DEF SessionInv
<1>8. CASE UNCHANGED vars
  BY <1>1, <1>8 DEF vars, SessionInv, Typed, TypeOK, RoomInv, OrderInv, CreationInv, ConnectInv, AttachInv, Made,
                    PeerInv, TracksChannel, OpenIsProven, RevokedNeverOpen, ChallengeInv, Channel, Allowed
<1>9. QED
  BY <1>2, <1>3, <1>4, <1>5, <1>6, <1>7, <1>8 DEF Next

LEMMA ReleaseStep == SessionInv /\ ReleaseInv /\ ~LateJoin /\ [Next]_vars => ReleaseInv'
<1> SUFFICES ASSUME SessionInv, ReleaseInv, ~LateJoin, [Next]_vars PROVE ReleaseInv'
  OBVIOUS
<1>1. Typed /\ OrderInv
  BY DEF SessionInv
<1>2. CASE Connect \/ Disconnect
  BY <1>1, <1>2, ReleaseSessions
<1>3. ASSUME NEW op \in ops, Continues(op) PROVE ReleaseInv'
  <2>1. CASE Closed(op)
    BY <1>1, <2>1, ReleaseSessions
  <2>2. CASE ConnectCloses(op) \/ ConnectInfers(op) \/ ConnectCreates(op) \/ ConnectBinds(op) \/ ConnectReturns(op)
    BY <1>1, <2>2, ReleaseConnects
  <2>3. ASSUME NEW ok \in BOOLEAN, ConnectJoins(op, ok) PROVE ReleaseInv'
    BY <1>1, <2>3, ReleaseJoins
  <2>4. CASE Verified(op)
    BY <1>1, <2>4, ReleaseCallbacks
  <2>5. CASE RefreshReads(op) \/ RefreshInstalls(op) \/ RefreshMoves(op)
    BY <1>1, <2>5, ReleaseRefreshes
  <2>6. ASSUME NEW ok \in BOOLEAN, RefreshJoins(op, ok) PROVE ReleaseInv'
    BY <1>1, <2>6, ReleaseRejoins
  <2>7. QED
    BY <1>3, <2>1, <2>2, <2>3, <2>4, <2>5, <2>6 DEF Continues
<1>4. CASE \/ \E s \in Sessions : LinkOpens(s) \/ LinkCloses(s)
           \/ \E s \in Sessions : PeerAppears(s) \/ PeerDisappears(s) \/ OfferArrives(s) \/ ProviderReconnects(s)
           \/ ChallengeArrives \/ TimerFires \/ DeadlinePasses \/ \E good \in BOOLEAN : ProofArrives(good)
  BY <1>1, <1>4, ReleaseCallbacks
<1>5. ASSUME NEW g \in Later(store), NEW arrived \in BOOLEAN, StoreChanges(g, arrived) PROVE ReleaseInv'
  BY <1>1, <1>5, ReleaseStore
<1>6. CASE UNCHANGED vars
  BY <1>6 DEF vars, ReleaseInv, Made
<1>7. QED
  BY <1>2, <1>3, <1>4, <1>5, <1>6 DEF Next

\* SyncService opens a peer only on a proof it asked for on the channel that is open
\* now, and only if the installed membership calls it a member, whatever refreshes,
\* verifications and transports of earlier sessions still report.
THEOREM Membership == Spec => []OnlyProvenMembersOpen
<1>1. SessionInv => OnlyProvenMembersOpen
  BY DEF SessionInv, Typed, PeerInv, OnlyProvenMembersOpen
<1>2. Init => SessionInv
  BY SessionInit
<1>3. QED
  BY <1>1, <1>2, SessionStep, PTL DEF Spec

\* connect and disconnect of ChatController release every provider and transport they
\* made, provided that a provider disconnected while it re-joins does not join after all.
THEOREM Release == ~LateJoin => (Spec => []NothingLeftBehind)
<1> SUFFICES ASSUME ~LateJoin PROVE Spec => []NothingLeftBehind
  OBVIOUS
<1>1. SessionInv /\ ReleaseInv => NothingLeftBehind
  <2> SUFFICES ASSUME SessionInv, ReleaseInv, NEW s \in Sessions
               PROVE  \/ net[s] = NotCreated
                      \/ net[s].sig = "off" /\ net[s].chan = "gone"
                      \/ cc.res = s
                      \/ \E op \in ops : \/ op.k \in {"connect", "close"} /\ op.s = s
                                         \/ op.k = "connect" /\ op.at = "closing" /\ op.old = s
    BY DEF NothingLeftBehind
  <2>1. ~Made(s) => net[s] = NotCreated
    BY DEF SessionInv, OrderInv, CreationInv
  <2>2. QED
    BY <2>1 DEF ReleaseInv
<1>2. Init => SessionInv /\ ReleaseInv
  BY SessionInit
<1>3. SessionInv /\ ReleaseInv /\ [Next]_vars => (SessionInv /\ ReleaseInv)'
  BY SessionStep, ReleaseStep
<1>4. QED
  BY <1>1, <1>2, <1>3, PTL DEF Spec

---------------------------------------------------------------------------
(* The background sessions.                                                *)

---------------------------------------------------------------------------
(* Background: who holds a controller, who waits for it and what is wanted. *)

BgStages == {"start", "identity", "groups", "close", "channels"}
BgOperations ==
    {op \in [kind : {"sync", "release", "disconnect"}, args : Bg!Args \cup {Bg!NoArgs}, ch : Channels \cup {0},
             at : BgStages, waits : SUBSET Slots] : op.kind = "release" => op.ch \in Channels}
BgOpenings == [f : Friends, at : {"room", "create", "connect"}, waits : SUBSET Slots]
Privates == {f \in Friends : private[f] # 0}
OpenIn(S) == {k \in S : sess[k] # 0}

BgTyped ==
    /\ sess \in [Bg!Keys -> Slots \cup {0}] /\ private \in [Friends -> Slots \cup {0}]
    /\ room \in [Slots -> Bg!Keys \cup Friends \cup {0}]
    /\ ctl \in [Slots -> {"free", "connecting", "on", "error", "closing"}]
    /\ queue \in Seq(BgOperations) /\ running \subseteq BgOperations /\ opening \subseteq BgOpenings
    /\ last \in Bg!Args \cup {Bg!NoArgs} /\ retry \in BOOLEAN
    /\ spent \in [calls : 0..MaxCalls, faults : 0..MaxFaults]

\* Who holds a controller, and which one is held.
OneHolder ==
    /\ \A k \in Bg!Keys : sess[k] # 0 => ctl[sess[k]] \in {"connecting", "on"} /\ room[sess[k]] = k
    /\ \A f \in Friends : private[f] # 0 => ctl[private[f]] \in {"connecting", "on", "error"} /\ room[private[f]] = f
    /\ \A i \in Slots : ctl[i] = "free" <=> room[i] = 0
    /\ \A i \in Slots : ctl[i] \in {"connecting", "on", "error"} =>
          (room[i] \in Bg!Keys /\ sess[room[i]] = i) \/ (room[i] \in Friends /\ private[room[i]] = i)

\* One operation runs at a time and waits for whatever connects or is closed.
OneByOne ==
    /\ \A o, p \in running : o = p
    /\ \A k \in DOMAIN queue : queue[k].at = "start" /\ queue[k].waits = {}
    /\ \A op \in running : op.at = "start" => op.waits = {}
    /\ \A i \in Slots : room[i] \in Bg!Keys /\ ctl[i] \in {"connecting", "closing"} => \E op \in running : i \in op.waits
    /\ \A i, j \in Slots : room[i] = room[j] /\ room[i] \in Bg!Keys => i = j

\* The order of use lists each private session once.
ListsOnce(s, P) ==
    /\ s \in Seq(Friends) /\ \A m, n \in DOMAIN s : s[m] = s[n] => m = n
    /\ \A f \in Friends : f \in P <=> \E n \in DOMAIN s : s[n] = f
ListedOnce == ListsOnce(lru, Privates)

OpensOnce ==
    /\ \A o, p \in opening : o.f = p.f => o = p
    /\ \A o \in opening : o.at # "connect" => private[o.f] = 0

\* What is open was wanted by one sync: the sessions of an earlier one are closed first.
Wanted ==
    /\ \E a \in Bg!Args : OpenIn(Channels) \subseteq Bg!DesiredChannels(a)
    /\ \E a \in Bg!Args : OpenIn(Groups) \subseteq Bg!DesiredGroups(a)
    /\ \A k \in DOMAIN queue : queue[k].kind = "sync" => queue[k].args \in Bg!Args
    /\ \A op \in running : op.kind = "sync" =>
          /\ op.args \in Bg!Args
          /\ op.at = "identity" => OpenIn(Groups) \subseteq Bg!DesiredGroups(op.args)
          /\ op.at = "close" => OpenIn(Channels) \subseteq Bg!DesiredChannels(op.args)

\* Room is made before a conversation is opened, and no other takes it.
RoomMade ==
    SerialPrivate =>
        /\ Cardinality(Privates) <= MaxPrivate
        /\ \A o, p \in opening : o.at # "connect" /\ p.at # "connect" => o = p
        /\ \A o \in opening : o.at = "create" => Cardinality(Privates) < MaxPrivate

Sound == Bg!Limits /\ BgTyped /\ OneHolder /\ OneByOne /\ ListedOnce /\ OpensOnce /\ Wanted
BgInv == Sound /\ RoomMade

LEMMA BgCardinality == \A S : Bg!Cardinality(S) = Cardinality(S) /\ Bg!IsFiniteSet(S) = IsFiniteSet(S)
BY DEF Bg!Cardinality, Cardinality, Bg!IsFiniteSet, IsFiniteSet

LEMMA BgConstants ==
    ASSUME Bg!Limits
    PROVE  /\ Channels \subseteq Nat \ {0} /\ Groups \subseteq Nat \ {0} /\ Channels \cap Groups = {}
           /\ Friends \subseteq Nat \ (Channels \cup Groups \cup {0}) /\ Friends \cap Bg!Keys = {}
           /\ IsFiniteSet(Channels) /\ IsFiniteSet(Groups) /\ IsFiniteSet(Friends)
           /\ MaxChannels \in Nat \ {0} /\ MaxGroups \in Nat \ {0} /\ MaxPrivate \in Nat \ {0}
           /\ Slots \subseteq Nat \ {0} /\ MaxCalls \in Nat /\ MaxFaults \in Nat
           /\ 0 \notin Slots /\ 0 \notin Bg!Keys /\ 0 \notin Friends
BY BgCardinality DEF Bg!Limits, Bg!Keys

\* The first of the keys are no more than asked for.
LEMMA FirstFew ==
    ASSUME NEW S \in SUBSET Nat, IsFiniteSet(S), NEW max \in Nat
    PROVE  IsFiniteSet(Bg!First(S, max)) /\ Cardinality(Bg!First(S, max)) <= max
<1> DEFINE below(i) == {j \in S : j < i}
           F == {k \in S : Cardinality(below(k)) < max}
           P == 0..(max - 1)
           f == [i \in F |-> Cardinality(below(i))]
<1>1. ASSUME NEW i \in S PROVE IsFiniteSet(below(i)) /\ Cardinality(below(i)) \in Nat
  <2>1. below(i) \in SUBSET S
    OBVIOUS
  <2> HIDE DEF below
  <2>2. IsFiniteSet(below(i))
    BY <2>1, FS_Subset
  <2>3. QED
    BY <2>2, FS_CardinalityType
<1>2. ASSUME NEW i \in S, NEW j \in S, i < j PROVE Cardinality(below(i)) < Cardinality(below(j))
  <2>1. below(i) \in SUBSET below(j) /\ i \in below(j) /\ i \notin below(i)
    <3>1. i \in Nat /\ j \in Nat /\ \A k \in S : k \in Nat
      OBVIOUS
    <3>2. ~(i < i) /\ \A k \in S : k < i => k < j
      BY <1>2, <3>1
    <3>3. QED
      BY <1>2, <3>2
  <2>2. IsFiniteSet(below(i)) /\ IsFiniteSet(below(j))
    BY <1>1
  <2>3. Cardinality(below(i)) \in Nat /\ Cardinality(below(j)) \in Nat
    BY <1>1
  <2> HIDE DEF below
  <2>4. Cardinality(below(i)) <= Cardinality(below(j)) /\ Cardinality(below(i)) # Cardinality(below(j))
    BY <2>1, <2>2, FS_Subset
  <2>5. QED
    BY <2>3, <2>4
<1>3. f \in Injection(F, P)
  <2>1. \A i \in F : i \in S /\ Cardinality(below(i)) \in P
    BY <1>1
  <2>2. f \in [F -> P]
    BY <2>1
  <2>3. ASSUME NEW i \in F, NEW j \in F, i # j PROVE f[i] # f[j]
    <3>1. i \in S /\ j \in S /\ i \in Nat /\ j \in Nat
      BY <2>1
    <3>2. i < j \/ j < i
      BY <2>3, <3>1
    <3>3. Cardinality(below(i)) \in Nat /\ Cardinality(below(j)) \in Nat
      BY <1>1, <3>1
    <3> HIDE DEF below
    <3>4. Cardinality(below(i)) # Cardinality(below(j))
      BY <1>2, <3>1, <3>2, <3>3
    <3>5. QED
      BY <3>4
  <2> HIDE DEF f, F, P
  <2>4. QED
    BY <2>2, <2>3 DEF Injection, IsInjective
<1>4. IsFiniteSet(P) /\ Cardinality(P) = max
  <2>1. 0 \in Int /\ max - 1 \in Int
    OBVIOUS
  <2>2. IsFiniteSet(P) /\ Cardinality(P) = IF 0 > max - 1 THEN 0 ELSE (max - 1) - 0 + 1
    BY <2>1, FS_Interval
  <2>3. QED
    BY <2>2
<1>5. Bg!First(S, max) = F
  BY BgCardinality DEF Bg!First
<1> HIDE DEF F, P, f
<1>6. IsFiniteSet(F) /\ Cardinality(F) <= Cardinality(P)
  BY <1>3, <1>4, FS_Injection
<1>7. QED
  BY <1>4, <1>5, <1>6

\* One entry leaves a sequence that lists each once.
LEMMA Removes ==
    ASSUME NEW s, NEW P, ListsOnce(s, P), NEW k \in DOMAIN s
    PROVE  ListsOnce(SubSeq(s, 1, k - 1) \o SubSeq(s, k + 1, Len(s)), P \ {s[k]})
<1> DEFINE a == SubSeq(s, 1, k - 1)
           b == SubSeq(s, k + 1, Len(s))
           r == a \o b
           n == Len(s)
<1>1. /\ s \in Seq(Friends) /\ n \in Nat /\ DOMAIN s = 1..n /\ k \in 1..n /\ k \in Int
      /\ \A m, l \in 1..n : s[m] = s[l] => m = l
      /\ \A f \in Friends : f \in P <=> \E m \in 1..n : s[m] = f
  BY DEF ListsOnce
<1>2. a \in Seq(Friends) /\ Len(a) = k - 1 /\ \A m \in 1..(k - 1) : a[m] = s[m]
  <2>1. \A m \in 1..(k - 1) : s[m] \in Friends
    BY <1>1, ElementOfSeq
  <2>2. QED
    BY <1>1, <2>1, SubSeqProperties
<1>3. b \in Seq(Friends) /\ Len(b) = n - k /\ \A m \in 1..(n - k) : b[m] = s[k + m]
  <2>1. \A m \in (k + 1)..n : s[m] \in Friends
    BY <1>1, ElementOfSeq
  <2>2. QED
    BY <1>1, <2>1, SubSeqProperties
<1> HIDE DEF a, b
<1>4. /\ r \in Seq(Friends) /\ Len(r) = n - 1 /\ DOMAIN r = 1..(n - 1)
      /\ \A m \in 1..(n - 1) : r[m] = IF m < k THEN s[m] ELSE s[m + 1]
  <2>1. r \in Seq(Friends) /\ Len(r) = n - 1 /\ DOMAIN r = 1..(n - 1)
    <3>1. r \in Seq(Friends) /\ Len(r) = Len(a) + Len(b) /\ DOMAIN r = 1..Len(r)
      <4>1. a \o b \in Seq(Friends) /\ Len(a \o b) = Len(a) + Len(b)
        BY <1>2, <1>3, ConcatProperties
      <4> HIDE DEF r
      <4>2. r \in Seq(Friends) /\ Len(r) = Len(a) + Len(b)
        BY <4>1 DEF r
      <4>3. QED
        BY <4>2, LenProperties
    <3> HIDE DEF r, n
    <3>2. Len(r) = n - 1
      BY <1>1, <1>2, <1>3, <3>1
    <3>3. QED
      BY <3>1, <3>2
  <2>2. ASSUME NEW m \in 1..(n - 1) PROVE r[m] = IF m < k THEN s[m] ELSE s[m + 1]
    <3>1. CASE m < k
      <4>1. m \in 1..(k - 1) /\ r[m] = a[m]
        BY <1>1, <1>2, <1>3, <3>1
      <4>2. QED
        BY <1>2, <3>1, <4>1
    <3>2. CASE ~(m < k)
      <4>1. m - (k - 1) \in 1..(n - k) /\ r[m] = b[m - (k - 1)] /\ k + (m - (k - 1)) = m + 1
        BY <1>1, <1>2, <1>3, <3>2
      <4>2. QED
        BY <1>3, <3>2, <4>1
    <3>3. QED
      BY <3>1, <3>2
  <2>3. QED
    BY <2>1, <2>2
<1> HIDE DEF r, n
<1>5. ASSUME NEW m \in DOMAIN r, NEW l \in DOMAIN r, r[m] = r[l] PROVE m = l
  <2> DEFINE at(x) == IF x < k THEN x ELSE x + 1
  <2>1. at(m) \in 1..n /\ at(l) \in 1..n /\ r[m] = s[at(m)] /\ r[l] = s[at(l)]
    BY <1>1, <1>4
  <2>2. at(m) = at(l)
    BY <1>1, <1>5, <2>1
  <2>3. QED
    BY <1>1, <1>4, <2>2
<1>6. ASSUME NEW f \in Friends PROVE f \in P \ {s[k]} <=> \E m \in DOMAIN r : r[m] = f
  <2>1. ASSUME f \in P, f # s[k] PROVE \E m \in DOMAIN r : r[m] = f
    <3>1. PICK m \in 1..n : s[m] = f
      BY <1>1, <2>1
    <3>2. m # k
      BY <2>1, <3>1
    <3>3. CASE m < k
      BY <1>1, <1>4, <3>1, <3>3
    <3>4. CASE m > k
      <4>1. m - 1 \in 1..(n - 1) /\ ~(m - 1 < k) /\ (m - 1) + 1 = m
        BY <1>1, <3>4
      <4>2. QED
        BY <1>4, <3>1, <4>1
    <3>5. QED
      BY <1>1, <3>2, <3>3, <3>4
  <2>2. ASSUME NEW m \in DOMAIN r, r[m] = f PROVE f \in P /\ f # s[k]
    <3> DEFINE x == IF m < k THEN m ELSE m + 1
    <3>1. x \in 1..n /\ x # k /\ s[x] = f
      BY <1>1, <1>4, <2>2
    <3> HIDE DEF x
    <3>2. QED
      BY <1>1, <3>1
  <2>3. QED
    BY <2>1, <2>2
<1>7. QED
  BY <1>4, <1>5, <1>6 DEF ListsOnce, r, a, b

LEMMA Unlists ==
    ASSUME ListedOnce, NEW f \in Friends
    PROVE  ListsOnce(Bg!Unlisted(f), Privates \ {f})
<1>1. CASE f \in Privates
  <2> DEFINE k == CHOOSE k \in DOMAIN lru : lru[k] = f
  <2>1. \E n \in DOMAIN lru : lru[n] = f
    BY <1>1 DEF ListedOnce, ListsOnce
  <2>2. k \in DOMAIN lru /\ lru[k] = f
    BY <2>1
  <2>3. Bg!Unlisted(f) = SubSeq(lru, 1, k - 1) \o SubSeq(lru, k + 1, Len(lru))
    BY <2>1 DEF Bg!Unlisted, Bg!ToSet, Bg!RemoveAt
  <2> HIDE DEF k
  <2>4. ListsOnce(SubSeq(lru, 1, k - 1) \o SubSeq(lru, k + 1, Len(lru)), Privates \ {lru[k]})
    BY <2>2, Removes DEF ListedOnce
  <2>5. QED
    BY <2>2, <2>3, <2>4
<1>2. CASE f \notin Privates
  <2>1. ~\E n \in DOMAIN lru : lru[n] = f
    BY <1>2 DEF ListedOnce, ListsOnce
  <2>2. Bg!Unlisted(f) = lru
    BY <2>1 DEF Bg!Unlisted, Bg!ToSet
  <2>3. Privates \ {f} = Privates
    BY <1>2
  <2>4. QED
    BY <2>2, <2>3 DEF ListedOnce
<1>3. QED
  BY <1>1, <1>2

LEMMA ListsLast ==
    ASSUME NEW s, NEW P, NEW f \in Friends, f \notin P, ListsOnce(s, P)
    PROVE  ListsOnce(Append(s, f), P \cup {f})
<1> DEFINE r == Append(s, f)
<1>1. /\ s \in Seq(Friends) /\ \A m, l \in DOMAIN s : s[m] = s[l] => m = l
      /\ \A g \in Friends : g \in P <=> \E m \in DOMAIN s : s[m] = g
  BY DEF ListsOnce
<1>2. /\ r \in Seq(Friends) /\ Len(s) \in Nat /\ DOMAIN s = 1..Len(s) /\ DOMAIN r = 1..(Len(s) + 1)
      /\ r[Len(s) + 1] = f /\ \A m \in 1..Len(s) : r[m] = s[m]
  BY <1>1
<1> HIDE DEF r
<1>3. \A m \in 1..Len(s) : s[m] # f
  BY <1>1, <1>2
<1>4. ASSUME NEW m \in DOMAIN r, NEW l \in DOMAIN r, r[m] = r[l] PROVE m = l
  BY <1>1, <1>2, <1>3, <1>4
<1>5. ASSUME NEW g \in Friends PROVE g \in P \cup {f} <=> \E m \in DOMAIN r : r[m] = g
  <2>1. \A m \in DOMAIN s : m \in DOMAIN r
    BY <1>2
  <2>2. Len(s) + 1 \in DOMAIN r /\ \A m \in DOMAIN r : m = Len(s) + 1 \/ m \in DOMAIN s
    BY <1>2
  <2>3. QED
    BY <1>1, <1>2, <2>1, <2>2
<1>6. QED
  BY <1>2, <1>4, <1>5 DEF ListsOnce, r

\* The order of use counts the private sessions.
LEMMA Counts ==
    ASSUME NEW s, NEW P \in SUBSET Friends, ListsOnce(s, P)
    PROVE  /\ Cardinality(P) = Len(s) /\ IsFiniteSet(P) /\ {s[n] : n \in DOMAIN s} = P /\ Len(s) \in Nat
           /\ s # <<>> => Head(s) \in P
<1>1. s \in Seq(Friends) /\ Len(s) \in Nat /\ DOMAIN s = 1..Len(s) /\ \A m \in 1..Len(s) : s[m] \in Friends
  BY ElementOfSeq DEF ListsOnce
<1>2. {s[n] : n \in DOMAIN s} = P
  BY <1>1 DEF ListsOnce
<1>3. s \in [1..Len(s) -> P]
  BY <1>1, <1>2
<1>4. s \in Bijection(1..Len(s), P)
  BY <1>1, <1>2, <1>3 DEF ListsOnce, Bijection, Injection, Surjection, IsInjective
<1>5. Cardinality(P) = Len(s) /\ IsFiniteSet(P)
  <2>1. ExistsBijection(1..Len(s), P)
    BY <1>4 DEF ExistsBijection
  <2>2. IsFiniteSet(1..Len(s)) /\ Cardinality(1..Len(s)) = Len(s)
    <3>1. 1 \in Int /\ Len(s) \in Int /\ (1 > Len(s) => Len(s) = 0)
      BY <1>1
    <3>2. IsFiniteSet(1..Len(s)) /\ Cardinality(1..Len(s)) = IF 1 > Len(s) THEN 0 ELSE Len(s) - 1 + 1
      BY <3>1, FS_Interval
    <3>3. QED
      BY <1>1, <3>1, <3>2
  <2>3. QED
    BY <2>1, <2>2, FS_Bijection
<1>6. s # <<>> => Head(s) \in P
  <2>1. s # <<>> => 1 \in DOMAIN s /\ Head(s) = s[1]
    BY <1>1
  <2>2. QED
    BY <1>2, <2>1
<1>7. QED
  BY <1>1, <1>2, <1>5, <1>6

\* Of a set of numbers the least is chosen.
LEMMA LeastOf ==
    ASSUME NEW S \in SUBSET Nat, S # {}
    PROVE  (CHOOSE i \in S : \A j \in S : i <= j) \in S
<1> DEFINE R == {ss \in Nat \X Nat : ss[1] < ss[2]}
<1>1. OpToRel(<, Nat) = R
  BY DEF OpToRel
<1>2. IsWellFoundedOn(R, Nat)
  BY <1>1, NatLessThanWellFounded
<1>3. PICK x \in S : \A y \in S : <<y, x>> \notin R
  BY <1>2, WFMin
<1>4. ASSUME NEW y \in S PROVE x <= y
  <2>1. x \in Nat /\ y \in Nat /\ ~(y < x)
    BY <1>3
  <2> QED
    BY <2>1
<1> QED
  BY <1>4

---------------------------------------------------------------------------
(* The queue: what the application asks for waits its turn. *)

\* Nothing but the queue, the timer and the bookkeeping of the calls changes.
LEMMA BgQueues ==
    ASSUME BgInv, UNCHANGED <<sess, private, lru, ctl, room, running, opening>>,
           queue' \in Seq(BgOperations),
           \A k \in DOMAIN queue' : /\ queue'[k].at = "start" /\ queue'[k].waits = {}
                                    /\ queue'[k].kind = "sync" => queue'[k].args \in Bg!Args,
           last' \in Bg!Args \cup {Bg!NoArgs}, retry' \in BOOLEAN,
           spent' \in [calls : 0..MaxCalls, faults : 0..MaxFaults]
    PROVE  BgInv'
<1> USE DEF BgInv, Sound
<1>1. BgTyped'
  BY DEF BgTyped
<1>2. OneHolder'
  BY DEF OneHolder
<1>3. OneByOne'
  BY DEF OneByOne
<1>4. ListedOnce'
  BY DEF ListedOnce, Privates
<1>5. OpensOnce'
  BY DEF OpensOnce
<1>6. Wanted'
  BY DEF Wanted, OpenIn
<1>7. RoomMade'
  BY DEF RoomMade, Privates
<1>8. QED
  BY <1>1, <1>2, <1>3, <1>4, <1>5, <1>6, <1>7

\* What is appended keeps the queue well-formed.
LEMMA BgAppends ==
    ASSUME BgInv, NEW op \in BgOperations, op.at = "start", op.waits = {}, op.kind = "sync" => op.args \in Bg!Args
    PROVE  /\ Append(queue, op) \in Seq(BgOperations)
           /\ \A k \in DOMAIN Append(queue, op) :
                 /\ Append(queue, op)[k].at = "start" /\ Append(queue, op)[k].waits = {}
                 /\ Append(queue, op)[k].kind = "sync" => Append(queue, op)[k].args \in Bg!Args
<1> DEFINE q == Append(queue, op)
<1>1. queue \in Seq(BgOperations)
  BY DEF BgInv, Sound, BgTyped
<1>2. /\ q \in Seq(BgOperations) /\ Len(queue) \in Nat /\ DOMAIN queue = 1..Len(queue) /\ DOMAIN q = 1..(Len(queue) + 1)
      /\ q[Len(queue) + 1] = op /\ \A k \in 1..Len(queue) : q[k] = queue[k]
  BY <1>1
<1>3. \A k \in DOMAIN queue : queue[k].at = "start" /\ queue[k].waits = {} /\ (queue[k].kind = "sync" => queue[k].args \in Bg!Args)
  BY DEF BgInv, Sound, OneByOne, Wanted
<1> HIDE DEF q
<1>4. ASSUME NEW k \in DOMAIN q
      PROVE  q[k].at = "start" /\ q[k].waits = {} /\ (q[k].kind = "sync" => q[k].args \in Bg!Args)
  <2>1. q[k] = op \/ (k \in DOMAIN queue /\ q[k] = queue[k])
    BY <1>2
  <2>2. QED
    BY <1>3, <2>1
<1>5. QED
  BY <1>2, <1>4 DEF q

LEMMA BgCalls ==
    ASSUME BgInv, Bg!Call
    PROVE  spent' \in [calls : 0..MaxCalls, faults : 0..MaxFaults]
<1>1. /\ spent \in [calls : 0..MaxCalls, faults : 0..MaxFaults] /\ MaxCalls \in Nat /\ MaxFaults \in Nat
  BY BgConstants DEF BgInv, Sound, BgTyped
<1>2. QED
  BY <1>1 DEF Bg!Call

LEMMA BgFaults ==
    ASSUME BgInv, spent.faults < MaxFaults, spent' = [spent EXCEPT !.faults = @ + 1]
    PROVE  spent' \in [calls : 0..MaxCalls, faults : 0..MaxFaults]
<1>1. /\ spent \in [calls : 0..MaxCalls, faults : 0..MaxFaults] /\ MaxCalls \in Nat /\ MaxFaults \in Nat
  BY BgConstants DEF BgInv, Sound, BgTyped
<1>2. QED
  BY <1>1

LEMMA BgQueued ==
    ASSUME BgInv
    PROVE  /\ \A args \in Bg!Args : Bg!Sync(args) => BgInv'
           /\ \A ch \in Channels : Bg!Release(ch) => BgInv'
           /\ Bg!Disconnect => BgInv'
           /\ Bg!RetryFires => BgInv'
<1>1. last \in Bg!Args \cup {Bg!NoArgs} /\ retry \in BOOLEAN
  BY DEF BgInv, Sound, BgTyped
<1>2. ASSUME NEW args \in Bg!Args, Bg!Sync(args) PROVE BgInv'
  <2>1. Bg!Op("sync", args, 0) \in BgOperations /\ Bg!Op("sync", args, 0).at = "start" /\ Bg!Op("sync", args, 0).waits = {}
        /\ Bg!Op("sync", args, 0).args \in Bg!Args
    BY DEF Bg!Op, BgOperations, BgStages
  <2> HIDE DEF Bg!Op
  <2>2. QED
    BY <1>1, <1>2, <2>1, BgQueues, BgAppends, BgCalls DEF Bg!Sync
<1>3. ASSUME NEW ch \in Channels, Bg!Release(ch) PROVE BgInv'
  <2>1. Bg!Op("release", Bg!NoArgs, ch) \in BgOperations /\ Bg!Op("release", Bg!NoArgs, ch).at = "start"
        /\ Bg!Op("release", Bg!NoArgs, ch).waits = {} /\ Bg!Op("release", Bg!NoArgs, ch).kind = "release"
    BY DEF Bg!Op, BgOperations, BgStages
  <2> HIDE DEF Bg!Op
  <2>2. QED
    BY <1>1, <1>3, <2>1, BgQueues, BgAppends, BgCalls DEF Bg!Release
<1>4. ASSUME Bg!Disconnect PROVE BgInv'
  <2>1. Bg!Op("disconnect", Bg!NoArgs, 0) \in BgOperations /\ Bg!Op("disconnect", Bg!NoArgs, 0).at = "start"
        /\ Bg!Op("disconnect", Bg!NoArgs, 0).waits = {} /\ Bg!Op("disconnect", Bg!NoArgs, 0).kind = "disconnect"
    BY DEF Bg!Op, BgOperations, BgStages
  <2> HIDE DEF Bg!Op
  <2>2. QED
    BY <1>1, <1>4, <2>1, BgQueues, BgAppends, BgCalls DEF Bg!Disconnect
<1>5. ASSUME Bg!RetryFires PROVE BgInv'
  <2>1. spent' \in [calls : 0..MaxCalls, faults : 0..MaxFaults]
    BY <1>5 DEF Bg!RetryFires, BgInv, Sound, BgTyped
  <2>2. CASE last.none
    <3>1. queue' = queue /\ queue \in Seq(BgOperations)
      BY <1>5, <2>2 DEF Bg!RetryFires, BgInv, Sound, BgTyped
    <3>2. \A k \in DOMAIN queue : queue[k].at = "start" /\ queue[k].waits = {} /\ (queue[k].kind = "sync" => queue[k].args \in Bg!Args)
      BY DEF BgInv, Sound, OneByOne, Wanted
    <3>3. QED
      BY <1>1, <1>5, <2>1, <3>1, <3>2, BgQueues DEF Bg!RetryFires
  <2>3. CASE ~last.none
    <3>1. last \in Bg!Args
      BY <1>1, <2>3 DEF Bg!NoArgs
    <3>2. Bg!Op("sync", last, 0) \in BgOperations /\ Bg!Op("sync", last, 0).at = "start" /\ Bg!Op("sync", last, 0).waits = {}
          /\ Bg!Op("sync", last, 0).args \in Bg!Args
      BY <3>1 DEF Bg!Op, BgOperations, BgStages
    <3> HIDE DEF Bg!Op
    <3>3. QED
      BY <1>1, <1>5, <2>1, <2>3, <3>2, BgQueues, BgAppends DEF Bg!RetryFires
  <2>4. QED
    BY <2>2, <2>3
<1>6. QED
  BY <1>2, <1>3, <1>4, <1>5

\* The next operation begins when none runs.
LEMMA BgBegins ==
    ASSUME BgInv, Bg!Begins
    PROVE  BgInv'
<1> DEFINE op == Head(queue)
<1>1. /\ queue \in Seq(BgOperations) /\ queue # <<>>
      /\ \A k \in DOMAIN queue : queue[k].at = "start" /\ queue[k].waits = {} /\ (queue[k].kind = "sync" => queue[k].args \in Bg!Args)
  BY DEF BgInv, Sound, OneByOne, Wanted, BgTyped, Bg!Begins, Bg!MayStart
<1>2. /\ running = {} /\ running' = {op} /\ queue' = Tail(queue) /\ op \in BgOperations
      /\ UNCHANGED <<sess, private, lru, ctl, room, opening, last, retry, released, spent>>
  BY <1>1 DEF Bg!Begins, Bg!MayStart
<1>3. op.at = "start" /\ op.waits = {} /\ (op.kind = "sync" => op.args \in Bg!Args)
  BY <1>1
<1>4. /\ queue' \in Seq(BgOperations)
      /\ \A k \in DOMAIN queue' : queue'[k].at = "start" /\ queue'[k].waits = {} /\ (queue'[k].kind = "sync" => queue'[k].args \in Bg!Args)
  <2>1. /\ queue' \in Seq(BgOperations) /\ Len(queue) \in Nat /\ DOMAIN queue = 1..Len(queue)
        /\ DOMAIN queue' = 1..(Len(queue) - 1) /\ \A k \in 1..(Len(queue) - 1) : queue'[k] = queue[k + 1]
    BY <1>1, <1>2
  <2>2. ASSUME NEW k \in DOMAIN queue' PROVE k + 1 \in DOMAIN queue /\ queue'[k] = queue[k + 1]
    BY <2>1
  <2>3. QED
    BY <1>1, <2>1, <2>2
<1> HIDE DEF op
<1>5. BgTyped'
  BY <1>2, <1>4 DEF BgInv, Sound, BgTyped
<1>6. OneHolder' /\ ListedOnce' /\ OpensOnce' /\ RoomMade' /\ Bg!Limits
  BY <1>2 DEF BgInv, Sound, OneHolder, ListedOnce, Privates, OpensOnce, RoomMade
<1>7. OneByOne'
  <2>1. \A i \in Slots : ~(room[i] \in Bg!Keys /\ ctl[i] \in {"connecting", "closing"})
    BY <1>2 DEF BgInv, Sound, OneByOne
  <2>2. QED
    BY <1>2, <1>3, <1>4, <2>1 DEF BgInv, Sound, OneByOne
<1>8. Wanted'
  BY <1>2, <1>3, <1>4 DEF BgInv, Sound, Wanted, OpenIn
<1>9. QED
  BY <1>5, <1>6, <1>7, <1>8 DEF BgInv, Sound

---------------------------------------------------------------------------
(* The operations: one runs, and waits for what it closed or opened. *)

\* The running operation goes on to its next step.
LEMMA BgGoes ==
    ASSUME BgInv, NEW op \in running, NEW at \in BgStages, at # "start", NEW waits \in SUBSET Slots,
           Bg!Goes(op, at, waits)
    PROVE  \E np \in BgOperations : /\ running' = {np}
                                    /\ np.kind = op.kind /\ np.args = op.args /\ np.at = at /\ np.waits = waits
<1> DEFINE np == [op EXCEPT !.at = at, !.waits = waits]
<1>1. running = {op} /\ op \in BgOperations
  BY DEF BgInv, Sound, OneByOne, BgTyped
<1>2. running' = {np}
  BY <1>1 DEF Bg!Goes
<1>3. np \in BgOperations /\ np.kind = op.kind /\ np.args = op.args /\ np.at = at /\ np.waits = waits
  BY <1>1 DEF BgOperations
<1> HIDE DEF np
<1>4. QED
  BY <1>2, <1>3

\* The private sessions and the queue are as they were.
LEMMA BgPrivatesStay ==
    ASSUME BgInv, UNCHANGED <<private, lru, queue, opening>>
    PROVE  ListedOnce' /\ OpensOnce' /\ RoomMade'
BY DEF BgInv, Sound, ListedOnce, Privates, OpensOnce, RoomMade

\* The sessions of K leave the map; the operation waits until they are closed.
LEMMA BgCloses ==
    ASSUME BgInv, NEW op \in running, op.waits = {}, NEW K \in SUBSET Bg!Keys, NEW at \in BgStages, at # "start",
           sess' = Bg!Without(K), ctl' = Bg!Closing(ctl, Bg!Held(K)), Bg!Goes(op, at, Bg!Held(K)),
           UNCHANGED <<room, private, lru, queue, opening, last, spent, retry>>
    PROVE  /\ BgTyped' /\ OneHolder' /\ OneByOne' /\ ListedOnce' /\ OpensOnce' /\ RoomMade'
           /\ \E np \in BgOperations : running' = {np} /\ np.kind = op.kind /\ np.args = op.args /\ np.at = at
           /\ \A S \in SUBSET Bg!Keys : OpenIn(S)' \subseteq OpenIn(S) \ K
<1> DEFINE H == Bg!Held(K)
<1>1. BgTyped /\ OneHolder /\ OneByOne /\ 0 \notin Slots /\ 0 \notin Bg!Keys /\ Friends \cap Bg!Keys = {}
  BY BgConstants DEF BgInv, Sound
<1>2. /\ H \subseteq Slots /\ \A k \in K : sess[k] # 0 => sess[k] \in H
      /\ \A i \in H : i # 0 /\ \E k \in K : sess[k] = i
  BY <1>1 DEF Bg!Held, BgTyped
<1>3. /\ \A k \in Bg!Keys : sess'[k] = IF k \in K THEN 0 ELSE sess[k]
      /\ \A i \in Slots : ctl'[i] = IF i \in H THEN "closing" ELSE ctl[i]
      /\ sess' \in [Bg!Keys -> Slots \cup {0}]
      /\ ctl' \in [Slots -> {"free", "connecting", "on", "error", "closing"}]
  <2>1. sess' \in [Bg!Keys -> Slots \cup {0}] /\ \A k \in Bg!Keys : sess'[k] = IF k \in K THEN 0 ELSE sess[k]
    BY <1>1 DEF BgTyped, Bg!Without
  <2>2. /\ \A i \in Slots : ctl'[i] = IF i \in H THEN "closing" ELSE ctl[i]
        /\ ctl' \in [Slots -> {"free", "connecting", "on", "error", "closing"}]
    BY <1>1 DEF BgTyped, Bg!Closing
  <2>3. QED
    BY <2>1, <2>2
<1>4. PICK np \in BgOperations : running' = {np} /\ np.kind = op.kind /\ np.args = op.args /\ np.at = at /\ np.waits = H
  BY <1>2, BgGoes
<1> HIDE DEF H
<1>5. \A i \in H : room[i] \in K /\ ctl[i] \in {"connecting", "on"} /\ sess[room[i]] = i
  BY <1>1, <1>2 DEF OneHolder
<1>6. BgTyped'
  BY <1>1, <1>3, <1>4 DEF BgTyped
<1>7. OneHolder'
  <2>1. ASSUME NEW k \in Bg!Keys, sess'[k] # 0 PROVE ctl'[sess'[k]] \in {"connecting", "on"} /\ room'[sess'[k]] = k
    <3>1. k \notin K /\ sess'[k] = sess[k] /\ sess[k] \in Slots /\ room[sess[k]] = k
      BY <1>1, <1>3, <2>1 DEF OneHolder, BgTyped
    <3>2. sess[k] \notin H
      BY <1>5, <3>1
    <3>3. QED
      BY <1>1, <1>3, <3>1, <3>2 DEF OneHolder
  <2>2. ASSUME NEW f \in Friends, private'[f] # 0
        PROVE  ctl'[private'[f]] \in {"connecting", "on", "error"} /\ room'[private'[f]] = f
    <3>1. private[f] \in Slots /\ room[private[f]] = f /\ private'[f] = private[f]
      BY <1>1, <2>2 DEF OneHolder, BgTyped
    <3>2. private[f] \notin H
      BY <1>1, <1>5, <3>1
    <3>3. QED
      BY <1>1, <1>3, <2>2, <3>1, <3>2 DEF OneHolder
  <2>3. ASSUME NEW i \in Slots PROVE ctl'[i] = "free" <=> room'[i] = 0
    BY <1>1, <1>3, <1>5 DEF OneHolder
  <2>4. ASSUME NEW i \in Slots, ctl'[i] \in {"connecting", "on", "error"}
        PROVE  (room'[i] \in Bg!Keys /\ sess'[room'[i]] = i) \/ (room'[i] \in Friends /\ private'[room'[i]] = i)
    <3>1. i \notin H /\ ctl[i] \in {"connecting", "on", "error"}
      BY <1>3, <2>4
    <3>2. CASE room[i] \in Bg!Keys /\ sess[room[i]] = i
      <4>1. room[i] \notin K
        BY <1>1, <1>2, <3>1, <3>2
      <4>2. QED
        BY <1>3, <3>2, <4>1
    <3>3. CASE room[i] \in Friends /\ private[room[i]] = i
      BY <3>3
    <3>4. QED
      BY <1>1, <3>1, <3>2, <3>3 DEF OneHolder
  <2>5. QED
    BY <2>1, <2>2, <2>3, <2>4 DEF OneHolder
<1>8. OneByOne'
  <2>1. \A i \in Slots : room[i] \in Bg!Keys => ctl[i] \notin {"connecting", "closing"}
    <3>1. \A p \in running : p = op
      BY <1>1 DEF OneByOne
    <3>2. QED
      BY <1>1, <3>1 DEF OneByOne
  <2>2. ASSUME NEW i \in Slots, room'[i] \in Bg!Keys, ctl'[i] \in {"connecting", "closing"} PROVE i \in np.waits
    BY <1>3, <1>4, <2>1, <2>2
  <2>3. QED
    BY <1>1, <1>4, <2>2 DEF OneByOne
<1>9. \A S \in SUBSET Bg!Keys : OpenIn(S)' \subseteq OpenIn(S) \ K
  BY <1>3 DEF OpenIn
<1>10. QED
  BY <1>4, <1>6, <1>7, <1>8, <1>9, BgPrivatesStay

\* Each key of M gets a controller f[k] that was free, which connects.
BgConnecting(op, M, f, at) ==
    /\ M \in SUBSET Bg!Keys /\ (\A k \in M : sess[k] = 0)
    /\ f \in [M -> Slots] /\ (\A k \in M : ctl[f[k]] = "free") /\ \A k, l \in M : f[k] = f[l] => k = l
    /\ sess' \in [Bg!Keys -> Slots \cup {0}] /\ \A k \in Bg!Keys : sess'[k] = IF k \in M THEN f[k] ELSE sess[k]
    /\ ctl' \in [Slots -> {"free", "connecting", "on", "error", "closing"}]
    /\ room' \in [Slots -> Bg!Keys \cup Friends \cup {0}]
    /\ \A k \in M : ctl'[f[k]] = "connecting" /\ room'[f[k]] = k
    /\ \A i \in Slots : (\A k \in M : f[k] # i) => ctl'[i] = ctl[i] /\ room'[i] = room[i]
    /\ \E N \in SUBSET Slots : Bg!Goes(op, at, N) /\ \A i \in Slots : i \in N <=> \E k \in M : f[k] = i

\* Each key of M gets a controller of its own; the operation waits until they are connected.
LEMMA BgConnects ==
    ASSUME BgInv, NEW op \in running, op.waits = {}, NEW M, NEW f, NEW at \in BgStages, at # "start",
           BgConnecting(op, M, f, at), UNCHANGED <<private, lru, queue, opening, last, spent, retry>>
    PROVE  /\ BgTyped' /\ OneHolder' /\ OneByOne' /\ ListedOnce' /\ OpensOnce' /\ RoomMade'
           /\ \E np \in BgOperations : running' = {np} /\ np.kind = op.kind /\ np.args = op.args /\ np.at = at
           /\ \A S \in SUBSET Bg!Keys : OpenIn(S)' \subseteq OpenIn(S) \cup (S \cap M)
<1> USE DEF BgConnecting
<1> PICK N \in SUBSET Slots : Bg!Goes(op, at, N) /\ \A i \in Slots : i \in N <=> \E k \in M : f[k] = i
  OBVIOUS
<1>1. BgTyped /\ OneHolder /\ OneByOne /\ 0 \notin Slots /\ 0 \notin Bg!Keys /\ Friends \cap Bg!Keys = {}
  BY BgConstants DEF BgInv, Sound
<1>2. N \subseteq Slots /\ \A i \in N : ctl[i] = "free" /\ room[i] = 0 /\ \E k \in M : f[k] = i
  BY <1>1 DEF OneHolder
<1>3. \A i \in Slots : i \notin N => ctl'[i] = ctl[i] /\ room'[i] = room[i]
  OBVIOUS
<1>4. /\ \A k \in Bg!Keys : sess'[k] = IF k \in M THEN f[k] ELSE sess[k]
      /\ sess' \in [Bg!Keys -> Slots \cup {0}]
  BY <1>1 DEF BgTyped
<1>5. PICK np \in BgOperations : running' = {np} /\ np.kind = op.kind /\ np.args = op.args /\ np.at = at /\ np.waits = N
  BY <1>2, BgGoes
<1>6. \A k \in M : f[k] \in N
  OBVIOUS
<1>7. BgTyped'
  BY <1>1, <1>4, <1>5 DEF BgTyped
<1>8. OneHolder'
  <2>1. ASSUME NEW k \in Bg!Keys, sess'[k] # 0 PROVE ctl'[sess'[k]] \in {"connecting", "on"} /\ room'[sess'[k]] = k
    <3>1. CASE k \in M
      BY <1>4, <3>1
    <3>2. CASE k \notin M
      <4>1. sess'[k] = sess[k] /\ sess[k] \in Slots /\ room[sess[k]] = k /\ ctl[sess[k]] \in {"connecting", "on"}
        BY <1>1, <1>4, <2>1, <3>2 DEF OneHolder, BgTyped
      <4>2. sess[k] \notin N
        BY <1>2, <4>1
      <4>3. QED
        BY <1>3, <4>1, <4>2
    <3>3. QED
      BY <3>1, <3>2
  <2>2. ASSUME NEW g \in Friends, private'[g] # 0
        PROVE  ctl'[private'[g]] \in {"connecting", "on", "error"} /\ room'[private'[g]] = g
    <3>1. private[g] \in Slots /\ room[private[g]] = g /\ private'[g] = private[g] /\ ctl[private[g]] \in {"connecting", "on", "error"}
      BY <1>1, <2>2 DEF OneHolder, BgTyped
    <3>2. private[g] \notin N
      BY <1>2, <3>1
    <3>3. QED
      BY <1>3, <3>1, <3>2
  <2>3. ASSUME NEW i \in Slots PROVE ctl'[i] = "free" <=> room'[i] = 0
    <3>1. CASE i \in N
      BY <1>1, <1>2, <3>1
    <3>2. CASE i \notin N
      BY <1>1, <1>3, <3>2 DEF OneHolder
    <3>3. QED
      BY <3>1, <3>2
  <2>4. ASSUME NEW i \in Slots, ctl'[i] \in {"connecting", "on", "error"}
        PROVE  (room'[i] \in Bg!Keys /\ sess'[room'[i]] = i) \/ (room'[i] \in Friends /\ private'[room'[i]] = i)
    <3>1. CASE i \in N
      BY <1>2, <1>4, <3>1
    <3>2. CASE i \notin N
      <4>1. ctl[i] \in {"connecting", "on", "error"} /\ room'[i] = room[i]
        BY <1>3, <2>4, <3>2
      <4>2. CASE room[i] \in Bg!Keys /\ sess[room[i]] = i
        BY <1>1, <1>4, <4>1, <4>2
      <4>3. CASE room[i] \in Friends /\ private[room[i]] = i
        BY <4>1, <4>3
      <4>4. QED
        BY <1>1, <4>1, <4>2, <4>3 DEF OneHolder
    <3>3. QED
      BY <3>1, <3>2
  <2>5. QED
    BY <2>1, <2>2, <2>3, <2>4 DEF OneHolder
<1>9. OneByOne'
  <2>1. \A i \in Slots : room[i] \in Bg!Keys => ctl[i] \notin {"connecting", "closing"}
    <3>1. \A p \in running : p = op
      BY <1>1 DEF OneByOne
    <3>2. QED
      BY <1>1, <3>1 DEF OneByOne
  <2>2. ASSUME NEW i \in Slots, room'[i] \in Bg!Keys, ctl'[i] \in {"connecting", "closing"} PROVE i \in np.waits
    BY <1>3, <1>5, <2>1, <2>2
  <2>3. ASSUME NEW i \in Slots, i \notin N, room'[i] \in Bg!Keys PROVE room'[i] \notin M
    <3>1. room[i] = room'[i] /\ ctl[i] \notin {"free", "connecting", "closing"}
      BY <1>1, <1>3, <2>1, <2>3 DEF OneHolder
    <3>2. ctl[i] \in {"on", "error"}
      BY <1>1, <3>1 DEF BgTyped
    <3>3. sess[room[i]] = i
      BY <1>1, <2>3, <3>1, <3>2 DEF OneHolder
    <3>4. QED
      BY <1>1, <3>1, <3>3
  <2>4. ASSUME NEW i \in Slots, NEW j \in Slots, room'[i] = room'[j], room'[i] \in Bg!Keys PROVE i = j
    <3>1. CASE i \in N /\ j \in N
      BY <1>2, <2>4, <3>1
    <3>2. CASE i \in N /\ j \notin N
      BY <1>2, <2>3, <2>4, <3>2
    <3>3. CASE i \notin N /\ j \in N
      BY <1>2, <2>3, <2>4, <3>3
    <3>4. CASE i \notin N /\ j \notin N
      BY <1>1, <1>3, <2>4, <3>4 DEF OneByOne
    <3>5. QED
      BY <3>1, <3>2, <3>3, <3>4
  <2>5. QED
    BY <1>1, <1>5, <2>2, <2>4 DEF OneByOne
<1>10. \A S \in SUBSET Bg!Keys : OpenIn(S)' \subseteq OpenIn(S) \cup (S \cap M)
  BY <1>4 DEF OpenIn
<1>11. QED
  BY <1>5, <1>7, <1>8, <1>9, <1>10, BgPrivatesStay

LEMMA BgOpens ==
    ASSUME BgInv, NEW op \in running, op.waits = {}, NEW W \in SUBSET Bg!Keys, NEW at \in BgStages, at # "start",
           Bg!OpenWanted(op, W, at), UNCHANGED <<private, lru, queue, opening, last, spent, retry>>
    PROVE  /\ BgTyped' /\ OneHolder' /\ OneByOne' /\ ListedOnce' /\ OpensOnce' /\ RoomMade'
           /\ \E np \in BgOperations : running' = {np} /\ np.kind = op.kind /\ np.args = op.args /\ np.at = at
           /\ \A S \in SUBSET Bg!Keys : OpenIn(S)' \subseteq OpenIn(S) \cup (S \cap W)
<1> DEFINE M == {k \in W : sess[k] = 0}
           f == CHOOSE f \in Bg!NewControllers(M) : TRUE
           for(i) == {k \in M : f[k] = i}
<1>1. BgTyped
  BY DEF BgInv, Sound
<1>2. f \in Bg!NewControllers(M)
  BY DEF Bg!OpenWanted
<1>3. /\ sess' = [k \in Bg!Keys |-> IF k \in M THEN f[k] ELSE sess[k]]
      /\ ctl' = [i \in Slots |-> IF for(i) # {} THEN "connecting" ELSE ctl[i]]
      /\ room' = [i \in Slots |-> IF for(i) # {} THEN CHOOSE k \in for(i) : TRUE ELSE room[i]]
      /\ Bg!Goes(op, at, {f[k] : k \in M})
  BY DEF Bg!OpenWanted
<1> HIDE DEF f
<1>4. M \in SUBSET Bg!Keys /\ \A k \in M : sess[k] = 0
  OBVIOUS
<1>5. f \in [M -> Slots] /\ (\A k \in M : ctl[f[k]] = "free") /\ \A k, l \in M : f[k] = f[l] => k = l
  BY <1>2 DEF Bg!NewControllers, Bg!Free
<1> HIDE DEF M
<1>6. ASSUME NEW k \in M PROVE for(f[k]) = {k}
  BY <1>5
<1>7. \A i \in Slots : (\A k \in M : f[k] # i) => for(i) = {}
  OBVIOUS
<1>8. \A i \in Slots : for(i) # {} => (CHOOSE k \in for(i) : TRUE) \in Bg!Keys
  BY <1>4
<1>9. \A k \in M : f[k] \in Slots /\ for(f[k]) # {} /\ (CHOOSE l \in for(f[k]) : TRUE) = k
  BY <1>5, <1>6
<1> HIDE DEF for
<1>10. /\ ctl' \in [Slots -> {"free", "connecting", "on", "error", "closing"}]
       /\ room' \in [Slots -> Bg!Keys \cup Friends \cup {0}]
  <2>1. ctl' \in [Slots -> {"free", "connecting", "on", "error", "closing"}]
    BY <1>1, <1>3 DEF BgTyped
  <2>2. room' \in [Slots -> Bg!Keys \cup Friends \cup {0}]
    BY <1>1, <1>3, <1>8 DEF BgTyped
  <2>3. QED
    BY <2>1, <2>2
<1>11. \A k \in M : ctl'[f[k]] = "connecting" /\ room'[f[k]] = k
  BY <1>3, <1>9
<1>12. \A i \in Slots : (\A k \in M : f[k] # i) => ctl'[i] = ctl[i] /\ room'[i] = room[i]
  BY <1>3, <1>7
<1>13. /\ sess' \in [Bg!Keys -> Slots \cup {0}] /\ \A k \in Bg!Keys : sess'[k] = IF k \in M THEN f[k] ELSE sess[k]
  BY <1>1, <1>3, <1>5 DEF BgTyped
<1>14. \E N \in SUBSET Slots : Bg!Goes(op, at, N) /\ \A i \in Slots : i \in N <=> \E k \in M : f[k] = i
  <2>1. {f[k] : k \in M} \in SUBSET Slots /\ \A i \in Slots : i \in {f[k] : k \in M} <=> \E k \in M : f[k] = i
    BY <1>5
  <2>2. QED
    BY <1>3, <2>1
<1>15. BgConnecting(op, M, f, at)
  BY <1>4, <1>5, <1>10, <1>11, <1>12, <1>13, <1>14 DEF BgConnecting
<1>16. /\ BgTyped' /\ OneHolder' /\ OneByOne' /\ ListedOnce' /\ OpensOnce' /\ RoomMade'
       /\ \E np \in BgOperations : running' = {np} /\ np.kind = op.kind /\ np.args = op.args /\ np.at = at
       /\ \A S \in SUBSET Bg!Keys : OpenIn(S)' \subseteq OpenIn(S) \cup (S \cap M)
  BY <1>15, BgConnects
<1>17. QED
  BY <1>16 DEF M

\* What a sync wants of the channels and of the groups.
LEMMA BgDesired ==
    ASSUME Bg!Limits, NEW a \in Bg!Args
    PROVE  /\ Bg!DesiredGroups(a) \subseteq Groups /\ Bg!DesiredChannels(a) \subseteq Channels
           /\ Groups \in SUBSET Bg!Keys /\ Channels \in SUBSET Bg!Keys /\ Channels \cap Groups = {}
BY BgConstants DEF Bg!DesiredGroups, Bg!DesiredChannels, Bg!First, Bg!Args, Bg!Keys

\* The operation ends, or goes on with the sessions as they were, or is replaced.
LEMMA BgEnds ==
    ASSUME BgInv, NEW op \in running, op.waits = {}, Bg!Ends(op), retry' \in BOOLEAN,
           UNCHANGED <<sess, private, lru, ctl, room, queue, opening, last>>,
           spent' \in [calls : 0..MaxCalls, faults : 0..MaxFaults]
    PROVE  BgInv'
<1>1. running' = {}
  BY DEF BgInv, Sound, OneByOne, Bg!Ends
<1>2. \A i \in Slots : ~(room[i] \in Bg!Keys /\ ctl[i] \in {"connecting", "closing"})
  BY DEF BgInv, Sound, OneByOne
<1>3. BgTyped'
  BY <1>1 DEF BgInv, Sound, BgTyped
<1>4. OneHolder' /\ ListedOnce' /\ OpensOnce' /\ RoomMade' /\ Bg!Limits
  BY DEF BgInv, Sound, OneHolder, ListedOnce, Privates, OpensOnce, RoomMade
<1>5. OneByOne'
  BY <1>1, <1>2 DEF BgInv, Sound, OneByOne
<1>6. Wanted'
  BY <1>1 DEF BgInv, Sound, Wanted, OpenIn
<1>7. QED
  BY <1>3, <1>4, <1>5, <1>6 DEF BgInv, Sound

LEMMA BgSyncs ==
    ASSUME BgInv, NEW op \in running,
           Bg!SyncGroups(op) \/ Bg!SyncIdentity(op) \/ Bg!SyncChannels(op) \/ Bg!SyncOpens(op)
    PROVE  BgInv'
<1> DEFINE a == op.args
           G == Bg!DesiredGroups(a)
           C == Bg!DesiredChannels(a)
<1>1. op.kind = "sync"
  BY DEF Bg!SyncGroups, Bg!SyncIdentity, Bg!SyncChannels, Bg!SyncOpens
<1>2. /\ a \in Bg!Args /\ op.waits = {} /\ UNCHANGED <<private, lru, queue, opening, last, spent, retry>>
      /\ op.at = "identity" => OpenIn(Groups) \subseteq G
      /\ op.at = "close" => OpenIn(Channels) \subseteq C
  <2>1. op.waits = {}
    BY DEF Bg!SyncGroups, Bg!SyncIdentity, Bg!SyncChannels, Bg!SyncOpens, Bg!Done, BgInv, Sound, OneByOne
  <2>2. UNCHANGED <<private, lru, queue, opening, last, spent, retry>>
    BY DEF Bg!SyncGroups, Bg!SyncIdentity, Bg!SyncChannels, Bg!SyncOpens, Bg!Same
  <2>3. QED
    BY <1>1, <2>1, <2>2 DEF BgInv, Sound, Wanted
<1>3. /\ G \subseteq Groups /\ C \subseteq Channels /\ Bg!Limits
      /\ Groups \in SUBSET Bg!Keys /\ Channels \in SUBSET Bg!Keys /\ Channels \cap Groups = {}
  BY <1>2, BgDesired DEF BgInv, Sound
<1>4. \E b \in Bg!Args : OpenIn(Channels) \subseteq Bg!DesiredChannels(b)
  BY DEF BgInv, Sound, Wanted
<1>5. \E b \in Bg!Args : OpenIn(Groups) \subseteq Bg!DesiredGroups(b)
  BY DEF BgInv, Sound, Wanted
<1>6. \A k \in DOMAIN queue : queue[k].kind = "sync" => queue[k].args \in Bg!Args
  BY DEF BgInv, Sound, Wanted
<1>7. BgStages = {"start", "identity", "groups", "close", "channels"}
  BY DEF BgStages
<1> HIDE DEF G, C, a
<1>8. CASE Bg!SyncGroups(op)
  <2>1. /\ BgTyped' /\ OneHolder' /\ OneByOne' /\ ListedOnce' /\ OpensOnce' /\ RoomMade'
        /\ \E np \in BgOperations : running' = {np} /\ np.kind = op.kind /\ np.args = op.args /\ np.at = "identity"
        /\ \A S \in SUBSET Bg!Keys : OpenIn(S)' \subseteq OpenIn(S) \ (Groups \ G)
    <3>1. /\ sess' = Bg!Without(Groups \ G) /\ ctl' = Bg!Closing(ctl, Bg!Held(Groups \ G))
          /\ Bg!Goes(op, "identity", Bg!Held(Groups \ G)) /\ UNCHANGED room
      BY <1>8 DEF Bg!SyncGroups, Bg!CloseUnwanted, G, a
    <3>2. (Groups \ G) \in SUBSET Bg!Keys /\ "identity" \in BgStages
      BY <1>3, <1>7
    <3>3. QED
      BY <1>2, <3>1, <3>2, BgCloses
  <2>2. OpenIn(Groups)' \subseteq G /\ OpenIn(Channels)' \subseteq OpenIn(Channels)
    <3>1. OpenIn(Groups) \subseteq Groups
      BY DEF OpenIn
    <3>2. OpenIn(Groups)' \subseteq OpenIn(Groups) \ (Groups \ G) /\ OpenIn(Channels)' \subseteq OpenIn(Channels) \ (Groups \ G)
      BY <1>3, <2>1
    <3>3. QED
      BY <3>1, <3>2
  <2>3. Wanted'
    <3>1. \E b \in Bg!Args : OpenIn(Groups)' \subseteq Bg!DesiredGroups(b)
      BY <1>2, <2>2 DEF G
    <3>2. QED
      BY <1>2, <1>4, <1>6, <2>1, <2>2, <3>1 DEF Wanted, G, a
  <2>4. QED
    BY <1>3, <2>1, <2>3 DEF BgInv, Sound
<1>9. CASE Bg!SyncIdentity(op)
  <2>1. /\ BgTyped' /\ OneHolder' /\ OneByOne' /\ ListedOnce' /\ OpensOnce' /\ RoomMade'
        /\ \E np \in BgOperations : running' = {np} /\ np.kind = op.kind /\ np.args = op.args /\ np.at = "groups"
        /\ \A S \in SUBSET Bg!Keys : OpenIn(S)' \subseteq OpenIn(S) \cup (S \cap G)
    <3>1. Bg!OpenWanted(op, G, "groups")
      BY <1>9 DEF Bg!SyncIdentity, G, a
    <3>2. G \in SUBSET Bg!Keys /\ "groups" \in BgStages
      BY <1>3, <1>7
    <3>3. QED
      BY <1>2, <3>1, <3>2, BgOpens
  <2>2. OpenIn(Groups)' \subseteq G /\ OpenIn(Channels)' \subseteq OpenIn(Channels)
    <3>1. op.at = "identity"
      BY <1>9 DEF Bg!SyncIdentity
    <3>2. OpenIn(Groups)' \subseteq OpenIn(Groups) \cup (Groups \cap G) /\ OpenIn(Channels)' \subseteq OpenIn(Channels) \cup (Channels \cap G)
      BY <1>3, <2>1
    <3>3. QED
      BY <1>2, <1>3, <3>1, <3>2
  <2>3. Wanted'
    <3>1. \E b \in Bg!Args : OpenIn(Groups)' \subseteq Bg!DesiredGroups(b)
      BY <1>2, <2>2 DEF G
    <3>2. QED
      BY <1>2, <1>4, <1>6, <2>1, <2>2, <3>1 DEF Wanted, G, a
  <2>4. QED
    BY <1>3, <2>1, <2>3 DEF BgInv, Sound
<1>10. CASE Bg!SyncChannels(op)
  <2>1. /\ BgTyped' /\ OneHolder' /\ OneByOne' /\ ListedOnce' /\ OpensOnce' /\ RoomMade'
        /\ \E np \in BgOperations : running' = {np} /\ np.kind = op.kind /\ np.args = op.args /\ np.at = "close"
        /\ \A S \in SUBSET Bg!Keys : OpenIn(S)' \subseteq OpenIn(S) \ (Channels \ C)
    <3>1. /\ sess' = Bg!Without(Channels \ C) /\ ctl' = Bg!Closing(ctl, Bg!Held(Channels \ C))
          /\ Bg!Goes(op, "close", Bg!Held(Channels \ C)) /\ UNCHANGED room
      BY <1>10 DEF Bg!SyncChannels, Bg!CloseUnwanted, C, a
    <3>2. (Channels \ C) \in SUBSET Bg!Keys /\ "close" \in BgStages
      BY <1>3, <1>7
    <3>3. QED
      BY <1>2, <3>1, <3>2, BgCloses
  <2>2. OpenIn(Channels)' \subseteq C /\ OpenIn(Groups)' \subseteq OpenIn(Groups)
    <3>1. OpenIn(Channels) \subseteq Channels
      BY DEF OpenIn
    <3>2. OpenIn(Channels)' \subseteq OpenIn(Channels) \ (Channels \ C) /\ OpenIn(Groups)' \subseteq OpenIn(Groups) \ (Channels \ C)
      BY <1>3, <2>1
    <3>3. QED
      BY <3>1, <3>2
  <2>3. Wanted'
    <3>1. \E b \in Bg!Args : OpenIn(Channels)' \subseteq Bg!DesiredChannels(b)
      BY <1>2, <2>2 DEF C
    <3>2. QED
      BY <1>2, <1>5, <1>6, <2>1, <2>2, <3>1 DEF Wanted, C, a
  <2>4. QED
    BY <1>3, <2>1, <2>3 DEF BgInv, Sound
<1>11. CASE Bg!SyncOpens(op)
  <2>1. /\ BgTyped' /\ OneHolder' /\ OneByOne' /\ ListedOnce' /\ OpensOnce' /\ RoomMade'
        /\ \E np \in BgOperations : running' = {np} /\ np.kind = op.kind /\ np.args = op.args /\ np.at = "channels"
        /\ \A S \in SUBSET Bg!Keys : OpenIn(S)' \subseteq OpenIn(S) \cup (S \cap C)
    <3>1. Bg!OpenWanted(op, C, "channels")
      BY <1>11 DEF Bg!SyncOpens, C, a
    <3>2. C \in SUBSET Bg!Keys /\ "channels" \in BgStages
      BY <1>3, <1>7
    <3>3. QED
      BY <1>2, <3>1, <3>2, BgOpens
  <2>2. OpenIn(Channels)' \subseteq C /\ OpenIn(Groups)' \subseteq OpenIn(Groups)
    <3>1. op.at = "close"
      BY <1>11 DEF Bg!SyncOpens
    <3>2. OpenIn(Groups)' \subseteq OpenIn(Groups) \cup (Groups \cap C) /\ OpenIn(Channels)' \subseteq OpenIn(Channels) \cup (Channels \cap C)
      BY <1>3, <2>1
    <3>3. QED
      BY <1>2, <1>3, <3>1, <3>2
  <2>3. Wanted'
    <3>1. \E b \in Bg!Args : OpenIn(Channels)' \subseteq Bg!DesiredChannels(b)
      BY <1>2, <2>2 DEF C
    <3>2. QED
      BY <1>2, <1>5, <1>6, <2>1, <2>2, <3>1 DEF Wanted, C, a
  <2>4. QED
    BY <1>3, <2>1, <2>3 DEF BgInv, Sound
<1>12. QED
  BY <1>8, <1>9, <1>10, <1>11

LEMMA BgOthers ==
    ASSUME BgInv, NEW op \in running,
           Bg!SyncEnds(op) \/ Bg!ReleaseRuns(op) \/ Bg!Returns(op) \/ Bg!IdentityFails(op)
    PROVE  BgInv'
<1>1. op.waits = {} /\ op \in BgOperations /\ retry \in BOOLEAN /\ spent \in [calls : 0..MaxCalls, faults : 0..MaxFaults]
  BY DEF Bg!SyncEnds, Bg!ReleaseRuns, Bg!Returns, Bg!IdentityFails, Bg!Done, BgInv, Sound, OneByOne, BgTyped
<1>2. CASE Bg!SyncEnds(op)
  BY <1>1, <1>2, BgEnds DEF Bg!SyncEnds, Bg!Same
<1>3. CASE Bg!Returns(op)
  BY <1>1, <1>3, BgEnds DEF Bg!Returns, Bg!Same
<1>4. CASE Bg!IdentityFails(op)
  <2>1. Bg!Ends(op) /\ retry' \in BOOLEAN /\ UNCHANGED <<sess, private, lru, ctl, room, queue, opening, last>>
    BY <1>1, <1>4 DEF Bg!IdentityFails, Bg!Armed
  <2>2. spent' \in [calls : 0..MaxCalls, faults : 0..MaxFaults]
    BY <1>4, BgFaults DEF Bg!IdentityFails
  <2>3. QED
    BY <1>1, <2>1, <2>2, BgEnds
<1>5. CASE Bg!ReleaseRuns(op)
  <2>1. op.kind = "release" /\ {op.ch} \in SUBSET Bg!Keys /\ "close" \in BgStages
    BY <1>1, <1>5 DEF Bg!ReleaseRuns, BgOperations, Bg!Keys, BgStages
  <2>2. /\ sess' = Bg!Without({op.ch}) /\ ctl' = Bg!Closing(ctl, Bg!Held({op.ch})) /\ Bg!Goes(op, "close", Bg!Held({op.ch}))
        /\ UNCHANGED <<room, private, lru, queue, opening, last, spent, retry>>
    BY <1>5 DEF Bg!ReleaseRuns, Bg!Same
  <2>3. /\ BgTyped' /\ OneHolder' /\ OneByOne' /\ ListedOnce' /\ OpensOnce' /\ RoomMade'
        /\ \E np \in BgOperations : running' = {np} /\ np.kind = op.kind /\ np.args = op.args /\ np.at = "close"
        /\ \A S \in SUBSET Bg!Keys : OpenIn(S)' \subseteq OpenIn(S) \ {op.ch}
    BY <1>1, <2>1, <2>2, BgCloses
  <2>4. OpenIn(Channels)' \subseteq OpenIn(Channels) /\ OpenIn(Groups)' \subseteq OpenIn(Groups)
    <3>1. Channels \in SUBSET Bg!Keys /\ Groups \in SUBSET Bg!Keys
      BY DEF Bg!Keys
    <3>2. QED
      BY <2>3, <3>1
  <2>5. Wanted'
    <3>1. \A np \in running' : np.kind # "sync"
      BY <2>1, <2>3
    <3>2. \E b \in Bg!Args : OpenIn(Channels) \subseteq Bg!DesiredChannels(b)
      BY DEF BgInv, Sound, Wanted
    <3>3. \E b \in Bg!Args : OpenIn(Groups) \subseteq Bg!DesiredGroups(b)
      BY DEF BgInv, Sound, Wanted
    <3>4. \A k \in DOMAIN queue' : queue'[k].kind = "sync" => queue'[k].args \in Bg!Args
      BY <2>2 DEF BgInv, Sound, Wanted
    <3>5. QED
      BY <2>4, <3>1, <3>2, <3>3, <3>4 DEF Wanted
  <2>6. QED
    BY <2>3, <2>5 DEF BgInv, Sound
<1>6. QED
  BY <1>2, <1>3, <1>4, <1>5

---------------------------------------------------------------------------
(* The private conversations. *)

LEMMA BgSize ==
    ASSUME BgInv
    PROVE  /\ Bg!Size = Cardinality(Privates) /\ IsFiniteSet(Privates) /\ Cardinality(Privates) \in Nat
           /\ {lru[n] : n \in DOMAIN lru} = Privates /\ Len(lru) = Cardinality(Privates)
           /\ MaxPrivate \in Nat \ {0} /\ (Bg!Size > 0 => Head(lru) \in Privates)
<1>1. ListsOnce(lru, Privates) /\ Privates \in SUBSET Friends
  BY DEF BgInv, Sound, ListedOnce, Privates
<1>2. Bg!Size = Cardinality(Privates)
  BY BgCardinality DEF Bg!Size, Privates
<1>3. /\ Cardinality(Privates) = Len(lru) /\ IsFiniteSet(Privates) /\ {lru[n] : n \in DOMAIN lru} = Privates
      /\ Len(lru) \in Nat /\ (lru # <<>> => Head(lru) \in Privates)
  BY <1>1, Counts
<1>4. Bg!Size > 0 => lru # <<>>
  BY <1>2, <1>3
<1>5. MaxPrivate \in Nat \ {0}
  BY BgConstants DEF BgInv, Sound
<1>6. QED
  BY <1>2, <1>3, <1>4, <1>5

\* A conversation leaves the list and its controller is closed.
LEMMA BgForgets ==
    ASSUME BgInv, NEW f \in Friends, private[f] # 0, Bg!Forget(f), ctl' = Bg!Closing(ctl, {private[f]}),
           UNCHANGED <<sess, room, queue, running>>
    PROVE  /\ OneHolder' /\ OneByOne' /\ ListedOnce' /\ Wanted' /\ Privates' = Privates \ {f} /\ f \in Privates
           /\ private' \in [Friends -> Slots \cup {0}]
           /\ ctl' \in [Slots -> {"free", "connecting", "on", "error", "closing"}]
           /\ \A g \in Friends : private'[g] = IF g = f THEN 0 ELSE private[g]
           /\ (SerialPrivate => Cardinality(Privates') < MaxPrivate)
<1> DEFINE i == private[f]
<1>1. /\ BgTyped /\ OneHolder /\ OneByOne /\ Wanted /\ 0 \notin Slots /\ 0 \notin Bg!Keys /\ 0 \notin Friends
      /\ Friends \cap Bg!Keys = {}
  BY BgConstants DEF BgInv, Sound
<1>2. i \in Slots /\ room[i] = f /\ ctl[i] \in {"connecting", "on", "error"}
  BY <1>1 DEF BgTyped, OneHolder
<1>3. private' \in [Friends -> Slots \cup {0}] /\ \A g \in Friends : private'[g] = IF g = f THEN 0 ELSE private[g]
  BY <1>1 DEF Bg!Forget, BgTyped
<1>4. /\ ctl' \in [Slots -> {"free", "connecting", "on", "error", "closing"}]
      /\ \A j \in Slots : ctl'[j] = IF j = i THEN "closing" ELSE ctl[j]
  BY <1>1 DEF BgTyped, Bg!Closing
<1>5. Privates' = Privates \ {f} /\ f \in Privates
  BY <1>3 DEF Privates
<1>6. ListedOnce'
  <2>1. lru' = Bg!Unlisted(f) /\ ListedOnce
    BY DEF Bg!Forget, BgInv, Sound
  <2>2. QED
    BY <1>5, <2>1, Unlists DEF ListedOnce
<1> HIDE DEF i
<1>7. OneHolder'
  <2>1. \A k \in Bg!Keys : sess[k] # 0 => sess[k] # i
    BY <1>1, <1>2 DEF OneHolder
  <2>2. \A g \in Friends : g # f /\ private[g] # 0 => private[g] # i
    BY <1>1, <1>2 DEF OneHolder
  <2>3. \A k \in Bg!Keys : sess'[k] # 0 => ctl'[sess'[k]] \in {"connecting", "on"} /\ room'[sess'[k]] = k
    <3>1. ASSUME NEW k \in Bg!Keys, sess[k] # 0 PROVE ctl'[sess[k]] \in {"connecting", "on"} /\ room[sess[k]] = k
      <4>1. sess[k] \in Slots /\ sess[k] # i /\ ctl[sess[k]] \in {"connecting", "on"} /\ room[sess[k]] = k
        BY <1>1, <2>1, <3>1 DEF OneHolder, BgTyped
      <4>2. QED
        BY <1>4, <4>1
    <3>2. QED
      BY <3>1
  <2>4. \A g \in Friends : private'[g] # 0 => ctl'[private'[g]] \in {"connecting", "on", "error"} /\ room'[private'[g]] = g
    <3>1. ASSUME NEW g \in Friends, private'[g] # 0
          PROVE  ctl'[private'[g]] \in {"connecting", "on", "error"} /\ room[private'[g]] = g
      <4>1. private'[g] = private[g] /\ g # f /\ private[g] # 0
        BY <1>3, <3>1
      <4>2. /\ private[g] \in Slots /\ private[g] # i /\ ctl[private[g]] \in {"connecting", "on", "error"}
            /\ room[private[g]] = g
        BY <1>1, <2>2, <4>1 DEF OneHolder, BgTyped
      <4>3. QED
        BY <1>4, <4>1, <4>2
    <3>2. QED
      BY <3>1
  <2>5. \A j \in Slots : ctl'[j] = "free" <=> room'[j] = 0
    BY <1>1, <1>2, <1>4 DEF OneHolder
  <2>6. \A j \in Slots : ctl'[j] \in {"connecting", "on", "error"} =>
           (room'[j] \in Bg!Keys /\ sess'[room'[j]] = j) \/ (room'[j] \in Friends /\ private'[room'[j]] = j)
    <3>1. ASSUME NEW j \in Slots, ctl'[j] \in {"connecting", "on", "error"}
          PROVE  (room'[j] \in Bg!Keys /\ sess'[room'[j]] = j) \/ (room'[j] \in Friends /\ private'[room'[j]] = j)
      <4>1. j # i /\ ctl[j] \in {"connecting", "on", "error"}
        BY <1>4, <3>1
      <4>2. room[j] \in Friends /\ private[room[j]] = j => room[j] # f
        BY <4>1 DEF i
      <4>3. QED
        BY <1>1, <1>3, <4>1, <4>2 DEF OneHolder
    <3>2. QED
      BY <3>1
  <2>7. QED
    BY <2>3, <2>4, <2>5, <2>6 DEF OneHolder
<1>8. OneByOne'
  BY <1>1, <1>2, <1>4 DEF OneByOne
<1>9. Wanted'
  BY <1>1 DEF Wanted, OpenIn
<1>10. SerialPrivate => Cardinality(Privates') < MaxPrivate
  <2>1. SUFFICES ASSUME SerialPrivate PROVE Cardinality(Privates') < MaxPrivate
    OBVIOUS
  <2>2. Cardinality(Privates) <= MaxPrivate /\ IsFiniteSet(Privates) /\ Cardinality(Privates) \in Nat /\ MaxPrivate \in Nat
    BY <2>1, BgSize DEF BgInv, RoomMade
  <2>3. Cardinality(Privates \ {f}) = Cardinality(Privates) - 1
    BY <1>5, <2>2, FS_RemoveElement
  <2>4. QED
    BY <1>5, <2>2, <2>3
<1>11. QED
  BY <1>3, <1>4, <1>5, <1>6, <1>7, <1>8, <1>9, <1>10

\* The sessions and the operations are as they were.
LEMMA BgSessionsStay ==
    ASSUME BgInv, UNCHANGED <<sess, private, ctl, room, queue, running>>
    PROVE  OneHolder' /\ OneByOne' /\ Wanted' /\ Privates' = Privates
BY DEF BgInv, Sound, OneHolder, OneByOne, Wanted, OpenIn, Privates

LEMMA BgReuses ==
    ASSUME BgInv, NEW f \in Friends, Bg!OpenExisting(f)
    PROVE  BgInv'
<1>1. /\ UNCHANGED <<sess, private, ctl, room, queue, running, opening, last, retry>>
      /\ lru' = Append(Bg!Unlisted(f), f) /\ Bg!Call /\ private[f] # 0
  BY DEF Bg!OpenExisting, Bg!MayOpen
<1>2. OneHolder' /\ OneByOne' /\ Wanted' /\ Privates' = Privates
  BY <1>1, BgSessionsStay
<1>3. spent' \in [calls : 0..MaxCalls, faults : 0..MaxFaults]
  BY <1>1, BgCalls
<1>4. BgTyped'
  BY <1>1, <1>3 DEF BgInv, Sound, BgTyped
<1>5. ListedOnce'
  <2>1. ListsOnce(Bg!Unlisted(f), Privates \ {f})
    BY Unlists DEF BgInv, Sound
  <2>2. ListsOnce(Append(Bg!Unlisted(f), f), (Privates \ {f}) \cup {f})
    BY <2>1, ListsLast
  <2>3. (Privates \ {f}) \cup {f} = Privates
    BY <1>1 DEF Privates
  <2>4. QED
    BY <1>1, <1>2, <2>2, <2>3 DEF ListedOnce
<1>6. OpensOnce' /\ RoomMade' /\ Bg!Limits
  BY <1>1, <1>2 DEF BgInv, Sound, OpensOnce, RoomMade
<1>7. QED
  BY <1>2, <1>4, <1>5, <1>6 DEF BgInv, Sound

\* One more conversation is being opened, for a friend without a session.
LEMMA BgOpening ==
    ASSUME BgInv, NEW f \in Friends, NEW waits \in SUBSET Slots, private'[f] = 0,
           \A o \in opening : o.f # f /\ (SerialPrivate => o.at = "connect"),
           \A g \in Friends : private'[g] \in {0, private[g]},
           opening' = opening \cup {[f |-> f, at |-> "room", waits |-> waits]},
           SerialPrivate => Cardinality(Privates') <= MaxPrivate
    PROVE  opening' \subseteq BgOpenings /\ OpensOnce' /\ RoomMade'
<1> DEFINE n == [f |-> f, at |-> "room", waits |-> waits]
<1>1. n \in BgOpenings /\ n.f = f /\ n.at = "room" /\ opening' = opening \cup {n}
  BY DEF BgOpenings
<1> HIDE DEF n
<1>2. opening \subseteq BgOpenings /\ OpensOnce /\ \A o \in opening : o.f \in Friends
  BY DEF BgInv, Sound, BgTyped, BgOpenings
<1>3. OpensOnce'
  <2>1. ASSUME NEW o \in opening', NEW p \in opening', o.f = p.f PROVE o = p
    BY <1>1, <1>2, <2>1 DEF OpensOnce
  <2>2. ASSUME NEW o \in opening', o.at # "connect" PROVE private'[o.f] = 0
    BY <1>1, <1>2, <2>2 DEF OpensOnce
  <2>3. QED
    BY <2>1, <2>2 DEF OpensOnce
<1>4. RoomMade'
  <2>1. SUFFICES ASSUME SerialPrivate PROVE RoomMade'
    BY DEF RoomMade
  <2>2. \A o \in opening' : o.at # "connect" => o = n
    BY <1>1, <2>1
  <2>3. \A o \in opening' : o.at # "create"
    BY <1>1, <2>2
  <2>4. QED
    BY <2>1, <2>2, <2>3 DEF RoomMade
<1>5. QED
  BY <1>1, <1>2, <1>3, <1>4

LEMMA BgOpensAnew ==
    ASSUME BgInv, NEW f \in Friends, Bg!OpenAgain(f) \/ Bg!OpenNew(f)
    PROVE  BgInv'
<1>1. /\ Bg!Call /\ UNCHANGED <<sess, room, queue, running, last, retry>>
      /\ \A o \in opening : o.f # f /\ (SerialPrivate => o.at = "connect")
  BY DEF Bg!OpenAgain, Bg!OpenNew, Bg!MayOpen
<1>2. spent' \in [calls : 0..MaxCalls, faults : 0..MaxFaults]
  BY <1>1, BgCalls
<1>3. BgTyped /\ Bg!Limits
  BY DEF BgInv, Sound
<1>4. CASE Bg!OpenAgain(f)
  <2>1. /\ private[f] # 0 /\ Bg!Forget(f) /\ ctl' = Bg!Closing(ctl, {private[f]})
        /\ opening' = opening \cup {[f |-> f, at |-> "room", waits |-> {private[f]}]}
    BY <1>4 DEF Bg!OpenAgain
  <2>2. /\ OneHolder' /\ OneByOne' /\ ListedOnce' /\ Wanted' /\ private' \in [Friends -> Slots \cup {0}]
        /\ ctl' \in [Slots -> {"free", "connecting", "on", "error", "closing"}]
        /\ \A g \in Friends : private'[g] = IF g = f THEN 0 ELSE private[g]
        /\ (SerialPrivate => Cardinality(Privates') < MaxPrivate)
    BY <1>1, <2>1, BgForgets
  <2>3. /\ IsFiniteSet(Privates') /\ Cardinality(Privates') \in Nat /\ MaxPrivate \in Nat
    <3>1. Privates' \in SUBSET Privates /\ IsFiniteSet(Privates)
      BY <2>2, BgSize DEF Privates
    <3>2. IsFiniteSet(Privates')
      BY <3>1, FS_Subset
    <3>3. QED
      BY <3>2, FS_CardinalityType, BgSize
  <2>4. SerialPrivate => Cardinality(Privates') <= MaxPrivate
    BY <2>2, <2>3
  <2>5. {private[f]} \in SUBSET Slots /\ private'[f] = 0 /\ \A g \in Friends : private'[g] \in {0, private[g]}
    BY <1>3, <2>1, <2>2 DEF BgTyped
  <2>6. opening' \subseteq BgOpenings /\ OpensOnce' /\ RoomMade'
    BY <1>1, <2>1, <2>4, <2>5, BgOpening
  <2>7. BgTyped'
    BY <1>1, <1>2, <1>3, <2>2, <2>6 DEF BgTyped
  <2>8. QED
    BY <1>3, <2>2, <2>6, <2>7 DEF BgInv, Sound
<1>5. CASE Bg!OpenNew(f)
  <2>1. /\ private[f] = 0 /\ UNCHANGED <<private, lru, ctl>>
        /\ opening' = opening \cup {[f |-> f, at |-> "room", waits |-> {}]}
    BY <1>5 DEF Bg!OpenNew
  <2>2. OneHolder' /\ OneByOne' /\ Wanted' /\ Privates' = Privates
    BY <1>1, <2>1, BgSessionsStay
  <2>3. ListedOnce'
    BY <2>1, <2>2 DEF BgInv, Sound, ListedOnce
  <2>4. SerialPrivate => Cardinality(Privates') <= MaxPrivate
    BY <2>2 DEF BgInv, RoomMade
  <2>5. {} \in SUBSET Slots /\ private'[f] = 0 /\ \A g \in Friends : private'[g] \in {0, private[g]}
    BY <2>1
  <2>6. opening' \subseteq BgOpenings /\ OpensOnce' /\ RoomMade'
    BY <1>1, <2>1, <2>4, <2>5, BgOpening
  <2>7. BgTyped'
    BY <1>1, <1>2, <1>3, <2>1, <2>6 DEF BgTyped
  <2>8. QED
    BY <1>3, <2>2, <2>3, <2>6, <2>7 DEF BgInv, Sound
<1>6. QED
  BY <1>4, <1>5

\* One of the openings goes on to its next step or ends.
LEMMA BgMoves ==
    ASSUME BgInv, NEW o \in opening, NEW n \in BgOpenings, n.f = o.f, n.at \in {"create", "connect"},
           opening' = (opening \ {o}) \cup {n},
           \A g \in Friends : g # o.f => private'[g] \in {0, private[g]},
           n.at = "create" => o.at # "connect" /\ private'[n.f] = 0,
           SerialPrivate => Cardinality(Privates') <= MaxPrivate,
           SerialPrivate /\ n.at = "create" => Cardinality(Privates') < MaxPrivate,
           o.at # "connect"
    PROVE  opening' \subseteq BgOpenings /\ OpensOnce' /\ RoomMade'
<1>1. opening \subseteq BgOpenings /\ OpensOnce /\ \A p \in opening : p.f \in Friends
  BY DEF BgInv, Sound, BgTyped, BgOpenings
<1>2. \A p \in opening : p # o => p.f # o.f
  BY <1>1 DEF OpensOnce
<1>3. OpensOnce'
  <2>1. ASSUME NEW p \in opening', NEW q \in opening', p.f = q.f PROVE p = q
    BY <1>1, <1>2, <2>1 DEF OpensOnce
  <2>2. ASSUME NEW p \in opening', p.at # "connect" PROVE private'[p.f] = 0
    <3>1. CASE p = n
      BY <2>2, <3>1
    <3>2. CASE p # n
      <4>1. p \in opening /\ p # o /\ p.f # o.f /\ p.f \in Friends
        BY <1>1, <1>2, <3>2
      <4>2. private[p.f] = 0
        BY <1>1, <2>2, <4>1 DEF OpensOnce
      <4>3. QED
        BY <4>1, <4>2
    <3>3. QED
      BY <3>1, <3>2
  <2>3. QED
    BY <2>1, <2>2 DEF OpensOnce
<1>4. RoomMade'
  <2>1. SUFFICES ASSUME SerialPrivate PROVE RoomMade'
    BY DEF RoomMade
  <2>2. \A p \in opening : p.at # "connect" => p = o
    BY <2>1 DEF BgInv, RoomMade
  <2>3. \A p \in opening' : p.at # "connect" => p = n
    BY <2>2
  <2>4. QED
    BY <2>1, <2>3 DEF RoomMade
<1>5. QED
  BY <1>1, <1>3, <1>4

LEMMA BgMakesRoom ==
    ASSUME BgInv, NEW o \in opening, Bg!MakesRoom(o)
    PROVE  BgInv'
<1>1. /\ o.at = "room" /\ o \in BgOpenings /\ private[o.f] = 0 /\ o.f \in Friends
      /\ UNCHANGED <<sess, room, queue, running, last, retry, spent>>
  BY DEF Bg!MakesRoom, BgInv, Sound, BgTyped, BgOpenings, OpensOnce
<1>2. BgTyped /\ Bg!Limits
  BY DEF BgInv, Sound
<1>3. CASE Bg!MustEvict
  <2> DEFINE f == Head(lru)
             n == [o EXCEPT !.at = "create", !.waits = {private[f]}]
  <2>1. Bg!Forget(f) /\ ctl' = Bg!Closing(ctl, {private[f]}) /\ opening' = (opening \ {o}) \cup {n}
    BY <1>3 DEF Bg!MakesRoom
  <2>2. f \in Privates /\ Cardinality(Privates) \in Nat /\ IsFiniteSet(Privates) /\ MaxPrivate \in Nat
    <3>1. Bg!Size > 0
      BY <1>3, BgSize DEF Bg!MustEvict
    <3>2. QED
      BY <3>1, BgSize
  <2>3. f \in Friends /\ private[f] # 0 /\ private[f] \in Slots
    BY <1>2, <2>2 DEF Privates, BgTyped
  <2>4. /\ OneHolder' /\ OneByOne' /\ ListedOnce' /\ Wanted' /\ private' \in [Friends -> Slots \cup {0}]
        /\ ctl' \in [Slots -> {"free", "connecting", "on", "error", "closing"}]
        /\ \A g \in Friends : private'[g] = IF g = f THEN 0 ELSE private[g]
        /\ (SerialPrivate => Cardinality(Privates') < MaxPrivate)
    BY <1>1, <2>1, <2>3, BgForgets
  <2>5. Cardinality(Privates') \in Nat
    <3>1. Privates' \in SUBSET Privates
      BY <2>4 DEF Privates
    <3>2. IsFiniteSet(Privates')
      BY <2>2, <3>1, FS_Subset
    <3>3. QED
      BY <3>2, FS_CardinalityType
  <2>6. SerialPrivate => Cardinality(Privates') <= MaxPrivate /\ Cardinality(Privates') < MaxPrivate
    BY <2>2, <2>4, <2>5
  <2>7. n \in BgOpenings /\ n.f = o.f /\ n.at = "create"
    BY <1>1, <2>3 DEF BgOpenings
  <2>8. private'[n.f] = 0 /\ \A g \in Friends : private'[g] \in {0, private[g]}
    BY <1>1, <2>4, <2>7
  <2> HIDE DEF n, f
  <2>9. opening' \subseteq BgOpenings /\ OpensOnce' /\ RoomMade'
    BY <1>1, <2>1, <2>6, <2>7, <2>8, BgMoves
  <2>10. BgTyped'
    BY <1>1, <1>2, <2>4, <2>9 DEF BgTyped
  <2>11. QED
    BY <1>2, <2>4, <2>9, <2>10 DEF BgInv, Sound
<1>4. CASE ~Bg!MustEvict
  <2> DEFINE n == [o EXCEPT !.at = "create"]
  <2>1. UNCHANGED <<private, lru, ctl>> /\ opening' = (opening \ {o}) \cup {n}
    BY <1>4 DEF Bg!MakesRoom
  <2>2. OneHolder' /\ OneByOne' /\ Wanted' /\ Privates' = Privates
    BY <1>1, <2>1, BgSessionsStay
  <2>3. ListedOnce'
    BY <2>1, <2>2 DEF BgInv, Sound, ListedOnce
  <2>4. Cardinality(Privates') < MaxPrivate /\ Cardinality(Privates') <= MaxPrivate
    BY <1>4, <2>2, BgSize DEF Bg!MustEvict
  <2>5. n \in BgOpenings /\ n.f = o.f /\ n.at = "create"
    BY <1>1 DEF BgOpenings
  <2>6. private'[n.f] = 0 /\ \A g \in Friends : private'[g] \in {0, private[g]}
    BY <1>1, <2>1, <2>5
  <2> HIDE DEF n
  <2>7. opening' \subseteq BgOpenings /\ OpensOnce' /\ RoomMade'
    BY <1>1, <2>1, <2>4, <2>5, <2>6, BgMoves
  <2>8. BgTyped'
    BY <1>1, <1>2, <2>1, <2>7 DEF BgTyped
  <2>9. QED
    BY <1>2, <2>2, <2>3, <2>7, <2>8 DEF BgInv, Sound
<1>5. QED
  BY <1>3, <1>4

LEMMA BgCreates ==
    ASSUME BgInv, NEW o \in opening, Bg!CreatesPrivate(o)
    PROVE  BgInv'
<1> DEFINE i == CHOOSE i \in Bg!Free : \A j \in Bg!Free : i <= j
           f == o.f
           n == [o EXCEPT !.at = "connect", !.waits = {i}]
<1>1. /\ o.at = "create" /\ o \in BgOpenings /\ private[f] = 0 /\ f \in Friends /\ Bg!Free # {}
      /\ UNCHANGED <<sess, queue, running, last, retry, spent>>
  BY DEF Bg!CreatesPrivate, BgInv, Sound, BgTyped, BgOpenings, OpensOnce
<1>2. /\ private' = [private EXCEPT ![f] = i] /\ ctl' = [ctl EXCEPT ![i] = "connecting"]
      /\ room' = [room EXCEPT ![i] = f] /\ opening' = (opening \ {o}) \cup {n}
      /\ lru' = Append(Bg!Unlisted(f), f)
  BY DEF Bg!CreatesPrivate
<1>3. /\ BgTyped /\ OneHolder /\ OneByOne /\ Wanted /\ Bg!Limits /\ 0 \notin Slots /\ 0 \notin Bg!Keys /\ 0 \notin Friends
      /\ Friends \cap Bg!Keys = {} /\ Slots \subseteq Nat
  BY BgConstants DEF BgInv, Sound
<1>4. i \in Slots /\ ctl[i] = "free" /\ room[i] = 0
  <2>1. Bg!Free \in SUBSET Nat
    BY <1>3 DEF Bg!Free
  <2>2. i \in Bg!Free
    BY <1>1, <2>1, LeastOf
  <2>3. QED
    BY <1>3, <2>2 DEF Bg!Free, OneHolder
<1>5. n \in BgOpenings /\ n.f = f /\ n.at = "connect"
  BY <1>1, <1>4 DEF BgOpenings
<1> HIDE DEF i, n, f
<1>6. /\ private' \in [Friends -> Slots \cup {0}] /\ \A g \in Friends : private'[g] = IF g = f THEN i ELSE private[g]
      /\ ctl' \in [Slots -> {"free", "connecting", "on", "error", "closing"}]
      /\ \A j \in Slots : ctl'[j] = IF j = i THEN "connecting" ELSE ctl[j]
      /\ room' \in [Slots -> Bg!Keys \cup Friends \cup {0}] /\ \A j \in Slots : room'[j] = IF j = i THEN f ELSE room[j]
  BY <1>1, <1>2, <1>3, <1>4 DEF BgTyped
<1>7. Privates' = Privates \cup {f} /\ f \notin Privates
  BY <1>1, <1>3, <1>4, <1>6 DEF Privates
<1>8. ListedOnce'
  <2>1. ListsOnce(Bg!Unlisted(f), Privates \ {f}) /\ Privates \ {f} = Privates
    BY <1>1, <1>7, Unlists DEF BgInv, Sound
  <2>2. ListsOnce(Append(Bg!Unlisted(f), f), Privates \cup {f})
    BY <1>1, <1>7, <2>1, ListsLast
  <2>3. QED
    BY <1>2, <1>7, <2>2 DEF ListedOnce
<1>9. OneHolder'
  <2>1. ASSUME NEW k \in Bg!Keys, sess[k] # 0 PROVE ctl'[sess[k]] \in {"connecting", "on"} /\ room'[sess[k]] = k
    <3>1. sess[k] \in Slots /\ ctl[sess[k]] \in {"connecting", "on"} /\ room[sess[k]] = k
      BY <1>3, <2>1 DEF OneHolder, BgTyped
    <3>2. sess[k] # i
      BY <1>4, <3>1
    <3>3. QED
      BY <1>6, <3>1, <3>2
  <2>2. ASSUME NEW g \in Friends, private'[g] # 0
        PROVE  ctl'[private'[g]] \in {"connecting", "on", "error"} /\ room'[private'[g]] = g
    <3>1. CASE g = f
      BY <1>4, <1>6, <3>1
    <3>2. CASE g # f
      <4>1. /\ private'[g] = private[g] /\ private[g] \in Slots /\ ctl[private[g]] \in {"connecting", "on", "error"}
            /\ room[private[g]] = g
        BY <1>3, <1>6, <2>2, <3>2 DEF OneHolder, BgTyped
      <4>2. private[g] # i
        BY <1>4, <4>1
      <4>3. QED
        BY <1>6, <4>1, <4>2
    <3>3. QED
      BY <3>1, <3>2
  <2>3. ASSUME NEW j \in Slots PROVE ctl'[j] = "free" <=> room'[j] = 0
    BY <1>1, <1>3, <1>6 DEF OneHolder
  <2>4. ASSUME NEW j \in Slots, ctl'[j] \in {"connecting", "on", "error"}
        PROVE  (room'[j] \in Bg!Keys /\ sess'[room'[j]] = j) \/ (room'[j] \in Friends /\ private'[room'[j]] = j)
    <3>1. CASE j = i
      BY <1>1, <1>6, <3>1
    <3>2. CASE j # i
      <4>1. ctl[j] \in {"connecting", "on", "error"} /\ room'[j] = room[j]
        BY <1>6, <2>4, <3>2
      <4>2. CASE room[j] \in Bg!Keys /\ sess[room[j]] = j
        BY <1>1, <4>1, <4>2
      <4>3. CASE room[j] \in Friends /\ private[room[j]] = j
        <5>1. room[j] # f
          BY <1>1, <1>3, <4>3
        <5>2. QED
          BY <1>6, <4>1, <4>3, <5>1
      <4>4. QED
        BY <1>3, <4>1, <4>2, <4>3 DEF OneHolder
    <3>3. QED
      BY <3>1, <3>2
  <2>5. QED
    BY <1>1, <2>1, <2>2, <2>3, <2>4 DEF OneHolder
<1>10. OneByOne'
  <2>1. f \notin Bg!Keys
    BY <1>1, <1>3
  <2>2. \A j \in Slots : room'[j] \in Bg!Keys => j # i /\ room'[j] = room[j] /\ ctl'[j] = ctl[j]
    BY <1>6, <2>1
  <2>3. \A j \in Slots : room'[j] \in Bg!Keys /\ ctl'[j] \in {"connecting", "closing"} => \E op \in running : j \in op.waits
    BY <1>3, <2>2 DEF OneByOne
  <2>4. \A j, k \in Slots : room'[j] = room'[k] /\ room'[j] \in Bg!Keys => j = k
    BY <1>3, <2>2 DEF OneByOne
  <2>5. QED
    BY <1>1, <1>3, <2>3, <2>4 DEF OneByOne
<1>11. Wanted'
  BY <1>1, <1>3 DEF Wanted, OpenIn
<1>12. SerialPrivate => Cardinality(Privates') <= MaxPrivate
  <2>1. SUFFICES ASSUME SerialPrivate PROVE Cardinality(Privates') <= MaxPrivate
    OBVIOUS
  <2>2. Cardinality(Privates) < MaxPrivate /\ IsFiniteSet(Privates) /\ Cardinality(Privates) \in Nat /\ MaxPrivate \in Nat
    BY <1>1, <2>1, BgSize DEF BgInv, RoomMade
  <2>3. Cardinality(Privates \cup {f}) = Cardinality(Privates) + 1
    BY <1>7, <2>2, FS_AddElement
  <2>4. QED
    BY <1>7, <2>2, <2>3
<1>13. opening' \subseteq BgOpenings /\ OpensOnce' /\ RoomMade'
  <2>1. \A g \in Friends : g # o.f => private'[g] \in {0, private[g]}
    BY <1>6 DEF f
  <2>2. n.f = o.f /\ n.at \in {"create", "connect"} /\ n.at # "create" /\ o.at # "connect"
    BY <1>1, <1>5 DEF f
  <2>3. QED
    BY <1>2, <1>5, <1>12, <2>1, <2>2, BgMoves
<1>14. BgTyped'
  BY <1>1, <1>3, <1>6, <1>13 DEF BgTyped
<1>15. QED
  BY <1>3, <1>8, <1>9, <1>10, <1>11, <1>13, <1>14 DEF BgInv, Sound

\* The rest: a conversation is open or closed, a controller of it errs.
LEMMA BgPrivateEnds ==
    ASSUME BgInv
    PROVE  /\ \A o \in opening : Bg!ConnectPrivateReturns(o) => BgInv'
           /\ \A f \in Friends : Bg!DisconnectPrivate(f) => BgInv'
<1>1. BgTyped /\ OpensOnce /\ Bg!Limits
  BY DEF BgInv, Sound
<1>2. ASSUME NEW o \in opening, Bg!ConnectPrivateReturns(o) PROVE BgInv'
  <2>1. opening' = opening \ {o} /\ UNCHANGED <<sess, private, lru, ctl, room, queue, running, last, retry, spent>>
    BY <1>2 DEF Bg!ConnectPrivateReturns
  <2>2. OneHolder' /\ OneByOne' /\ Wanted' /\ Privates' = Privates
    BY <2>1, BgSessionsStay
  <2>3. ListedOnce' /\ OpensOnce' /\ RoomMade'
    BY <2>1, <2>2 DEF BgInv, Sound, ListedOnce, OpensOnce, RoomMade
  <2>4. BgTyped'
    BY <1>1, <2>1 DEF BgTyped
  <2>5. QED
    BY <1>1, <2>2, <2>3, <2>4 DEF BgInv, Sound
<1>3. ASSUME NEW f \in Friends, Bg!DisconnectPrivate(f) PROVE BgInv'
  <2>1. /\ Bg!Call /\ private[f] # 0 /\ Bg!Forget(f) /\ ctl' = Bg!Closing(ctl, {private[f]})
        /\ UNCHANGED <<sess, room, queue, running, opening, last, retry>>
    BY <1>3 DEF Bg!DisconnectPrivate
  <2>2. /\ OneHolder' /\ OneByOne' /\ ListedOnce' /\ Wanted' /\ private' \in [Friends -> Slots \cup {0}]
        /\ ctl' \in [Slots -> {"free", "connecting", "on", "error", "closing"}]
        /\ \A g \in Friends : private'[g] = IF g = f THEN 0 ELSE private[g]
        /\ (SerialPrivate => Cardinality(Privates') < MaxPrivate)
    BY <2>1, BgForgets
  <2>3. spent' \in [calls : 0..MaxCalls, faults : 0..MaxFaults]
    BY <2>1, BgCalls
  <2>4. BgTyped'
    BY <1>1, <2>1, <2>2, <2>3 DEF BgTyped
  <2>5. OpensOnce'
    BY <1>1, <2>1, <2>2 DEF OpensOnce, BgTyped, BgOpenings
  <2>6. RoomMade'
    <3>1. Privates' \in SUBSET Privates /\ IsFiniteSet(Privates) /\ MaxPrivate \in Nat
      BY <2>2, BgSize DEF Privates
    <3>2. Cardinality(Privates') \in Nat
      <4>1. IsFiniteSet(Privates')
        BY <3>1, FS_Subset
      <4>2. QED
        BY <4>1, FS_CardinalityType
    <3>3. QED
      BY <2>1, <2>2, <3>1, <3>2 DEF BgInv, RoomMade
  <2>7. QED
    BY <1>1, <2>2, <2>4, <2>5, <2>6 DEF BgInv, Sound
<1>4. QED
  BY <1>2, <1>3

---------------------------------------------------------------------------
(* The controllers, and what disconnect does to all of them. *)

LEMMA BgDisconnects ==
    ASSUME BgInv, NEW op \in running, Bg!DisconnectRuns(op)
    PROVE  BgInv'
<1> DEFINE H == Bg!AllHeld
<1>1. /\ BgTyped /\ OneHolder /\ OneByOne /\ Wanted /\ OpensOnce /\ Bg!Limits /\ 0 \notin Slots /\ 0 \notin Bg!Keys
      /\ 0 \notin Friends /\ Friends \cap Bg!Keys = {} /\ op.waits = {} /\ op.kind = "disconnect"
  BY BgConstants DEF BgInv, Sound, OneByOne, Bg!DisconnectRuns
<1>2. /\ ctl' = Bg!Closing(ctl, H) /\ Bg!Goes(op, "close", H) /\ sess' = [k \in Bg!Keys |-> 0]
      /\ private' = [f \in Friends |-> 0] /\ lru' = <<>>
      /\ UNCHANGED <<room, queue, opening, last, retry, spent>>
  BY DEF Bg!DisconnectRuns
<1>3. /\ H \in SUBSET Slots /\ (\A k \in Bg!Keys : sess[k] # 0 => sess[k] \in H)
      /\ (\A f \in Friends : private[f] # 0 => private[f] \in H)
      /\ \A i \in H : (\E k \in Bg!Keys : sess[k] = i) \/ (\E f \in Friends : private[f] = i)
  BY <1>1 DEF Bg!AllHeld, Bg!Held, BgTyped
<1> HIDE DEF H
<1>4. PICK np \in BgOperations : running' = {np} /\ np.kind = op.kind /\ np.args = op.args /\ np.at = "close" /\ np.waits = H
  <2>1. "close" \in BgStages
    BY DEF BgStages
  <2>2. QED
    BY <1>2, <1>3, <2>1, BgGoes
<1>5. /\ ctl' \in [Slots -> {"free", "connecting", "on", "error", "closing"}]
      /\ \A i \in Slots : ctl'[i] = IF i \in H THEN "closing" ELSE ctl[i]
  BY <1>1, <1>2 DEF BgTyped, Bg!Closing
<1>6. \A i \in H : room[i] # 0 /\ ctl[i] \in {"connecting", "on", "error"}
  <2>1. ASSUME NEW i \in H PROVE room[i] # 0 /\ ctl[i] \in {"connecting", "on", "error"}
    <3>1. CASE \E k \in Bg!Keys : sess[k] = i
      BY <1>1, <1>3, <3>1 DEF OneHolder
    <3>2. CASE \E f \in Friends : private[f] = i
      BY <1>1, <1>3, <3>2 DEF OneHolder
    <3>3. QED
      BY <1>3, <3>1, <3>2
  <2>2. QED
    BY <2>1
<1>7. \A i \in Slots : ctl[i] \in {"connecting", "on", "error"} => i \in H
  <2>1. ASSUME NEW i \in Slots, ctl[i] \in {"connecting", "on", "error"} PROVE i \in H
    <3>1. i # 0 /\ ((room[i] \in Bg!Keys /\ sess[room[i]] = i) \/ (room[i] \in Friends /\ private[room[i]] = i))
      BY <1>1, <2>1 DEF OneHolder
    <3>2. QED
      BY <1>3, <3>1
  <2>2. QED
    BY <2>1
<1>8. BgTyped'
  <2>1. sess' \in [Bg!Keys -> Slots \cup {0}] /\ private' \in [Friends -> Slots \cup {0}]
    BY <1>2
  <2>2. QED
    BY <1>1, <1>2, <1>4, <1>5, <2>1 DEF BgTyped
<1>9. OneHolder'
  <2>1. \A i \in Slots : ctl'[i] = "free" <=> room'[i] = 0
    BY <1>1, <1>2, <1>5, <1>6 DEF OneHolder
  <2>2. \A i \in Slots : ctl'[i] \notin {"connecting", "on", "error"}
    BY <1>5, <1>7
  <2>3. QED
    BY <1>2, <2>1, <2>2 DEF OneHolder
<1>10. OneByOne'
  <2>1. \A i \in Slots : room[i] \in Bg!Keys => ctl[i] \notin {"connecting", "closing"}
    <3>1. \A p \in running : p = op
      BY <1>1 DEF OneByOne
    <3>2. QED
      BY <1>1, <3>1 DEF OneByOne
  <2>2. ASSUME NEW i \in Slots, room'[i] \in Bg!Keys, ctl'[i] \in {"connecting", "closing"} PROVE i \in np.waits
    BY <1>2, <1>4, <1>5, <2>1, <2>2
  <2>3. QED
    BY <1>1, <1>2, <1>4, <2>2 DEF OneByOne
<1>11. Privates' = {}
  BY <1>2 DEF Privates
<1>12. ListedOnce'
  BY <1>2, <1>11 DEF ListedOnce, ListsOnce
<1>13. OpensOnce'
  <2>1. \A o \in opening : o.f \in Friends
    BY <1>1 DEF BgTyped, BgOpenings
  <2>2. QED
    BY <1>1, <1>2, <2>1 DEF OpensOnce
<1>14. Wanted'
  <2>1. OpenIn(Channels)' = {} /\ OpenIn(Groups)' = {}
    BY <1>2 DEF OpenIn, Bg!Keys
  <2>2. \E a \in Bg!Args : TRUE
    BY <1>1 DEF Wanted
  <2>3. QED
    BY <1>1, <1>2, <1>4, <2>1, <2>2 DEF Wanted
<1>15. RoomMade'
  <2>1. Cardinality({}) = 0 /\ MaxPrivate \in Nat \ {0}
    BY FS_EmptySet, BgSize
  <2>2. QED
    BY <1>2, <1>11, <2>1 DEF BgInv, RoomMade
<1>16. QED
  BY <1>1, <1>8, <1>9, <1>10, <1>12, <1>13, <1>14, <1>15 DEF BgInv, Sound

\* Whoever waits for a controller no longer does.
LEMMA BgSettles ==
    ASSUME BgInv, NEW i \in Slots, Bg!Settles(i), UNCHANGED <<sess, private, lru, queue>>
    PROVE  /\ running' \subseteq BgOperations /\ opening' \subseteq BgOpenings
           /\ ListedOnce' /\ OpensOnce' /\ Wanted' /\ RoomMade'
           /\ \A o, p \in running' : o = p
           /\ \A op \in running' : op.at = "start" => op.waits = {}
           /\ \A op \in running : \E np \in running' : np.waits = op.waits \ {i}
<1> DEFINE moved(op) == [op EXCEPT !.waits = @ \ {i}]
<1>1. BgTyped /\ OneByOne /\ Wanted /\ OpensOnce /\ ListedOnce /\ RoomMade
  BY DEF BgInv, Sound
<1>2. running' = {moved(op) : op \in running} /\ opening' = {moved(o) : o \in opening}
  BY DEF Bg!Settles
<1>3. \A op \in BgOperations : /\ moved(op) \in BgOperations /\ moved(op).kind = op.kind /\ moved(op).args = op.args
                               /\ moved(op).at = op.at /\ moved(op).waits = op.waits \ {i}
  BY DEF BgOperations
<1>4. \A o \in BgOpenings : moved(o) \in BgOpenings /\ moved(o).f = o.f /\ moved(o).at = o.at
  BY DEF BgOpenings
<1> HIDE DEF moved
<1>5. \A np \in running' : \E op \in running : /\ np = moved(op) /\ np \in BgOperations /\ np.kind = op.kind
                                               /\ np.args = op.args /\ np.at = op.at /\ np.waits = op.waits \ {i}
  <2>1. \A op \in running : op \in BgOperations
    BY <1>1 DEF BgTyped
  <2>2. QED
    BY <1>2, <1>3, <2>1
<1>6. \A np \in opening' : \E o \in opening : np = moved(o) /\ np \in BgOpenings /\ np.f = o.f /\ np.at = o.at
  <2>1. \A o \in opening : o \in BgOpenings
    BY <1>1 DEF BgTyped
  <2>2. QED
    BY <1>2, <1>4, <2>1
<1>7. \A op \in running : \E np \in running' : np.waits = op.waits \ {i}
  BY <1>1, <1>2, <1>3 DEF BgTyped
<1>8. ListedOnce' /\ Privates' = Privates
  BY <1>1 DEF ListedOnce, Privates
<1>9. \A o, p \in running' : o = p
  BY <1>1, <1>5 DEF OneByOne
<1>10. \A op \in running' : op.at = "start" => op.waits = {}
  BY <1>1, <1>5 DEF OneByOne
<1>11. OpensOnce'
  BY <1>1, <1>6 DEF OpensOnce
<1>12. RoomMade'
  <2>1. SUFFICES ASSUME SerialPrivate PROVE RoomMade'
    BY DEF RoomMade
  <2>2. \A o, p \in opening' : o.at # "connect" /\ p.at # "connect" => o = p
    BY <1>1, <1>6, <2>1 DEF RoomMade
  <2>3. \A o \in opening' : o.at = "create" => Cardinality(Privates) < MaxPrivate
    BY <1>1, <1>6, <2>1 DEF RoomMade
  <2>4. QED
    BY <1>1, <1>8, <2>1, <2>2, <2>3 DEF RoomMade
<1>13. Wanted'
  <2>1. OpenIn(Channels)' = OpenIn(Channels) /\ OpenIn(Groups)' = OpenIn(Groups)
    BY DEF OpenIn
  <2>2. ASSUME NEW np \in running', np.kind = "sync"
        PROVE  /\ np.args \in Bg!Args
               /\ np.at = "identity" => OpenIn(Groups) \subseteq Bg!DesiredGroups(np.args)
               /\ np.at = "close" => OpenIn(Channels) \subseteq Bg!DesiredChannels(np.args)
    <3>1. PICK op \in running : np.kind = op.kind /\ np.args = op.args /\ np.at = op.at
      BY <1>5
    <3>2. QED
      BY <1>1, <2>2, <3>1 DEF Wanted
  <2>3. QED
    BY <1>1, <2>1, <2>2 DEF Wanted
<1>14. QED
  BY <1>5, <1>6, <1>7, <1>8, <1>9, <1>10, <1>11, <1>12, <1>13

\* A controller connects, or is closed and free again.
LEMMA BgSettled ==
    ASSUME BgInv, NEW i \in Slots, Bg!Connected(i) \/ Bg!Closed(i)
    PROVE  BgInv'
<1>1. /\ BgTyped /\ OneHolder /\ OneByOne /\ Bg!Limits /\ 0 \notin Slots /\ 0 \notin Bg!Keys /\ 0 \notin Friends
  BY BgConstants DEF BgInv, Sound
<1>2. Bg!Settles(i) /\ UNCHANGED <<sess, private, lru, queue, last, retry, spent>>
  BY DEF Bg!Connected, Bg!Closed
<1>3. /\ running' \subseteq BgOperations /\ opening' \subseteq BgOpenings
      /\ ListedOnce' /\ OpensOnce' /\ Wanted' /\ RoomMade'
      /\ \A o, p \in running' : o = p
      /\ \A op \in running' : op.at = "start" => op.waits = {}
      /\ \A op \in running : \E np \in running' : np.waits = op.waits \ {i}
  BY <1>2, BgSettles
<1>4. \A j \in Slots \ {i} : ctl'[j] = ctl[j] /\ room'[j] = room[j]
  BY <1>1 DEF Bg!Connected, Bg!Closed, BgTyped
<1>5. /\ ctl' \in [Slots -> {"free", "connecting", "on", "error", "closing"}]
      /\ room' \in [Slots -> Bg!Keys \cup Friends \cup {0}]
  BY <1>1 DEF Bg!Connected, Bg!Closed, BgTyped
<1>6. \/ ctl[i] = "connecting" /\ ctl'[i] = "on" /\ room'[i] = room[i]
      \/ ctl[i] = "closing" /\ ctl'[i] = "free" /\ room'[i] = 0
  BY <1>1 DEF Bg!Connected, Bg!Closed, BgTyped
<1>7. BgTyped'
  BY <1>1, <1>2, <1>3, <1>5 DEF BgTyped
<1>8. OneHolder'
  <2>1. ASSUME NEW k \in Bg!Keys, sess[k] # 0 PROVE ctl'[sess[k]] \in {"connecting", "on"} /\ room'[sess[k]] = k
    <3>1. sess[k] \in Slots /\ ctl[sess[k]] \in {"connecting", "on"} /\ room[sess[k]] = k
      BY <1>1, <2>1 DEF OneHolder, BgTyped
    <3>2. QED
      BY <1>4, <1>6, <3>1
  <2>2. ASSUME NEW g \in Friends, private[g] # 0
        PROVE  ctl'[private[g]] \in {"connecting", "on", "error"} /\ room'[private[g]] = g
    <3>1. private[g] \in Slots /\ ctl[private[g]] \in {"connecting", "on", "error"} /\ room[private[g]] = g
      BY <1>1, <2>2 DEF OneHolder, BgTyped
    <3>2. QED
      BY <1>4, <1>6, <3>1
  <2>3. ASSUME NEW j \in Slots PROVE ctl'[j] = "free" <=> room'[j] = 0
    <3>1. ctl[j] = "free" <=> room[j] = 0
      BY <1>1 DEF OneHolder
    <3>2. QED
      BY <1>4, <1>6, <3>1
  <2>4. ASSUME NEW j \in Slots, ctl'[j] \in {"connecting", "on", "error"}
        PROVE  (room'[j] \in Bg!Keys /\ sess[room'[j]] = j) \/ (room'[j] \in Friends /\ private[room'[j]] = j)
    <3>1. ctl[j] \in {"connecting", "on", "error"} /\ room'[j] = room[j]
      BY <1>4, <1>6, <2>4
    <3>2. QED
      BY <1>1, <3>1 DEF OneHolder
  <2>5. QED
    BY <1>2, <2>1, <2>2, <2>3, <2>4 DEF OneHolder
<1>9. OneByOne'
  <2>1. ASSUME NEW j \in Slots, room'[j] \in Bg!Keys, ctl'[j] \in {"connecting", "closing"}
        PROVE  \E np \in running' : j \in np.waits
    <3>1. j # i /\ room[j] \in Bg!Keys /\ ctl[j] \in {"connecting", "closing"}
      BY <1>1, <1>4, <1>6, <2>1
    <3>2. PICK op \in running : j \in op.waits
      BY <1>1, <3>1 DEF OneByOne
    <3>3. QED
      BY <1>3, <3>1, <3>2
  <2>2. ASSUME NEW j \in Slots, NEW k \in Slots, room'[j] = room'[k], room'[j] \in Bg!Keys PROVE j = k
    <3>1. room[j] = room'[j] /\ room[k] = room'[k]
      BY <1>1, <1>4, <1>6, <2>2
    <3>2. QED
      BY <1>1, <2>2, <3>1 DEF OneByOne
  <2>3. QED
    BY <1>1, <1>2, <1>3, <2>1, <2>2 DEF OneByOne
<1>10. QED
  BY <1>1, <1>3, <1>7, <1>8, <1>9 DEF BgInv, Sound

LEMMA BgErrs ==
    ASSUME BgInv, NEW f \in Friends, Bg!SessionErrs(f)
    PROVE  BgInv'
<1> DEFINE i == private[f]
<1>1. /\ BgTyped /\ OneHolder /\ OneByOne /\ Wanted /\ OpensOnce /\ ListedOnce /\ Bg!Limits
      /\ 0 \notin Slots /\ 0 \notin Bg!Keys /\ 0 \notin Friends /\ Friends \cap Bg!Keys = {}
  BY BgConstants DEF BgInv, Sound
<1>2. /\ private[f] # 0 /\ ctl[i] = "on" /\ ctl' = [ctl EXCEPT ![i] = "error"]
      /\ UNCHANGED <<room, sess, private, lru, queue, running, opening, last, retry>>
  BY DEF Bg!SessionErrs
<1>3. i \in Slots /\ room[i] = f
  BY <1>1, <1>2 DEF OneHolder, BgTyped
<1>4. spent' \in [calls : 0..MaxCalls, faults : 0..MaxFaults]
  BY BgFaults DEF Bg!SessionErrs
<1> HIDE DEF i
<1>5. /\ ctl' \in [Slots -> {"free", "connecting", "on", "error", "closing"}]
      /\ \A j \in Slots : ctl'[j] = IF j = i THEN "error" ELSE ctl[j]
  BY <1>1, <1>2, <1>3 DEF BgTyped
<1>6. BgTyped'
  BY <1>1, <1>2, <1>4, <1>5 DEF BgTyped
<1>7. OneHolder'
  <2>1. ASSUME NEW k \in Bg!Keys, sess[k] # 0 PROVE ctl'[sess[k]] \in {"connecting", "on"} /\ room[sess[k]] = k
    <3>1. sess[k] \in Slots /\ ctl[sess[k]] \in {"connecting", "on"} /\ room[sess[k]] = k
      BY <1>1, <2>1 DEF OneHolder, BgTyped
    <3>2. sess[k] # i
      BY <1>1, <1>3, <3>1
    <3>3. QED
      BY <1>5, <3>1, <3>2
  <2>2. ASSUME NEW g \in Friends, private[g] # 0
        PROVE  ctl'[private[g]] \in {"connecting", "on", "error"} /\ room[private[g]] = g
    <3>1. private[g] \in Slots /\ ctl[private[g]] \in {"connecting", "on", "error"} /\ room[private[g]] = g
      BY <1>1, <2>2 DEF OneHolder, BgTyped
    <3>2. QED
      BY <1>5, <3>1
  <2>3. ASSUME NEW j \in Slots PROVE ctl'[j] = "free" <=> room[j] = 0
    <3>1. ctl[j] = "free" <=> room[j] = 0
      BY <1>1 DEF OneHolder
    <3>2. QED
      BY <1>1, <1>3, <1>5, <3>1
  <2>4. ASSUME NEW j \in Slots, ctl'[j] \in {"connecting", "on", "error"}
        PROVE  (room[j] \in Bg!Keys /\ sess[room[j]] = j) \/ (room[j] \in Friends /\ private[room[j]] = j)
    <3>1. ctl[j] \in {"connecting", "on", "error"}
      BY <1>2, <1>5, <2>4
    <3>2. QED
      BY <1>1, <3>1 DEF OneHolder
  <2>5. QED
    BY <1>2, <2>1, <2>2, <2>3, <2>4 DEF OneHolder
<1>8. OneByOne'
  <2>1. \A j \in Slots : room[j] \in Bg!Keys /\ ctl'[j] \in {"connecting", "closing"} => \E op \in running : j \in op.waits
    BY <1>1, <1>5 DEF OneByOne
  <2>2. QED
    BY <1>1, <1>2, <2>1 DEF OneByOne
<1>9. ListedOnce' /\ OpensOnce' /\ Wanted' /\ RoomMade'
  BY <1>1, <1>2 DEF BgInv, ListedOnce, Privates, OpensOnce, Wanted, OpenIn, RoomMade
<1>10. QED
  BY <1>1, <1>6, <1>7, <1>8, <1>9 DEF BgInv, Sound

\* A controller that does not connect leaves the map it is in, and is closed.
LEMMA BgFails ==
    ASSUME BgInv, NEW i \in Slots, Bg!ConnectFails(i)
    PROVE  BgInv'
<1>1. /\ BgTyped /\ OneHolder /\ OneByOne /\ Wanted /\ OpensOnce /\ ListedOnce /\ Bg!Limits
      /\ 0 \notin Slots /\ 0 \notin Bg!Keys /\ 0 \notin Friends /\ Friends \cap Bg!Keys = {}
  BY BgConstants DEF BgInv, Sound
<1>2. /\ ctl[i] = "connecting" /\ ctl' = [ctl EXCEPT ![i] = "closing"] /\ sess' = Bg!Dropped(i)
      /\ private' = [f \in Friends |-> IF private[f] = i THEN 0 ELSE private[f]]
      /\ lru' = IF room[i] \in Friends /\ private[room[i]] = i THEN Bg!Unlisted(room[i]) ELSE lru
      /\ UNCHANGED <<room, queue, running, opening, last, retry>>
  BY DEF Bg!ConnectFails
<1>3. spent' \in [calls : 0..MaxCalls, faults : 0..MaxFaults]
  BY BgFaults DEF Bg!ConnectFails
<1>4. /\ ctl' \in [Slots -> {"free", "connecting", "on", "error", "closing"}]
      /\ \A j \in Slots : ctl'[j] = IF j = i THEN "closing" ELSE ctl[j]
  BY <1>1, <1>2 DEF BgTyped
<1>5. /\ sess' \in [Bg!Keys -> Slots \cup {0}]
      /\ \A k \in Bg!Keys : sess'[k] = IF sess[k] = i THEN 0 ELSE sess[k]
  BY <1>1, <1>2 DEF BgTyped, Bg!Dropped
<1>6. /\ private' \in [Friends -> Slots \cup {0}]
      /\ \A f \in Friends : private'[f] = IF private[f] = i THEN 0 ELSE private[f]
  BY <1>1, <1>2 DEF BgTyped
<1>7. BgTyped'
  BY <1>1, <1>2, <1>3, <1>4, <1>5, <1>6 DEF BgTyped
<1>8. OneHolder'
  <2>1. ASSUME NEW k \in Bg!Keys, sess'[k] # 0 PROVE ctl'[sess'[k]] \in {"connecting", "on"} /\ room[sess'[k]] = k
    <3>1. sess'[k] = sess[k] /\ sess[k] # i /\ sess[k] # 0
      BY <1>5, <2>1
    <3>2. sess[k] \in Slots /\ ctl[sess[k]] \in {"connecting", "on"} /\ room[sess[k]] = k
      BY <1>1, <3>1 DEF OneHolder, BgTyped
    <3>3. QED
      BY <1>4, <3>1, <3>2
  <2>2. ASSUME NEW g \in Friends, private'[g] # 0
        PROVE  ctl'[private'[g]] \in {"connecting", "on", "error"} /\ room[private'[g]] = g
    <3>1. private'[g] = private[g] /\ private[g] # i /\ private[g] # 0
      BY <1>6, <2>2
    <3>2. private[g] \in Slots /\ ctl[private[g]] \in {"connecting", "on", "error"} /\ room[private[g]] = g
      BY <1>1, <3>1 DEF OneHolder, BgTyped
    <3>3. QED
      BY <1>4, <3>1, <3>2
  <2>3. ASSUME NEW j \in Slots PROVE ctl'[j] = "free" <=> room[j] = 0
    <3>1. ctl[j] = "free" <=> room[j] = 0
      BY <1>1 DEF OneHolder
    <3>2. QED
      BY <1>2, <1>4, <3>1
  <2>4. ASSUME NEW j \in Slots, ctl'[j] \in {"connecting", "on", "error"}
        PROVE  (room[j] \in Bg!Keys /\ sess'[room[j]] = j) \/ (room[j] \in Friends /\ private'[room[j]] = j)
    <3>1. j # i /\ ctl[j] \in {"connecting", "on", "error"}
      BY <1>4, <2>4
    <3>2. (room[j] \in Bg!Keys /\ sess[room[j]] = j) \/ (room[j] \in Friends /\ private[room[j]] = j)
      BY <1>1, <3>1 DEF OneHolder
    <3>3. QED
      BY <1>5, <1>6, <3>1, <3>2
  <2>5. QED
    BY <1>2, <2>1, <2>2, <2>3, <2>4 DEF OneHolder
<1>9. OneByOne'
  <2>1. \A j \in Slots : room[j] \in Bg!Keys /\ ctl'[j] \in {"connecting", "closing"} => \E op \in running : j \in op.waits
    BY <1>1, <1>2, <1>4 DEF OneByOne
  <2>2. QED
    BY <1>1, <1>2, <2>1 DEF OneByOne
<1>10. Wanted'
  <2>1. OpenIn(Channels)' \subseteq OpenIn(Channels) /\ OpenIn(Groups)' \subseteq OpenIn(Groups)
    BY <1>1, <1>5 DEF OpenIn, Bg!Keys
  <2>2. QED
    BY <1>1, <1>2, <2>1 DEF Wanted
<1>11. ListedOnce'
  <2>1. CASE room[i] \in Friends /\ private[room[i]] = i
    <3>1. Privates' = Privates \ {room[i]}
      <4>1. \A f \in Friends : private[f] = i => f = room[i]
        BY <1>1 DEF OneHolder
      <4>2. QED
        BY <1>1, <1>6, <2>1, <4>1 DEF Privates
    <3>2. QED
      BY <1>1, <1>2, <2>1, <3>1, Unlists DEF ListedOnce
  <2>2. CASE ~(room[i] \in Friends /\ private[room[i]] = i)
    <3>1. Privates' = Privates
      <4>1. \A f \in Friends : private[f] # i
        BY <1>1, <2>2 DEF OneHolder
      <4>2. QED
        BY <1>6, <4>1 DEF Privates
    <3>2. QED
      BY <1>1, <1>2, <2>2, <3>1 DEF ListedOnce
  <2>3. QED
    BY <2>1, <2>2
<1>12. OpensOnce'
  <2>1. \A o \in opening : o.f \in Friends
    BY <1>1 DEF BgTyped, BgOpenings
  <2>2. QED
    BY <1>1, <1>2, <1>6, <2>1 DEF OpensOnce
<1>13. RoomMade'
  <2>1. Privates' \in SUBSET Privates /\ IsFiniteSet(Privates) /\ MaxPrivate \in Nat /\ Cardinality(Privates) \in Nat
    BY <1>6, BgSize DEF Privates
  <2>2. Cardinality(Privates') \in Nat /\ Cardinality(Privates') <= Cardinality(Privates)
    <3>1. IsFiniteSet(Privates')
      BY <2>1, FS_Subset
    <3>2. QED
      BY <2>1, <3>1, FS_Subset, FS_CardinalityType
  <2>3. QED
    BY <1>2, <2>1, <2>2 DEF BgInv, RoomMade
<1>14. QED
  BY <1>1, <1>7, <1>8, <1>9, <1>10, <1>11, <1>12, <1>13 DEF BgInv, Sound

LEMMA BgStep ==
    ASSUME BgInv, [Bg!Next]_(Bg!vars)
    PROVE  BgInv'
<1>1. CASE UNCHANGED Bg!vars
  BY <1>1 DEF Bg!vars, BgInv, Sound, BgTyped, OneHolder, OneByOne, ListedOnce, OpensOnce, Wanted, RoomMade, Privates, OpenIn
<1>2. CASE Bg!Next
  <2>1. CASE (\E args \in Bg!Args : Bg!Sync(args)) \/ (\E ch \in Channels : Bg!Release(ch)) \/ Bg!Disconnect \/ Bg!RetryFires
    BY <2>1, BgQueued
  <2>2. CASE Bg!Begins
    BY <2>2, BgBegins
  <2>3. ASSUME NEW op \in running, Bg!Runs(op) \/ Bg!IdentityFails(op) PROVE BgInv'
    BY <2>3, BgSyncs, BgOthers, BgDisconnects DEF Bg!Runs
  <2>4. ASSUME NEW f \in Friends, \/ Bg!OpenExisting(f) \/ Bg!OpenAgain(f) \/ Bg!OpenNew(f)
                                  \/ Bg!DisconnectPrivate(f) \/ Bg!SessionErrs(f)
        PROVE  BgInv'
    BY <2>4, BgReuses, BgOpensAnew, BgPrivateEnds, BgErrs
  <2>5. ASSUME NEW o \in opening, Bg!Opens(o) PROVE BgInv'
    BY <2>5, BgMakesRoom, BgCreates, BgPrivateEnds DEF Bg!Opens
  <2>6. ASSUME NEW i \in Slots, Bg!Connected(i) \/ Bg!ConnectFails(i) \/ Bg!Closed(i) PROVE BgInv'
    BY <2>6, BgSettled, BgFails
  <2>7. QED
    BY <1>2, <2>1, <2>2, <2>3, <2>4, <2>5, <2>6 DEF Bg!Next
<1>3. QED
  BY <1>1, <1>2

LEMMA BgStarts ==
    ASSUME Bg!Limits, Bg!Init
    PROVE  BgInv
<1>1. /\ MaxPrivate \in Nat /\ MaxCalls \in Nat /\ MaxFaults \in Nat /\ 0 \notin Slots /\ 0 \notin Bg!Keys /\ 0 \notin Friends
  BY BgConstants
<1>2. Privates = {} /\ OpenIn(Channels) = {} /\ OpenIn(Groups) = {}
  BY DEF Bg!Init, Privates, OpenIn, Bg!Keys
<1>3. BgTyped
  <2>1. spent \in [calls : 0..MaxCalls, faults : 0..MaxFaults]
    BY <1>1 DEF Bg!Init
  <2>2. sess \in [Bg!Keys -> Slots \cup {0}] /\ private \in [Friends -> Slots \cup {0}]
    BY DEF Bg!Init
  <2>3. room \in [Slots -> Bg!Keys \cup Friends \cup {0}]
    BY DEF Bg!Init
  <2>4. ctl \in [Slots -> {"free", "connecting", "on", "error", "closing"}]
    BY DEF Bg!Init
  <2>5. queue = <<>> /\ running = {} /\ opening = {} /\ last \in Bg!Args \cup {Bg!NoArgs} /\ retry \in BOOLEAN
    BY Zenon DEF Bg!Init
  <2>6. queue \in Seq(BgOperations)
    BY <2>5
  <2>7. QED
    BY <2>1, <2>2, <2>3, <2>4, <2>5, <2>6 DEF BgTyped
<1>4. OneHolder /\ OneByOne /\ OpensOnce
  BY <1>1 DEF Bg!Init, OneHolder, OneByOne, OpensOnce
<1>5. ListedOnce
  BY <1>2 DEF Bg!Init, ListedOnce, ListsOnce
<1>6. Wanted
  <2>1. [chans |-> {}, groups |-> {}, none |-> FALSE] \in Bg!Args
    BY DEF Bg!Args
  <2>2. QED
    BY <1>2, <2>1 DEF Bg!Init, Wanted
<1>7. RoomMade
  <2>1. Cardinality({}) = 0 /\ MaxPrivate \in Nat \ {0}
    BY FS_EmptySet, BgConstants
  <2>2. QED
    BY <1>2, <2>1 DEF Bg!Init, RoomMade
<1>8. QED
  BY <1>3, <1>4, <1>5, <1>6, <1>7 DEF BgInv, Sound

---------------------------------------------------------------------------
LEMMA BgAccounts ==
    ASSUME BgInv
    PROVE  SessionsTyped /\ NoOrphan /\ NoTwins /\ (SerialPrivate => WithinCapacity)
<1>1. /\ BgTyped /\ OneHolder /\ OneByOne /\ Wanted /\ Bg!Limits /\ 0 \notin Slots /\ Friends \cap Bg!Keys = {}
  BY BgConstants DEF BgInv, Sound
<1>2. SessionsTyped
  <2>1. {lru[n] : n \in DOMAIN lru} = {f \in Friends : private[f] # 0} /\ Len(lru) = Size
    BY BgSize DEF Privates, Size
  <2>2. \A k \in Keys : sess[k] # 0 => ctl[sess[k]] \in {"connecting", "on"}
    BY <1>1 DEF OneHolder, Keys, Bg!Keys
  <2>3. \A f \in Friends : private[f] # 0 => ctl[private[f]] \in {"connecting", "on", "error"}
    BY <1>1 DEF OneHolder
  <2>4. Keys = Bg!Keys
    BY DEF Keys, Bg!Keys
  <2>5. last \in Args \cup {NoArgs}
    BY <1>1 DEF BgTyped, Args, Bg!Args, NoArgs, Bg!NoArgs
  <2>6. spent \in [calls : 0..MaxCalls, faults : Nat]
    BY <1>1 DEF BgTyped
  <2>7. QED
    BY <1>1, <2>1, <2>2, <2>3, <2>4, <2>5, <2>6 DEF SessionsTyped, BgTyped
<1>3. NoOrphan
  <2>1. ASSUME NEW i \in Slots, ctl[i] \in {"connecting", "on", "error"} PROVE Cardinality(Users(i)) = 1
    <3>1. i # 0 /\ \A x \in Users(i) : x = room[i]
      BY <1>1 DEF Users, OneHolder, Keys, Bg!Keys
    <3>2. room[i] \in Users(i)
      BY <1>1, <2>1 DEF Users, OneHolder, Keys, Bg!Keys
    <3>3. Users(i) = {room[i]}
      BY <3>1, <3>2
    <3>4. Cardinality({room[i]}) = 1
      BY FS_Singleton
    <3>5. QED
      BY <3>3, <3>4
  <2>2. QED
    BY <2>1 DEF NoOrphan
<1>4. NoTwins
  BY <1>1 DEF OneByOne, NoTwins, Keys, Bg!Keys
<1>5. ASSUME NEW S \in SUBSET Nat, IsFiniteSet(S), NEW max \in Nat, NEW P \in SUBSET Bg!First(S, max)
      PROVE  Cardinality(P) <= max
  <2>1. IsFiniteSet(Bg!First(S, max)) /\ Cardinality(Bg!First(S, max)) <= max
    BY <1>5, FirstFew
  <2>2. IsFiniteSet(P) /\ Cardinality(P) <= Cardinality(Bg!First(S, max))
    BY <2>1, FS_Subset
  <2>3. Cardinality(P) \in Nat /\ Cardinality(Bg!First(S, max)) \in Nat
    BY <2>1, <2>2, FS_CardinalityType
  <2>4. QED
    BY <2>1, <2>2, <2>3
<1>6. Cardinality(OpenIn(Channels)) <= MaxChannels
  <2>1. PICK a \in Bg!Args : OpenIn(Channels) \subseteq Bg!DesiredChannels(a)
    BY <1>1 DEF Wanted
  <2>2. a.chans \in SUBSET Nat /\ IsFiniteSet(a.chans) /\ MaxChannels \in Nat
    <3>1. a.chans \in SUBSET Channels /\ Channels \in SUBSET Nat /\ IsFiniteSet(Channels) /\ MaxChannels \in Nat
      BY <1>1, BgConstants DEF Bg!Args
    <3>2. QED
      BY <3>1, FS_Subset
  <2>3. OpenIn(Channels) \in SUBSET Bg!First(a.chans, MaxChannels)
    BY <2>1 DEF Bg!DesiredChannels
  <2>4. QED
    BY <1>5, <2>2, <2>3
<1>7. Cardinality(OpenIn(Groups)) <= MaxGroups
  <2>1. PICK a \in Bg!Args : OpenIn(Groups) \subseteq Bg!DesiredGroups(a)
    BY <1>1 DEF Wanted
  <2>2. a.groups \in SUBSET Nat /\ IsFiniteSet(a.groups) /\ MaxGroups \in Nat
    <3>1. a.groups \in SUBSET Groups /\ Groups \in SUBSET Nat /\ IsFiniteSet(Groups) /\ MaxGroups \in Nat
      BY <1>1, BgConstants DEF Bg!Args
    <3>2. QED
      BY <3>1, FS_Subset
  <2>3. OpenIn(Groups) \in SUBSET Bg!First(a.groups, MaxGroups)
    BY <2>1 DEF Bg!DesiredGroups
  <2>4. QED
    BY <1>5, <2>2, <2>3
<1>8. SerialPrivate => WithinCapacity
  BY <1>6, <1>7 DEF WithinCapacity, OpenIn, BgInv, RoomMade, Size, Privates
<1>9. QED
  BY <1>2, <1>3, <1>4, <1>8

\* Every controller that runs is held by exactly one entry of the maps, and a channel or a group
\* has one at most, closing ones included: however the operations of the queue, the calls for the
\* private conversations, the retries and the failures interleave (runExclusive of
\* background-manager.ts), for any numbers of channels, groups and friends.
THEOREM EveryControllerIsHeld ==
    ASSUME Bg!Limits
    PROVE  Bg!Spec => [](SessionsTyped /\ NoOrphan /\ NoTwins)
<1>1. Bg!Init => BgInv
  BY BgStarts
<1>2. BgInv /\ [Bg!Next]_(Bg!vars) => BgInv'
  BY BgStep
<1>3. BgInv => SessionsTyped /\ NoOrphan /\ NoTwins
  BY BgAccounts
<1>4. QED
  BY <1>1, <1>2, <1>3, PTL DEF Bg!Spec

\* With one private conversation at a time making room (SerialPrivate), the limits of the
\* background sessions hold at every moment too: sync closes what is not wanted before it opens
\* what is, and evictPrivateSessionIfNeeded runs before the session is created.
THEOREM SessionsStayAccountedFor ==
    ASSUME Bg!Limits, SerialPrivate
    PROVE  Bg!Spec => []SessionsAccountedFor
<1>1. Bg!Init => BgInv
  BY BgStarts
<1>2. BgInv /\ [Bg!Next]_(Bg!vars) => BgInv'
  BY BgStep
<1>3. BgInv => SessionsAccountedFor
  BY BgAccounts DEF SessionsAccountedFor
<1>4. QED
  BY <1>1, <1>2, <1>3, PTL DEF Bg!Spec

=============================================================================
