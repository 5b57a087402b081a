------------------------------- MODULE Call -------------------------------
(* One CallController (apps/web/src/call/CallController.ts) in calls of a  *)
(* group: joining and leaving, whose asynchronous steps are cancelled by   *)
(* the generation CallSession keeps; peers that come and go at the         *)
(* rendezvous; the challenge and proof that each connection needs before   *)
(* media is authorized; and the group's list of members, which changes     *)
(* while proofs are being verified.                                        *)
(*                                                                         *)
(* Mesh models the transport; here a connection is absent, new, open or    *)
(* shut (its control channel closed).  The participant list, the peers'    *)
(* media states and the sounds are shown to the user and decide nothing.   *)
EXTENDS CallState, FiniteSetsExt

MaxChallenges == 3      \* MAX_AUTH_CHALLENGES_PER_CONNECTION

vars == <<ctl, ops, group, joins, faults>>

Standings == {"member", "removed", "absent"}
Members(g) == {p \in Peers : g.standing[p] = "member"}
Removed(g) == {p \in Peers : g.standing[p] = "removed"}

Blank == [p \in Peers |-> 0]

\* The fields of CallController and CallSession; link, media and wire belong to the transports,
\* online, present and outdated to the signaling providers: which are connected,
\* whom they see, and which of the peers run an incompatible version.
NewController ==
    [life |-> 0, room |-> FALSE, rendezvous |-> 0, sig |-> 0, trans |-> 0, bound |-> {}, ready |-> FALSE,
     trusted |-> {}, revoked |-> {}, challenge |-> Blank, attempts |-> Blank, timer |-> {}, done |-> {},
     ident |-> {}, revOnly |-> {}, pendRev |-> {},
     link |-> [n \in Sessions |-> [p \in Peers |-> "none"]], media |-> [n \in Sessions |-> {}], wire |-> {},
     online |-> {}, present |-> {}, outdated |-> {}]

\* F(x), with x evaluated once.
With(x, F(_)) == CHOOSE r \in {F(v) : v \in {x}} : TRUE
Each(S, c, F(_, _)) == FoldSet(LAMBDA p, a : With(a, LAMBDA b : F(b, p)), c, S)

IsActive(c, life) == c.life = life /\ c.room /\ c.trans # 0 /\ c.sig # 0
PresencePeers(c) == IF c.sig \in c.online THEN c.present ELSE {}
Open(c, p) == c.trans # 0 /\ c.link[c.trans][p] = "open"

---------------------------------------------------------------------------
(* Transport: what the controller asks of it and is told.                  *)

\* disconnect: the connections, what is on their wire and the authorizations go.
Disconnect(c, n, who) ==
    [c EXCEPT !.link[n] = [p \in Peers |-> IF p \in who THEN "none" ELSE @[p]], !.media[n] = @ \ who,
              !.wire = {m \in @ : ~(m.n = n /\ m.peer \in who)}]

DisconnectPeer(c, n, p) == Disconnect(c, n, {p})

\* connectPeer, and acceptOffer of a peer without a connection.
ConnectPeer(c, n, p) ==
    IF c.link[n][p] = "none" /\ Cardinality({q \in Peers : c.link[n][q] # "none"}) < Capacity - 1
    THEN [c EXCEPT !.link[n][p] = "new"] ELSE c

---------------------------------------------------------------------------
(* Admission.                                                              *)

\* isAdmittedCallPeer: one revoked peer at a time may come for its certificate.
IsAdmitted(c, p) ==
    \/ p \in c.trusted
    \/ p \in c.revoked /\ (p \in c.pendRev \cup c.revOnly \/ c.pendRev \cup c.revOnly = {})

Admit(c, p) == IF IsAdmitted(c, p) /\ p \notin c.trusted \cup c.revOnly THEN [c EXCEPT !.pendRev = @ \cup {p}] ELSE c

\* The peers that fit: the smallest identifiers at the rendezvous, the local one included.
Everyone(c) == {Me} \cup PresencePeers(c)
Fitting(c) == {q \in Everyone(c) : Cardinality({r \in Everyone(c) : r < q}) < Capacity}
Fits(c, p) == c.sig = 0 \/ c.trans = 0 \/ (Me \in Fitting(c) /\ p \in Fitting(c))

\* enforceMeshCapacity: connections that do not fit are dropped.
EnforceMeshCapacity(c) ==
    IF c.sig = 0 \/ c.trans = 0 \/ Everyone(c) = Fitting(c) THEN c
    ELSE Disconnect(c, c.trans, IF Me \in Fitting(c) THEN Peers \ Fitting(c) ELSE Peers)

---------------------------------------------------------------------------
(* Authentication of a peer.                                               *)

\* schedulePeerAuthenticationCheck; timers belong to the session that is in the room.
Schedule(c, p) == IF c.room /\ p \notin c.done THEN [c EXCEPT !.timer = @ \cup {p}] ELSE c

Forget(c, p) == [c EXCEPT !.challenge[p] = 0, !.attempts[p] = 0, !.timer = @ \ {p}]

Nonces(c) == {c.challenge[p] : p \in Peers} \cup {m.nonce : m \in c.wire} \cup {o.nonce : o \in {o \in ops : o.kind = "verify"}} \cup {0}
FreshNonce(c) == CHOOSE k \in 1..(Cardinality(Nonces(c)) + 1) : k \notin Nonces(c) /\ \A j \in 1..(k - 1) : j \in Nonces(c)

\* sendAuthChallenge over an open control channel.
SendAuthChallenge(c, p) ==
    LET k == FreshNonce(c)
    IN Schedule([c EXCEPT !.challenge[p] = k, !.attempts[p] = @ + 1,
                          !.wire = @ \cup {[type |-> "challenge", n |-> c.trans, peer |-> p, nonce |-> k, good |-> TRUE]}], p)
CanChallenge(c, p) == c.room /\ c.trans # 0 /\ p \notin c.done

\* handleDataChannelState: the channel opened.
ChannelOpened(c, p) ==
    IF ~CanChallenge(c, p) THEN c
    ELSE IF Open(c, p) THEN SendAuthChallenge(c, p) ELSE [c EXCEPT !.challenge[p] = 0]

\* Mutant: no check is scheduled for the peer.
ChannelClosedUnwatched(c, p) == IF c.room /\ IsAdmitted(c, p) THEN Forget([Admit(c, p) EXCEPT !.done = @ \ {p}], p) ELSE c

\* handleDataChannelState: it closed; an authenticated peer has to prove itself again.
ChannelClosed(c, p) ==
    IF ~c.room \/ ~IsAdmitted(c, p) THEN c
    ELSE LET a == Admit(c, p)
         IN IF p \in a.done THEN Schedule(Forget([a EXCEPT !.done = @ \ {p}], p), p) ELSE Schedule(a, p)

\* Mutant: the proof outlives the connection it went over.
OnPeerResetKeepingProof(c, p) ==
    LET a == Forget(c, p) IN IF a.room /\ IsAdmitted(a, p) THEN Schedule(Admit(a, p), p) ELSE a

\* onPeerReset: the transport replaced the connection.
OnPeerReset(c, p) ==
    LET a == Forget([c EXCEPT !.done = @ \ {p}, !.ident = @ \ {p}], p)
    IN IF a.room /\ IsAdmitted(a, p) THEN Schedule(Admit(a, p), p) ELSE a

\* The transport disposes of a connection and creates its replacement.
Recreate(c, n, p) == OnPeerReset([DisconnectPeer(c, n, p) EXCEPT !.link[n][p] = "new"], p)

\* rejectIncompatibleCallPeer.
RejectIncompatible(c, p) ==
    LET a == Forget([c EXCEPT !.pendRev = @ \ {p}], p) IN IF a.trans = 0 THEN a ELSE DisconnectPeer(a, a.trans, p)

\* One peer of connectPresentAdmittedCallPeers, and the rest of peerJoined once the peer is admitted.
Engage(c, p) == ConnectPeer(Schedule(c, p), c.trans, p)

EngageIfFits(c, p) == With(EnforceMeshCapacity(Admit(c, p)), LAMBDA b : IF Fits(b, p) /\ b.ready THEN Engage(b, p) ELSE b)

ConnectPresent(c, life) ==
    IF ~IsActive(c, life) \/ ~c.ready THEN c
    ELSE Each(PresencePeers(c), c, LAMBDA a, p : IF IsAdmitted(a, p) THEN EngageIfFits(a, p) ELSE a)

\* The handlers bindSignaling installs.
PeerJoined(c, p) ==
    IF p \in c.outdated THEN RejectIncompatible(c, p)
    ELSE IF ~IsAdmitted(c, p) THEN c
    ELSE EngageIfFits(c, p)

PeerLeft(c, p) ==
    LET a == Forget([c EXCEPT !.done = @ \ {p}, !.ident = @ \ {p}, !.revOnly = @ \ {p}, !.pendRev = @ \ {p}], p)
    IN With(IF c.trans = 0 THEN a ELSE DisconnectPeer(a, c.trans, p), LAMBDA b : ConnectPresent(b, b.life))

---------------------------------------------------------------------------
(* Joining and leaving.                                                    *)

Start(op) == ops' = ops \cup {op}
Finish(op) == ops' = ops \ {op}
Become(op, next) == ops' = (ops \ {op}) \cup next

Fault == faults < MaxFaults /\ faults' = faults + 1

\* cleanup up to its first await: everything is detached from the session.
Detached(c) == [NewController EXCEPT !.life = c.life + 1, !.link = c.link, !.media = c.media, !.wire = c.wire,
                                            !.online = c.online, !.present = c.present, !.outdated = c.outdated]

\* Mutant: the transport is left to whoever created it.
CleanupSignalingOnly(c) == {[kind |-> "cleanup", n |-> c.sig, t |-> 0]}

CleanupOps(c) == {[kind |-> "cleanup", n |-> c.sig, t |-> c.trans]}

\* session.begin and the resets of join, with the group the caller loaded.
Begun(c) ==
    [Detached(c) EXCEPT !.room = TRUE, !.sig = c.sig, !.trans = c.trans, !.bound = c.bound,
                        !.rendezvous = group.secret, !.trusted = Members(group), !.revoked = Removed(group)]

BeginOp == [kind |-> "join", life |-> ctl.life + 1, n |-> joins', step |-> "network"]

ContextLoaded == SlowContext \/ ~\E op \in ops : op.kind = "join" /\ op.step = "network"

\* join: an earlier call is left first.
Join ==
    /\ joins < MaxJoins /\ joins' = joins + 1 /\ ContextLoaded
    /\ IF joins = 0 THEN UNCHANGED faults ELSE Fault
    /\ IF ctl.room
       THEN /\ ctl' = Detached(ctl)
            /\ ops' = ops \cup CleanupOps(ctl) \cup {[kind |-> "join", life |-> 0, n |-> joins', step |-> "leaving"]}
       ELSE ctl' = Begun(ctl) /\ Start(BeginOp)
    /\ UNCHANGED group

Leave ==
    /\ ctl.room /\ ContextLoaded /\ Fault
    /\ ctl' = Detached(ctl) /\ ops' = ops \cup CleanupOps(ctl)
    /\ UNCHANGED <<group, joins>>

\* cleanup disconnects the provider it detached, which also ends a connect that still waits, then leaves the transport.
CleanupSignaling(op) ==
    /\ op.kind = "cleanup" /\ op.n # 0
    /\ ctl' = [ctl EXCEPT !.online = @ \ {op.n}]
    /\ ops' = {IF o.kind = "join" /\ o.step = "connect" /\ o.n = op.n THEN [o EXCEPT !.step = "rejected"]
               ELSE IF o = op THEN [op EXCEPT !.n = 0] ELSE o : o \in ops}
    /\ UNCHANGED <<group, joins, faults>>

CleanupTransport(op) ==
    /\ op.kind = "cleanup" /\ op.n = 0
    /\ ctl' = IF op.t = 0 THEN ctl ELSE Disconnect(ctl, op.t, Peers)
    /\ Finish(op) /\ UNCHANGED <<group, joins, faults>>

\* join resumes once the earlier call's cleanup is over.
JoinLeft(op) ==
    /\ op.kind = "join" /\ op.step = "leaving" /\ ~\E o \in ops : o.kind = "cleanup"
    /\ ctl' = Begun(ctl)
    /\ Become(op, {[op EXCEPT !.life = ctl.life + 1, !.step = "network"]})
    /\ UNCHANGED <<group, joins, faults>>

\* The network context is loaded: the provider is created, whatever became of the session.
JoinNetwork(op) ==
    /\ op.kind = "join" /\ op.step = "network"
    /\ ctl' = [ctl EXCEPT !.sig = op.n]
    /\ Become(op, {[op EXCEPT !.step = "connect"]})
    /\ UNCHANGED <<group, joins, faults>>

\* The catch of join: a session that is still this one is cleaned up.
Abort(c, op) ==
    IF c.life = op.life THEN ctl' = Detached(c) /\ Become(op, CleanupOps(c)) ELSE ctl' = c /\ Finish(op)

\* The provider is connected: the transport is created and the handlers are bound.
JoinConnected(op) ==
    /\ op.kind = "join" /\ op.step = "connect"
    /\ LET c == [ctl EXCEPT !.online = @ \cup {op.n}]
       IN IF ctl.life # op.life THEN Abort(c, op)
          ELSE /\ ctl' = [c EXCEPT !.trans = op.n, !.bound = @ \cup {op.n}, !.ready = TRUE]
               /\ Become(op, {[op EXCEPT !.step = "profile"]})
    /\ UNCHANGED <<group, joins, faults>>

\* The profile and the microphone are ready: the peers already present are connected.
JoinReady(op) ==
    /\ op.kind = "join" /\ op.step = "profile"
    /\ IF ~IsActive(ctl, op.life) THEN Abort(ctl, op) ELSE ctl' = ConnectPresent(ctl, op.life) /\ Finish(op)
    /\ UNCHANGED <<group, joins, faults>>

JoinFails(op) ==
    /\ op.kind = "join" /\ op.step # "leaving"
    /\ IF op.step = "rejected" THEN UNCHANGED faults ELSE Fault
    /\ Abort(ctl, op) /\ UNCHANGED <<group, joins>>

---------------------------------------------------------------------------
(* Peers and connections.                                                  *)

Bound == ctl.bound \cap ctl.online # {}

PeerAppears(p) ==
    /\ p \notin ctl.present
    /\ LET c == [ctl EXCEPT !.present = @ \cup {p}] IN ctl' = IF Bound THEN PeerJoined(c, p) ELSE c
    /\ UNCHANGED <<ops, group, joins, faults>>

PeerDisappears(p) ==
    /\ p \in ctl.present /\ Fault
    /\ LET c == [ctl EXCEPT !.present = @ \ {p}] IN ctl' = IF Bound THEN PeerLeft(c, p) ELSE c
    /\ UNCHANGED <<ops, group, joins>>

\* The peer restarted within the grace period: the provider reports its departure, still listing it, and its arrival.
PeerReplaced(p) ==
    /\ p \in ctl.present /\ Fault
    /\ ctl' = IF Bound THEN With(PeerLeft(ctl, p), LAMBDA c : PeerJoined(c, p)) ELSE ctl
    /\ ctl' # ctl
    /\ UNCHANGED <<ops, group, joins>>

\* An offer of a peer at the rendezvous creates the connection to it.
Offered(p) ==
    /\ Bound /\ p \in ctl.present /\ ctl.trans # 0 /\ ctl.link[ctl.trans][p] = "none" /\ IsAdmitted(ctl, p)
    /\ LET c == EnforceMeshCapacity(Admit(ctl, p)) IN ctl' = IF Fits(c, p) THEN ConnectPeer(c, c.trans, p) ELSE c
    /\ ctl' # ctl
    /\ UNCHANGED <<ops, group, joins, faults>>

\* onDataState of the transport of join n; a closed channel takes what was on it along.
LinkOpens(n, p) ==
    /\ ctl.link[n][p] = "new" /\ p \in ctl.present
    /\ ctl' = ChannelOpened([ctl EXCEPT !.link[n][p] = "open"], p)
    /\ UNCHANGED <<ops, group, joins, faults>>

LinkCloses(n, p) ==
    /\ ctl.link[n][p] = "open" /\ Fault
    /\ ctl' = ChannelClosed([ctl EXCEPT !.link[n][p] = "shut", !.wire = {m \in @ : ~(m.n = n /\ m.peer = p)}], p)
    /\ UNCHANGED <<ops, group, joins>>

\* The transport recovers a broken connection by itself.
LinkResets(n, p) ==
    /\ ctl.link[n][p] \in {"open", "shut"} /\ Fault
    /\ ctl' = Recreate(ctl, n, p)
    /\ UNCHANGED <<ops, group, joins>>

\* The peer answers a challenge, wrongly or not at all included.
RemoteAnswers(m) ==
    /\ m.type = "challenge"
    /\ LET rest == [ctl EXCEPT !.wire = @ \ {m}]
       IN \/ ctl' = [rest EXCEPT !.wire = @ \cup {[m EXCEPT !.type = "proof"]}] /\ UNCHANGED faults
          \/ Fault /\ ctl' \in {rest, [rest EXCEPT !.wire = @ \cup {[m EXCEPT !.type = "proof", !.good = FALSE]}]}
    /\ UNCHANGED <<ops, group, joins>>

---------------------------------------------------------------------------
(* Proofs.                                                                 *)

\* handleAuthMessage and acceptAuthProof up to the verification.
ProofArrives(m) ==
    /\ m.type = "proof"
    /\ LET c == [ctl EXCEPT !.wire = @ \ {m}]
       IN IF c.room /\ m.peer \in c.outdated THEN ctl' = RejectIncompatible(c, m.peer) /\ UNCHANGED ops
          ELSE /\ ctl' = c
               /\ IF c.room /\ c.trans # 0 /\ c.challenge[m.peer] = m.nonce /\ m.peer \in c.trusted \cup c.revoked
                  THEN Start([kind |-> "verify", life |-> c.life, n |-> c.trans, peer |-> m.peer, nonce |-> m.nonce,
                              good |-> m.good, removed |-> m.peer \in c.revoked])
                  ELSE UNCHANGED ops
    /\ UNCHANGED <<group, joins, faults>>

\* acceptAuthProof once the proof is verified; authorizePeerMedia fails without a connection but remembers the peer.
Accepted(c, op) ==
    LET a == [Forget(c, op.peer) EXCEPT !.ident = @ \cup {op.peer}, !.done = @ \cup {op.peer}]
    IN IF op.peer \in c.revoked
       THEN [a EXCEPT !.pendRev = @ \ {op.peer}, !.revOnly = @ \cup {op.peer}, !.media[op.n] = @ \ {op.peer}]
       ELSE [a EXCEPT !.media[op.n] = @ \cup {op.peer}]

ProofVerified(op) ==
    /\ op.kind = "verify"
    /\ ctl' = IF op.good /\ IsActive(ctl, op.life) /\ ctl.trans = op.n /\ ctl.challenge[op.peer] = op.nonce
            THEN Accepted(ctl, op) ELSE ctl
    /\ Finish(op) /\ UNCHANGED <<group, joins, faults>>

\* The peer is being dealt with: its timer should not expire yet.
Busy(p) ==
    \/ \E m \in ctl.wire : m.peer = p /\ m.n = ctl.trans
    \/ \E o \in ops : o.kind \in {"verify", "recover"} /\ o.peer = p
    \/ ctl.trans # 0 /\ ctl.link[ctl.trans][p] = "new"

\* recoverPeerAuthentication: challenge again, or have the transport recreate the connection.
TimerFires(p) ==
    /\ p \in ctl.timer
    /\ IF Busy(p) THEN Fault ELSE UNCHANGED faults
    /\ LET c == [ctl EXCEPT !.timer = @ \ {p}]
           a == [c EXCEPT !.challenge[p] = 0, !.attempts[p] = 0]
           op == [kind |-> "recover", life |-> c.life, n |-> c.trans, peer |-> p, failed |-> c.link[c.trans][p] = "none"]
       IN IF ~IsActive(c, c.life) \/ p \in c.done \/ ~IsAdmitted(c, p) \/ p \notin PresencePeers(c)
          THEN ctl' = c /\ UNCHANGED ops
          ELSE IF c.attempts[p] < MaxChallenges /\ Open(c, p)
          THEN ctl' = SendAuthChallenge(Admit(c, p), p) /\ UNCHANGED ops
          ELSE /\ ctl' = IF op.failed THEN Admit(a, p) ELSE Recreate(Admit(a, p), c.trans, p)
               /\ Start(op)
    /\ UNCHANGED <<group, joins>>

\* recoverPeer settled; when it failed the peer is connected afresh.  The check is armed again in any case.
RecoverySettles(op) ==
    /\ op.kind = "recover"
    /\ \/ op.failed /\ UNCHANGED faults
       \/ ~op.failed /\ UNCHANGED faults
       \/ ~op.failed /\ Fault
    /\ LET current == IsActive(ctl, op.life) /\ ctl.trans = op.n
           c == IF op.failed \/ faults' # faults
                THEN LET d == DisconnectPeer(ctl, op.n, op.peer) IN IF current THEN ConnectPeer(d, op.n, op.peer) ELSE d
                ELSE ctl
       IN ctl' = IF current THEN Schedule(c, op.peer) ELSE c
    /\ Finish(op) /\ UNCHANGED <<group, joins>>

---------------------------------------------------------------------------
(* The group changes during the call.                                      *)

RefreshOp(life) == [kind |-> "refresh", life |-> life, id |-> faults', step |-> "load", snap |-> group, todo |-> {}]

\* The stored group changes; every change is announced to the window.
GroupChanges(p, standing) ==
    /\ group.standing[p] # "removed" /\ group.standing[p] # standing /\ Fault
    /\ group' = [group EXCEPT !.standing[p] = standing, !.secret = IF standing = "removed" THEN @ + 1 ELSE @]
    /\ IF ctl.bound # {} THEN Start(RefreshOp(ctl.life)) ELSE UNCHANGED ops
    /\ UNCHANGED <<ctl, joins>>

\* handleGroupRevocationMessage: a peer relays a certificate of removal.
CertificateArrives(p, target) ==
    /\ ctl.room /\ Open(ctl, p) /\ Fault
    /\ Start([kind |-> "certificate", life |-> ctl.life, id |-> faults', target |-> target])
    /\ UNCHANGED <<ctl, group, joins>>

CertificateApplied(op) ==
    /\ op.kind = "certificate"
    /\ group' = IF op.target = Me THEN group ELSE [group EXCEPT !.standing[op.target] = "removed"]
    /\ IF ~IsActive(ctl, op.life) THEN UNCHANGED ctl /\ Finish(op)
       ELSE IF op.target = Me THEN ctl' = Detached(ctl) /\ Become(op, CleanupOps(ctl))
       ELSE UNCHANGED ctl /\ Become(op, {[kind |-> "refresh", life |-> ctl.life, id |-> op.id, step |-> "load", snap |-> group, todo |-> {}]})
    /\ UNCHANGED <<joins, faults>>

\* refreshGroupSecurity: the group is read ...
RefreshLoads(op) ==
    /\ op.kind = "refresh" /\ op.step = "load"
    /\ Become(op, {[op EXCEPT !.step = "apply", !.snap = group]})
    /\ UNCHANGED <<ctl, group, joins, faults>>

\* ... decides who is trusted and revoked ...
RefreshApplies(op) ==
    /\ op.kind = "refresh" /\ op.step = "apply"
    /\ IF ~IsActive(ctl, op.life) THEN UNCHANGED ctl /\ Finish(op)
       ELSE /\ ctl' = [ctl EXCEPT !.trusted = Members(op.snap), !.revoked = Removed(op.snap)]
            /\ Become(op, {[op EXCEPT !.step = "peers", !.todo = ctl.ident]})
    /\ UNCHANGED <<group, joins, faults>>

\* ... and each identified peer loses what it may no longer have.
Reviewed(c, p) ==
    IF p \in c.revoked THEN [c EXCEPT !.revOnly = @ \cup {p}, !.media[c.trans] = @ \ {p}]
    ELSE IF p \notin c.trusted THEN DisconnectPeer([c EXCEPT !.done = @ \ {p}, !.ident = @ \ {p}], c.trans, p)
    ELSE c

RefreshReviews(op, p) ==
    /\ op.kind = "refresh" /\ op.step = "peers" /\ p \in op.todo
    /\ IF ~IsActive(ctl, op.life) THEN UNCHANGED ctl /\ Finish(op)
       ELSE ctl' = Reviewed(ctl, p) /\ Become(op, {[op EXCEPT !.todo = @ \ {p}]})
    /\ UNCHANGED <<group, joins, faults>>

\* A rotated secret moves the call to another rendezvous: the provider reports everyone as gone, still listing them.
Moved(c, secret) ==
    With(Each(PresencePeers(c), [c EXCEPT !.rendezvous = secret], PeerLeft),
         LAMBDA a : [a EXCEPT !.online = @ \ {c.sig}, !.present = {}])

RefreshEnds(op) ==
    /\ op.kind = "refresh" /\ op.step = "peers" /\ op.todo = {}
    /\ IF ~IsActive(ctl, op.life) THEN UNCHANGED ctl /\ Finish(op)
       ELSE IF op.snap.secret # ctl.rendezvous
       THEN ctl' = Moved(ctl, op.snap.secret) /\ Become(op, {[op EXCEPT !.step = "rejoin"]})
       ELSE ctl' = ConnectPresent(ctl, op.life) /\ Finish(op)
    /\ UNCHANGED <<group, joins, faults>>

RefreshRejoined(op) ==
    /\ op.kind = "refresh" /\ op.step = "rejoin"
    /\ ctl' = IF ~IsActive(ctl, op.life) THEN ctl
            ELSE With(Each(ctl.present, [ctl EXCEPT !.online = @ \cup {ctl.sig}], PeerJoined), LAMBDA c : ConnectPresent(c, op.life))
    /\ Finish(op) /\ UNCHANGED <<group, joins, faults>>

---------------------------------------------------------------------------
Init ==
    /\ \E old \in SUBSET Peers : ctl = [NewController EXCEPT !.outdated = old]
    /\ ops = {} /\ joins = 0 /\ faults = 0
    /\ \E st \in [Peers -> Standings] : group = [standing |-> st, secret |-> 0]

JoinStep(op) == JoinLeft(op) \/ JoinNetwork(op) \/ JoinConnected(op) \/ JoinReady(op) \/ JoinFails(op)
CleanupStep(op) == CleanupSignaling(op) \/ CleanupTransport(op)
RefreshStep(op) == RefreshLoads(op) \/ RefreshApplies(op) \/ (\E p \in op.todo : RefreshReviews(op, p)) \/ RefreshEnds(op) \/ RefreshRejoined(op)

Resume(op) ==
    \/ JoinStep(op)
    \/ CleanupStep(op)
    \/ op.kind = "refresh" /\ RefreshStep(op)
    \/ ProofVerified(op)
    \/ RecoverySettles(op)
    \/ CertificateApplied(op)

Next ==
    \/ Join \/ Leave
    \/ \E op \in ops : Resume(op)
    \/ \E p \in Peers : PeerAppears(p) \/ PeerDisappears(p) \/ PeerReplaced(p) \/ Offered(p) \/ TimerFires(p)
    \/ \E n \in Sessions, p \in Peers : LinkOpens(n, p) \/ LinkCloses(n, p) \/ LinkResets(n, p)
    \/ \E m \in ctl.wire : RemoteAnswers(m) \/ ProofArrives(m)
    \/ \E p \in Peers, st \in Standings : GroupChanges(p, st)
    \/ \E p \in Peers, t \in Peers \cup {Me} : p # t /\ CertificateArrives(p, t)

Spec == Init /\ [][Next]_vars

\* Promises settle, peers answer and timers expire once what they wait for has not come.
FairSpec ==
    /\ Spec
    /\ \A k \in {"join", "cleanup", "refresh", "certificate"} : WF_vars(\E op \in ops : op.kind = k /\ UNCHANGED faults /\ Resume(op))
    /\ \A p \in Peers : WF_vars(\E op \in ops : op.kind \in {"verify", "recover"} /\ op.peer = p /\ UNCHANGED faults /\ Resume(op))
    /\ \A p \in Peers : WF_vars(\E m \in ctl.wire : m.peer = p /\ UNCHANGED faults /\ (RemoteAnswers(m) \/ ProofArrives(m)))
    /\ \A p \in Peers : WF_vars(UNCHANGED faults /\ TimerFires(p))
    /\ \A n \in Sessions, p \in Peers : WF_vars(LinkOpens(n, p))

---------------------------------------------------------------------------
(* Properties.                                                             *)

\* Every field keeps its type, and at most one revoked peer is admitted while its proof is outstanding.
TypeOK ==
    /\ ctl.life \in Nat /\ ctl.room \in BOOLEAN /\ ctl.ready \in BOOLEAN /\ ctl.sig \in 0..MaxJoins /\ ctl.trans \in 0..MaxJoins
    /\ ctl.bound \subseteq Sessions /\ ctl.online \subseteq Sessions
    /\ \A f \in {ctl.trusted, ctl.revoked, ctl.timer, ctl.done, ctl.ident, ctl.revOnly, ctl.pendRev, ctl.present} : f \subseteq Peers
    /\ Cardinality(ctl.pendRev) <= 1
    /\ ctl.attempts \in [Peers -> 0..MaxChallenges] /\ ctl.challenge \in [Peers -> Nat]
    /\ ctl.link \in [Sessions -> [Peers -> {"none", "new", "open", "shut"}]] /\ ctl.media \in [Sessions -> SUBSET Peers]
    /\ \A op \in ops : op.kind \in {"join", "cleanup", "verify", "recover", "refresh", "certificate"}
    /\ joins \in 0..MaxJoins /\ faults \in 0..MaxFaults

Checking(p) == p \in ctl.timer \/ \E op \in ops : op.kind = "recover" /\ op.peer = p

UnderReview(p) == \E op \in ops : op.kind = "refresh" /\ p \in op.todo

\* docs/protocol.md:256: media of a group call stays blocked until the proof.  A peer that has media is authenticated
\* by a proof, or its control channel was lost and a check that demands a new proof is under way.
MediaIsWatched == ctl.room /\ ctl.trans # 0 => \A p \in ctl.media[ctl.trans] : p \in ctl.done \/ Checking(p) \/ UnderReview(p)

\* docs/protocol.md:170: a removed peer is authenticated only for its certificate.  It has no media as soon as the
\* controller knows of the removal, also when the removal becomes known while its proof is verified.
NoMediaForRevoked ==
    ctl.room /\ ctl.trans # 0 =>
        \A p \in ctl.media[ctl.trans] \cap ctl.revoked : UnderReview(p)

\* A trusted peer at the rendezvous that fits in the mesh gets media, whatever was lost on the way, unless it leaves,
\* is removed or the call ends.
Wanted(p) == ctl.room /\ ctl.ready /\ p \in ctl.trusted \cap (PresencePeers(ctl) \ ctl.outdated) /\ Fits(ctl, p)
MediaGranted == \A p \in Peers : Wanted(p) ~> (~Wanted(p) \/ p \in ctl.media[ctl.trans])

\* Media follows proofs and membership: whoever has it proved itself or is being checked, and a peer that is known
\* to be removed loses it (acceptAuthProof, handleDataChannelState, refreshGroupSecurity).
MediaIsEarned == TypeOK /\ MediaIsWatched /\ NoMediaForRevoked
===========================================================================
