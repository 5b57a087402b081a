------------------------------- MODULE Mesh -------------------------------
(* One pair of peers of packages/rtc/src/transport/mesh.ts in a call that  *)
(* requires media authorization: offers and answers over the rendezvous    *)
(* service, perfect negotiation, recovery of a broken connection and the   *)
(* media that may flow.  Peer 1 has the smaller identifier: it initiates,  *)
(* recovers and is the impolite one.                                       *)
(*                                                                         *)
(* A description names the ICE session it proposes or agrees to; two ends  *)
(* are connected when they agreed on the same session and its path lives.  *)
EXTENDS MeshState, Sequences

CONSTANTS Publishing,   \* the peers that publish a track from the start
          MaxFaults     \* lost, duplicated and failed sends, broken paths, departures, revocations, changes of the published tracks

ASSUME BoundsAssumption == Publishing \subseteq Peers /\ MaxFaults \in Nat

Other(p) == 3 - p
Polite(p) == p > Other(p)

vars == <<entry, has, authorized, banned, stream, timer, attempts, recovering, net, dead, faults, lost>>

NoDescription == [type |-> "answer", ice |-> 0, first |-> FALSE, media |-> FALSE, track |-> FALSE]

\* MeshPeerEntry with what its RTCPeerConnection knows.
NewEntry == [canNegotiate |-> FALSE, making |-> FALSE, needN |-> FALSE, needI |-> FALSE, wantN |-> FALSE, wantI |-> FALSE,
             signaling |-> "stable", stage |-> "idle", accepting |-> NoDescription, behind |-> FALSE, current |-> NoDescription,
             ice |-> 0, connection |-> "new", up |-> FALSE, channel |-> FALSE, restart |-> FALSE,
             attached |-> FALSE, media |-> FALSE, offered |-> FALSE, sending |-> FALSE, receiving |-> FALSE, needed |-> "no"]

Set(p, e) == entry' = [entry EXCEPT ![p] = {e}]

---------------------------------------------------------------------------
(* The browser: when a connection needs a negotiation.                     *)

NeedsNegotiation(e) == e.attached # e.sending \/ e.restart \/ (e.channel /\ e.ice = 0)
Checked(e) == [e EXCEPT !.needed = IF NeedsNegotiation(e) THEN (IF @ = "fired" THEN @ ELSE "queued") ELSE "no"]
Stabilized(e) == Checked([e EXCEPT !.signaling = "stable", !.needed = "no"])
Noticed(e) == IF e.signaling = "stable" THEN Checked(e) ELSE e

\* addTrack and removeTrack on a sender.
Attach(e, b) == Noticed([e EXCEPT !.attached = b, !.media = @ \/ b])

---------------------------------------------------------------------------
(* Operations of the transport on one entry.                               *)

\* negotiateIfNeeded up to its first await.
NegotiateIfNeeded(e) ==
    IF (e.needN \/ e.needI) /\ e.canNegotiate /\ ~e.making /\ e.signaling = "stable"
    THEN [e EXCEPT !.making = TRUE, !.wantN = e.needN, !.wantI = e.needI, !.needN = FALSE, !.needI = FALSE]
    ELSE e

\* createPeer: the published track goes to a peer that is authorized.
CreatePeer(p, auth) == IF has[p] /\ auth THEN Attach(NewEntry, TRUE) ELSE NewEntry

Initiate(e) == NegotiateIfNeeded(Noticed([e EXCEPT !.canNegotiate = TRUE, !.channel = TRUE, !.needN = TRUE]))

\* restartIce.
RestartIce(e) == NegotiateIfNeeded(Noticed([e EXCEPT !.needI = TRUE, !.restart = TRUE]))

\* The replacement of a stalled connection offers at once.
Replacement(p, auth) ==
    LET e == [CreatePeer(p, auth) EXCEPT !.canNegotiate = TRUE, !.channel = TRUE] IN RestartIce(e)

\* Mutant: the authorization outlives the connection.
DisposeKeepingAuthorization(p) == UNCHANGED <<authorized, net>> /\ stream' = [stream EXCEPT ![p] = "none"]

\* What disposePeerEntry forgets about the other peer, descriptions waiting in the entry's chain included.
Dispose(p) ==
    /\ authorized' = [authorized EXCEPT ![p] = FALSE]
    /\ stream' = [stream EXCEPT ![p] = "none"]
    /\ \E k \in 0..Len(net[p]) : net' = [net EXCEPT ![p] = SubSeq(@, k + 1, Len(@))]

\* schedulePeerRecovery: only the peer with the smaller identifier recovers.
Schedule(p) == timer' = [timer EXCEPT ![p] = @ \/ p < Other(p)]

InUse == (UNION {{e.ice, e.current.ice, e.accepting.ice} : e \in entry[1] \cup entry[2]})
         \cup (UNION {{net[p][i].ice : i \in DOMAIN net[p]} : p \in Peers}) \cup {0, dead}
FreshIce == CHOOSE n \in 1..(Cardinality(InUse) + 1) : n \notin InUse /\ \A k \in 1..(n - 1) : k \in InUse

Fault == faults < MaxFaults /\ faults' = faults + 1

\* broadcast: delivered, lost although acknowledged, or sent twice because the acknowledgement was lost.
Deliver(p, d) ==
    \/ net' = [net EXCEPT ![Other(p)] = Append(@, d)] /\ UNCHANGED <<faults, lost>>
    \/ Fault /\ lost' = TRUE /\ (UNCHANGED net \/ net' = [net EXCEPT ![Other(p)] = @ \o <<d, d>>])

---------------------------------------------------------------------------
Init ==
    /\ entry = [p \in Peers |-> {}]
    /\ has = [p \in Peers |-> p \in Publishing]
    /\ authorized = [p \in Peers |-> FALSE]
    /\ banned = [p \in Peers |-> FALSE]
    /\ stream = [p \in Peers |-> "none"]
    /\ timer = [p \in Peers |-> FALSE]
    /\ attempts = [p \in Peers |-> 0]
    /\ recovering = [p \in Peers |-> FALSE]
    /\ net = [p \in Peers |-> <<>>]
    /\ dead = 0 /\ faults = 0 /\ lost = FALSE

\* connect: the other peer is present.
Connect(p) ==
    /\ ~Up(p)
    /\ LET e == CreatePeer(p, authorized[p]) IN Set(p, IF p < Other(p) THEN Initiate(e) ELSE e)
    /\ UNCHANGED <<has, authorized, banned, stream, timer, attempts, recovering, net, dead, faults, lost>>

\* disconnect(peerId): the other peer's presence was lost.
Disconnect(p) ==
    /\ Up(p) /\ Fault
    /\ entry' = [entry EXCEPT ![p] = {}]
    /\ Dispose(p)
    /\ timer' = [timer EXCEPT ![p] = FALSE]
    /\ attempts' = [attempts EXCEPT ![p] = 0]
    /\ recovering' = [recovering EXCEPT ![p] = FALSE]
    /\ UNCHANGED <<has, banned, dead, lost>>

\* Mutant: a newly authorized peer waits for the next publication.
SendTracksLater(p, e) == e

\* The tracks published so far go to a newly authorized peer.
SendTracks(p, e) == IF has[p] THEN Attach(e, TRUE) ELSE e

\* authorizePeerMedia, after the proofs went over the control channel.
Authorize(p) ==
    /\ Up(p) /\ E(p).connection = "connected" /\ ~authorized[p] /\ ~banned[p]
    /\ authorized' = [authorized EXCEPT ![p] = TRUE]
    /\ stream' = [stream EXCEPT ![p] = IF @ = "pending" THEN "active" ELSE @]
    /\ Set(p, NegotiateIfNeeded([SendTracks(p, E(p)) EXCEPT !.needN = TRUE]))
    /\ UNCHANGED <<has, banned, timer, attempts, recovering, net, dead, faults, lost>>

\* revokePeerMedia of a peer the group removed.
Revoke(p) ==
    /\ ~banned[p] /\ Fault
    /\ banned' = [banned EXCEPT ![p] = TRUE]
    /\ authorized' = [authorized EXCEPT ![p] = FALSE]
    /\ stream' = [stream EXCEPT ![p] = IF @ = "active" THEN "muted" ELSE IF @ = "pending" THEN "none" ELSE @]
    /\ entry' = [entry EXCEPT ![p] = {Attach(e, FALSE) : e \in @}]
    /\ UNCHANGED <<has, timer, attempts, recovering, net, dead, lost>>

\* publishTrack and unpublishTrack.
Toggle(p) ==
    /\ Fault
    /\ has' = [has EXCEPT ![p] = ~@]
    /\ entry' = [entry EXCEPT ![p] =
           {IF has'[p] = e.attached \/ (has'[p] /\ ~authorized[p]) THEN e
            ELSE NegotiateIfNeeded([Attach(e, has'[p]) EXCEPT !.needN = TRUE]) : e \in @}]
    /\ UNCHANGED <<authorized, banned, stream, timer, attempts, recovering, net, dead, lost>>

\* onnegotiationneeded.
NegotiationNeeded(p) ==
    /\ Up(p) /\ E(p).needed = "queued" /\ E(p).signaling = "stable"
    /\ Set(p, NegotiateIfNeeded([E(p) EXCEPT !.needed = "fired", !.needN = TRUE]))
    /\ UNCHANGED <<has, authorized, banned, stream, timer, attempts, recovering, net, dead, faults, lost>>

\* negotiate after createOffer: the state changed meanwhile, the offer is set and sent, or its sending fails.
\* The operations of a connection are queued: only one queued before setRemoteDescription may end before it.
OfferCreated(p) ==
    /\ Up(p) /\ E(p).making
    /\ E(p).stage = "remote" => E(p).behind
    /\ LET e == [E(p) EXCEPT !.making = FALSE, !.wantN = FALSE, !.wantI = FALSE]
           restored == [e EXCEPT !.needN = @ \/ E(p).wantN, !.needI = @ \/ E(p).wantI]
           d == [type |-> "offer", ice |-> IF e.restart \/ E(p).wantI \/ e.ice = 0 THEN FreshIce ELSE e.ice,
                 first |-> e.ice = 0, media |-> e.media, track |-> e.attached]
           offering == [e EXCEPT !.signaling = "local", !.offered = e.attached, !.current = d]
       IN \/ /\ e.signaling # "stable"
             /\ Set(p, restored)
             /\ UNCHANGED <<net, faults, lost>>
          \/ /\ e.signaling = "stable"
             /\ Set(p, offering)
             /\ Deliver(p, d)
          \/ /\ e.signaling = "stable"
             /\ Fault /\ lost' = TRUE
             /\ Set(p, [restored EXCEPT !.signaling = "local", !.offered = e.attached, !.current = d])
             /\ UNCHANGED net
    /\ UNCHANGED <<has, authorized, banned, stream, timer, attempts, recovering, dead>>

Collides(e, d) == d.type = "offer" /\ (e.making \/ e.signaling # "stable")

IgnoresOffer(p, e, d) == ~Polite(p) /\ Collides(e, d)

\* acceptDescription up to setRemoteDescription: descriptions are taken one after the other (descriptionChain) by
\* the entry of their sender, created if there is none; the impolite peer drops a colliding offer.
AcceptStart(p) ==
    /\ net[p] # <<>>
    /\ LET e == IF Up(p) THEN E(p) ELSE CreatePeer(p, authorized[p])
           d == Head(net[p])
       IN /\ e.stage = "idle"
          /\ Set(p, IF IgnoresOffer(p, e, d) THEN e ELSE [e EXCEPT !.stage = "remote", !.accepting = d, !.behind = e.making])
    /\ net' = [net EXCEPT ![p] = Tail(@)]
    /\ UNCHANGED <<has, authorized, banned, stream, timer, attempts, recovering, dead, faults, lost>>

\* ontrack: a new stream waits for the authorization of its peer.
OnTrack(p, e, d, auth) ==
    stream' = [stream EXCEPT ![p] = IF ~d.track \/ e.receiving THEN @ ELSE IF auth THEN "active" ELSE "pending"]

\* The offer is set, an own pending offer rolled back; the answer follows in Answered.
Applied(e, d) ==
    [e EXCEPT !.signaling = "remote", !.current = d, !.receiving = d.track, !.media = @ \/ d.media,
              !.stage = "answer", !.behind = FALSE, !.canNegotiate = TRUE, !.needN = FALSE, !.offered = FALSE]

OfferApplied(p) ==
    /\ Up(p) /\ E(p).stage = "remote" /\ E(p).accepting.type = "offer"
    /\ LET e == E(p) d == e.accepting
       IN Set(p, Applied(e, d)) /\ OnTrack(p, e, d, authorized[p])
    /\ UNCHANGED <<has, authorized, banned, timer, attempts, recovering, net, dead, faults, lost>>

\* recoverPeerFromMLineMismatch: the offer of a recreated connection does not fit this one.
ResetForOffer(p) ==
    /\ Up(p) /\ E(p).stage = "remote" /\ E(p).accepting.type = "offer"
    /\ E(p).accepting.first /\ E(p).ice # 0
    /\ LET d == E(p).accepting
           e == [CreatePeer(p, FALSE) EXCEPT !.canNegotiate = TRUE, !.channel = TRUE, !.accepting = d]
       IN /\ Set(p, Applied(e, d))
          /\ stream' = [stream EXCEPT ![p] = IF d.track THEN "pending" ELSE "none"]
    /\ authorized' = [authorized EXCEPT ![p] = FALSE]
    /\ timer' = [timer EXCEPT ![p] = FALSE]
    /\ attempts' = [attempts EXCEPT ![p] = 0]
    /\ recovering' = [recovering EXCEPT ![p] = FALSE]
    /\ UNCHANGED <<has, banned, net, dead, faults, lost>>

\* createAnswer, setLocalDescription and sendAnswer.
Answered(p) ==
    /\ Up(p) /\ E(p).stage = "answer"
    /\ LET e == E(p) d == e.current sending == e.attached /\ e.media
       IN /\ Set(p, Stabilized([e EXCEPT !.stage = "idle", !.accepting = NoDescription, !.ice = d.ice, !.sending = sending,
                                         !.current = NoDescription, !.restart = @ /\ d.ice = e.ice]))
          /\ Deliver(p, [d EXCEPT !.type = "answer", !.track = sending, !.media = e.media])
    /\ UNCHANGED <<has, authorized, banned, stream, timer, attempts, recovering, dead>>

\* An answer closes the pending offer, whichever offer it answers, or fails in any other state.
AnswerApplied(p) ==
    /\ Up(p) /\ E(p).stage = "remote" /\ E(p).accepting.type = "answer"
    /\ LET e == [E(p) EXCEPT !.stage = "idle", !.accepting = NoDescription, !.behind = FALSE]
           d == E(p).accepting
           agreed == [e EXCEPT !.ice = d.ice, !.sending = e.offered, !.receiving = d.track, !.media = @ \/ d.media,
                               !.restart = @ /\ d.ice = e.ice, !.canNegotiate = TRUE, !.current = NoDescription, !.offered = FALSE]
       IN IF e.signaling = "local"
          THEN Set(p, NegotiateIfNeeded(Stabilized(agreed))) /\ OnTrack(p, e, d, authorized[p])
          ELSE Set(p, e) /\ UNCHANGED stream
    /\ UNCHANGED <<has, authorized, banned, timer, attempts, recovering, net, dead, faults, lost>>

---------------------------------------------------------------------------
(* Connectivity and recovery.                                              *)

Linked == /\ Up(1) /\ Up(2)
          /\ E(1).ice = E(2).ice /\ E(1).ice # 0 /\ E(1).ice # dead

\* onconnectionstatechange "connected": clearPeerRecovery.
ConnectionUp(p) ==
    /\ Linked /\ E(p).connection # "connected"
    /\ Set(p, [E(p) EXCEPT !.connection = "connected", !.up = TRUE])
    /\ timer' = [timer EXCEPT ![p] = FALSE]
    /\ attempts' = [attempts EXCEPT ![p] = 0]
    /\ UNCHANGED <<has, authorized, banned, stream, recovering, net, dead, faults, lost>>

\* Nothing is under way: the delays of retries and watchdogs exceed a negotiation's.
Quiet == /\ ~Linked /\ Up(1) /\ Up(2)
         /\ \A p \in Peers : /\ net[p] = <<>>
                             /\ ~E(p).making /\ E(p).stage = "idle"
                             /\ E(p).needed # "queued" \/ E(p).signaling # "stable"

\* The other end is gone, the path is broken or the ends do not agree; while they negotiate the old session serves.
Unreachable(p) == ~Linked /\ ((\A e \in entry[Other(p)] : e.ice = 0) \/ E(p).ice = dead \/ Quiet)

\* onconnectionstatechange "disconnected" or "failed".
ConnectionDown(p) ==
    /\ Up(p) /\ E(p).connection = "connected" /\ Unreachable(p)
    /\ Set(p, [E(p) EXCEPT !.connection = "down"])
    /\ Schedule(p)
    /\ UNCHANGED <<has, authorized, banned, stream, attempts, recovering, net, dead, faults, lost>>

\* Every third attempt (RECREATE_PEER_EVERY_ATTEMPTS) starts over.
NextAttempt(n) == (n + 1) % 3

\* recreatePeerForRecovery: onPeerReset takes the peer's authentication with the connection.
Recreate(p) ==
    /\ Dispose(p)
    /\ Set(p, Replacement(p, authorized'[p]))
    /\ timer' = [timer EXCEPT ![p] = FALSE]

\* The recovery timer fires: an ICE restart, and every third attempt a new connection.
TimerFires(p) ==
    /\ timer[p] /\ Up(p) /\ (attempts[p] = 0 \/ Quiet)
    /\ LET attempt == NextAttempt(attempts[p])
       IN /\ attempts' = [attempts EXCEPT ![p] = attempt]
          /\ IF attempt = 0 THEN Recreate(p)
             ELSE /\ Set(p, RestartIce(E(p)))
                  /\ timer' = [timer EXCEPT ![p] = FALSE]
                  /\ UNCHANGED <<authorized, stream, net>>
    /\ recovering' = [recovering EXCEPT ![p] = TRUE]
    /\ UNCHANGED <<has, banned, dead, faults, lost>>

\* The attempt is over: another one is scheduled unless the peer is connected.
RecoveryEnds(p) ==
    /\ recovering[p] /\ Up(p) /\ ~E(p).making
    /\ recovering' = [recovering EXCEPT ![p] = FALSE]
    /\ IF E(p).connection = "connected" THEN UNCHANGED timer ELSE Schedule(p)
    /\ UNCHANGED <<entry, has, authorized, banned, stream, attempts, net, dead, faults, lost>>

\* recoverPeer, called by the controller's watchdog for a peer that has not authenticated.
RecoverPeer(p) ==
    /\ Up(p) /\ Quiet /\ ~authorized[p] /\ E(p).connection # "connected"
    /\ Recreate(p)
    /\ attempts' = [attempts EXCEPT ![p] = IF p < Other(p) THEN NextAttempt(@) ELSE 0]
    /\ recovering' = [recovering EXCEPT ![p] = FALSE]
    /\ UNCHANGED <<has, banned, dead, faults, lost>>

\* The path of the agreed session breaks, or comes back by itself.
PathBreaks ==
    /\ Linked /\ Fault
    /\ dead' = E(1).ice
    /\ UNCHANGED <<entry, has, authorized, banned, stream, timer, attempts, recovering, net, lost>>
PathHeals ==
    /\ dead # 0 /\ dead' = 0
    /\ UNCHANGED <<entry, has, authorized, banned, stream, timer, attempts, recovering, net, faults, lost>>

Handlers(p) == NegotiationNeeded(p) \/ OfferCreated(p) \/ AcceptStart(p) \/ OfferApplied(p)
               \/ ResetForOffer(p) \/ Answered(p) \/ AnswerApplied(p)

Next ==
    \/ \E p \in Peers :
         \/ Connect(p) \/ Disconnect(p) \/ Authorize(p) \/ Revoke(p) \/ Toggle(p) \/ Handlers(p)
         \/ ConnectionUp(p) \/ ConnectionDown(p) \/ TimerFires(p) \/ RecoveryEnds(p) \/ RecoverPeer(p)
    \/ PathBreaks \/ PathHeals

Spec == Init /\ [][Next]_vars

\* Handlers and timers run; connectivity is reported; a present peer is connected and proves its identity.
Fairness ==
    \A p \in Peers :
      /\ WF_vars(Connect(p)) /\ WF_vars(Authorize(p))
      /\ WF_vars(NegotiationNeeded(p) \/ OfferCreated(p))
      /\ WF_vars(AcceptStart(p) \/ OfferApplied(p) \/ Answered(p) \/ AnswerApplied(p))
      /\ WF_vars(ConnectionUp(p) \/ ConnectionDown(p))
      /\ SF_vars(TimerFires(p)) /\ WF_vars(RecoveryEnds(p)) /\ SF_vars(RecoverPeer(p))

FairSpec == Spec /\ Fairness

---------------------------------------------------------------------------
(* Properties.                                                             *)

\* After the last fault both ends are connected for good.
PairConnects == <>[](Up(1) /\ Up(2) /\ E(1).connection = "connected" /\ E(2).connection = "connected")

\* Unless a description was lost or repeated, each peer ends up sending exactly the track it publishes to an
\* authorized peer, although a received offer cancels a negotiation it had pending (mesh.ts:641).
MediaFollows == <>[](lost \/ \A p \in Peers : Up(p) /\ E(p).sending = (has[p] /\ authorized[p]))

\* No collision, late answer, lost description, broken path or overtaken negotiation leaves the pair waiting
\* for each other, or one of them waiting for media.
PairConverges == PairConnects /\ MediaFollows
===========================================================================
