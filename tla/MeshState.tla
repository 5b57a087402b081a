----------------------------- MODULE MeshState -----------------------------
(* What each of two peers keeps of the other in the mesh transport         *)
(* (packages/rtc/src/transport/mesh.ts), what is on its way between them,  *)
(* and what must hold of it whenever a step of either is over.  Mesh has   *)
(* the steps.                                                              *)
EXTENDS Integers, FiniteSets

Peers == {1, 2}

VARIABLES
    entry,       \* peers.get(other) of each peer: a set with at most one record
    has,         \* localTracks holds a track
    authorized,  \* mediaAuthorizedPeers has the other peer
    banned,      \* the other peer was revoked: the controller never authorizes it again
    stream,      \* the other peer's stream: "none", "pending", "active" or "muted"
    timer,       \* recoveryTimers has the other peer
    attempts,    \* recoveryAttempts, modulo RECREATE_PEER_EVERY_ATTEMPTS
    recovering,  \* recoverPeerConnection is awaited
    net,         \* descriptions on their way to each peer
    dead,        \* the ICE session whose path is broken, 0: none
    faults, lost

Descriptions == [type : {"offer", "answer"}, ice : Nat, first : BOOLEAN, media : BOOLEAN, track : BOOLEAN]

Up(p) == entry[p] # {}
E(p) == CHOOSE e \in entry[p] : TRUE

\* An end keeps at most one connection, in a state that RTCPeerConnection has.
PairTyped ==
    /\ \A p \in Peers : /\ Cardinality(entry[p]) <= 1
                        /\ \A e \in entry[p] : /\ e.signaling \in {"stable", "local", "remote"}
                                               /\ e.stage \in {"idle", "remote", "answer"}
                                               /\ e.needed \in {"no", "queued", "fired"}
                                               /\ e.accepting \in Descriptions
    /\ authorized \in [Peers -> BOOLEAN] /\ timer \in [Peers -> BOOLEAN] /\ recovering \in [Peers -> BOOLEAN]
    /\ attempts \in [Peers -> 0..2]
    /\ stream \in [Peers -> {"none", "pending", "active", "muted"}]
    /\ faults \in Nat

\* Media is sent to, played from and authorized for a peer only over a connection that came up after its creation:
\* the proof of identity went over that connection, also after recreatePeerForRecovery and recoverPeerFromMLineMismatch.
MediaNeedsProvenConnection ==
    \A p \in Peers :
      /\ authorized[p] => Up(p) /\ E(p).up
      /\ stream[p] = "active" => authorized[p]
      /\ \A e \in entry[p] : e.attached => authorized[p] /\ has[p]

\* While the recovering peer sees its connection disconnected or failed, an attempt is scheduled or under way
\* (schedulePeerRecovery is the only thing that would ever repair it).
RecoveryIsArmed ==
    \A e \in entry[1] : e.connection = "down" => timer[1] \/ recovering[1]

\* What disposal, recovery and recreation of connections keep true together (disposePeer, schedulePeerRecovery,
\* recreatePeerForRecovery): no media before the proof, and no broken connection that nobody repairs.
ConnectionsAreSound == PairTyped /\ MediaNeedsProvenConnection /\ RecoveryIsArmed
============================================================================
