----------------------------- MODULE CallState -----------------------------
(* What there is of a call: one CallController                             *)
(* (apps/web/src/call/CallController.ts) with its transports and signaling *)
(* providers, the asynchronous functions it has started and the stored     *)
(* group; and what a call owes when it ends.  Call has the steps.          *)
EXTENDS Integers, FiniteSets

CONSTANTS Peers,        \* the remote peers; identifiers are ordered
          Me,           \* the local peer's identifier
          Capacity,     \* MESH_HARD_MAX_PARTICIPANTS
          SlowContext,  \* the network context of a join may still be loading when the user leaves or joins again
          MaxJoins,     \* calls of join
          MaxFaults     \* lost proofs, broken connections, failed steps, departures, changes of the group, early timers, further joins

ASSUME CallAssumption ==
    /\ Peers \subseteq Nat /\ IsFiniteSet(Peers) /\ Me \in Nat \ Peers /\ SlowContext \in BOOLEAN
    /\ Capacity \in Nat \ {0} /\ MaxJoins \in Nat /\ MaxFaults \in Nat

VARIABLES
    ctl,       \* the controller, its transports and what its signaling providers see
    ops,       \* the asynchronous functions that await something
    group,     \* the stored group: each peer's standing and the rendezvous secret
    joins, faults

\* A join numbers the transport and the signaling provider it creates.
Sessions == 1..MaxJoins

\* leave, a failed join and a removal from the group leave no connection behind: each belongs to the current
\* session or to a cleanup that is about to close it.
ConnectionsReleased ==
    \A n \in Sessions : (\E p \in Peers : ctl.link[n][p] # "none") => ctl.trans = n \/ \E op \in ops : op.kind = "cleanup" /\ op.t = n
============================================================================
