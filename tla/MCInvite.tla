------------------------------ MODULE MCInvite ------------------------------
(* Instances of the invite handshake for TLC: one joiner with every ending  *)
(* and a second decision, and two joiners that compete for one.             *)
EXTENDS Invite

CONSTANTS j1, j2

Alone(group) == [group |-> group, guests |-> {j1}, decisions |-> 2,
                 endings |-> {"expired", "cancelled", "unmounted"}]
Rivals(group) == [group |-> group, guests |-> {j1, j2}, decisions |-> 1, endings |-> {}]

MCScenes == {Alone(g) : g \in BOOLEAN} \cup {Rivals(g) : g \in BOOLEAN}
=============================================================================
