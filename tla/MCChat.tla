------------------------------- MODULE MCChat -------------------------------
(* Peer 1 kept events, peer 2 starts with nothing and writes a message.     *)
(* Either there is more history, which takes several pages of two streams   *)
(* of different length, or less and one fault is still to come.             *)
EXTENDS ChatDelivery

MCAuthor == [i \in Items |-> IF i \in Events THEN 1 ELSE 2]

Start(history, past) == [kept |-> [p \in Peers |-> IF p = 1 THEN history ELSE {}],
                         faults |-> past]

MCStarts == {Start(Events, MaxFaults), Start({1}, 0)}
=============================================================================
