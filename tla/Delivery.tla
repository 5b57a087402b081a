----------------------------- MODULE Delivery -----------------------------
(* What the transfer of an attachment promises, whatever happens between   *)
(* the peers: a transfer is verified only when the receiver holds every    *)
(* chunk intact, the content of a verified transfer stays unless the same  *)
(* transfer is under way again or was given up, and the sender reports a   *)
(* delivery only after the receiver verified it.                           *)
CONSTANTS Chunks, Ids

VARIABLES have,      \* the intact chunks held for each transfer
          active,    \* transfers under way at the receiver or without a record there
          verified,  \* transfers whose content the receiver verified
          reported   \* transfers the sender reports as delivered

vars == <<have, active, verified, reported>>

Init == have = [i \in Ids |-> {}] /\ active = Ids /\ verified = {} /\ reported = {}

\* Chunks are kept and given up; what is verified and not under way is left alone.
Hold ==
    /\ have' \in [Ids -> SUBSET Chunks] /\ active' \in SUBSET Ids
    /\ \A i \in verified \ active : have[i] \subseteq have'[i]
    /\ UNCHANGED <<verified, reported>>

Verify(i) ==
    /\ have[i] = Chunks
    /\ verified' = verified \cup {i}
    /\ active' \in SUBSET Ids
    /\ UNCHANGED <<have, reported>>

Report(i) ==
    /\ i \in verified
    /\ reported' = reported \cup {i}
    /\ UNCHANGED <<have, active, verified>>

Next == Hold \/ \E i \in Ids : Verify(i) \/ Report(i)

Spec == Init /\ [][Next]_vars
===========================================================================
