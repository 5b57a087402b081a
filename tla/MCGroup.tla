------------------------------ MODULE MCGroup ------------------------------
(* Model values and bounds for the runs of GroupReplication.               *)
EXTENDS GroupReplication

\* The channel of the administrator and the member closes and reopens.
MCChurn == {<<1, 3>>}
=============================================================================
