---------------------------- MODULE MCSignaling ----------------------------
(* One session with its calls and the faults of the service, alone and with *)
(* a remote peer that comes, sends and goes.                                *)
EXTENDS Signaling

MCBudgets == {<<2, 1>>, <<1, 2>>, <<0, 4>>}
=============================================================================
