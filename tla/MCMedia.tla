------------------------------ MODULE MCMedia ------------------------------
(* Instance of Media for TLC. *)
EXTENDS Media
=============================================================================
