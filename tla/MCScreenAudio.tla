--------------------------- MODULE MCScreenAudio ---------------------------
(* Instance of ScreenAudio for TLC: a stream of three channels, one of which
   the mix does not have, and a mono one of Risk's. *)
EXTENDS ScreenAudio, TLC

CONSTANTS film, risk

MCApps == {film, risk}
MCRisk == {risk}
MCChannels == film :> <<"FL", "FR", "LFE">> @@ risk :> <<"MONO">>
=============================================================================
