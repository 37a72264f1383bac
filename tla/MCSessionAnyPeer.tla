------------------------- MODULE MCSessionAnyPeer -------------------------
(* The dialing side with two send ids and one receive id. *)
EXTENDS SessionAnyPeer
===========================================================================
