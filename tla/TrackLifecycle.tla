--------------------------- MODULE TrackLifecycle ---------------------------
(***************************************************************************)
(* What the session layer promises for one track, seen from both ends: the *)
(* opener's send side and the peer's receive side.  Nothing here knows of  *)
(* signals, channels or tasks; SessionPair implements it.                  *)
(***************************************************************************)
CONSTANT Track

VARIABLES
  sender,     \* the send side:    idle, opening, sending, closed
  receiver    \* the receive side: idle, receiving, closed

lifecycle == <<sender, receiver>>

LifecycleInit ==
  /\ sender   = [t \in Track |-> "idle"]
  /\ receiver = [t \in Track |-> "idle"]

(* Sending starts only when the receive side has been set up. *)
SenderMoves(t) ==
  \/ sender'[t] = sender[t]
  \/ sender[t] = "idle" /\ sender'[t] = "opening"
  \/ sender[t] = "opening" /\ sender'[t] = "sending" /\ receiver[t] # "idle"
  \/ sender[t] \in {"opening", "sending"} /\ sender'[t] = "closed"

(* Receiving starts only for a track somebody opened; closed is final. *)
ReceiverMoves(t) ==
  \/ receiver'[t] = receiver[t]
  \/ receiver[t] = "idle" /\ sender[t] # "idle" /\ receiver'[t] \in {"receiving", "closed"}
  \/ receiver[t] = "receiving" /\ receiver'[t] = "closed"

(* The end of a session closes many tracks in one step. *)
LifecycleNext == \A t \in Track : SenderMoves(t) /\ ReceiverMoves(t)

(* Each end follows the other when it closes. *)
CloseReachesReceiver ==
  \A t \in Track : (sender[t] = "closed") ~> (receiver[t] # "receiving")
CloseReachesSender ==
  \A t \in Track : (receiver[t] = "closed") ~> (sender[t] \notin {"opening", "sending"})

LifecycleSafety == LifecycleInit /\ [][LifecycleNext]_lifecycle

LifecycleSpec == LifecycleSafety /\ CloseReachesReceiver /\ CloseReachesSender
=============================================================================
