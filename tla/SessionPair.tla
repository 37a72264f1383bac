---------------------------- MODULE SessionPair ----------------------------
(***************************************************************************)
(* Two sessions of src/lib.rs joined by their signal connection.  TCP      *)
(* delivers what one side wrote in order and once; the reader task of the  *)
(* other side forwards it through a bounded channel.  Either side may end  *)
(* at any moment, with or without what it wrote last reaching the other.   *)
(* Media packets travel over UDP and may be lost, repeated or delayed, so  *)
(* a track that has put packets out may have one arrive at any later time. *)
(***************************************************************************)
EXTENDS Session

ASSUME PairAssumption == Peer = {0, 1}

Other(p) == 1 - p

(* The reader task of p: read one signal, forward it when there is room. *)
ReadSignal(p) ==
  /\ running[p] /\ tcp[Other(p)] # <<>> /\ Len(signals[p]) < SignalCap
  /\ signals' = [signals EXCEPT ![p] = Append(@, Head(tcp[Other(p)]))]
  /\ tcp' = [tcp EXCEPT ![Other(p)] = Tail(@)]
  /\ UNCHANGED <<driveVars, commands, handleVars, media>>

(* The peer's task has returned and dropped its write half: the reader sees *)
(* the end of the stream, and drive stops when its channel is drained.      *)
ConnectionClosed(p) ==
  /\ Selecting(p) /\ ~running[Other(p)]
  /\ tcp[Other(p)] = <<>> /\ signals[p] = <<>>
  /\ Return(p)
  /\ UNCHANGED <<tcp, handleVars, media>>

(* A connection that broke, instead of ending, loses what was unread. *)
ConnectionBroken(p) ==
  /\ ~running[p] /\ tcp[p] # <<>>
  /\ tcp' = [tcp EXCEPT ![p] = <<>>]
  /\ UNCHANGED <<driveVars, commands, signals, handleVars, media>>

Next == \E p \in Peer :
  Step(p) \/ ReadSignal(p) \/ ConnectionClosed(p) \/ ConnectionBroken(p)

(* tokio::select! polls its arms in random order, so an arm that stays      *)
(* ready is taken; the reader task runs whenever its channel has room.  The *)
(* application promises nothing: it may never accept, answer or drop.       *)
Fairness ==
  \A p \in Peer :
    /\ WF_vars(DriveCommand(p)) /\ WF_vars(DriveSignal(p))
    /\ WF_vars(CollectExpired(p)) /\ WF_vars(ExpireOpen(p))
    /\ WF_vars(SendersGone(p)) /\ WF_vars(ReadSignal(p)) /\ WF_vars(ConnectionClosed(p))
    /\ WF_vars(DropUnaccepted(p))

Spec == Init /\ [][Next]_vars
FairSpec == Spec /\ Fairness

---------------------------------------------------------------------------
(* What is between p and the drive loop of the other side, oldest first. *)
Path(p) == signals[Other(p)] \o tcp[p]

InPath(p, type, id) == \E k \in 1..Len(Path(p)) : Path(p)[k] = Sig(type, id)

BothRunning == \A p \in Peer : running[p]

(* Two conforming peers never meet a conflicting id: the parity split and   *)
(* the ids that are never reused make every Reject impossible (src/lib.rs:  *)
(* "so the two sides never pick the same one").                             *)
NoConflictingOpen == \A p \in Peer, id \in Id : ~InPath(p, "Reject", id)

(* "The receive route is installed before Ready is sent, so the opener      *)
(* cannot legitimately send media before the peer can route it": once a     *)
(* track has media out, the peer has already acted on its Open, so a packet *)
(* without a route can only mean the track was closed.                      *)
MediaAfterRoute ==
  \A p \in Peer, id \in Id :
    (id \in media[p] \/ tracks[p][id] = "ready") => ~InPath(p, "Open", id)

(* No half-open track: a track that sends has a receiver, or the Close that *)
(* ends it is on its way; a receive track has a sender that is live or will *)
(* be once the Ready on its way arrives, or the Close that ends it is on    *)
(* its way.                                                                 *)
NoHalfOpenTrack ==
  BothRunning => \A p \in Peer, id \in Id :
    /\ tracks[p][id] = "ready" =>
         tracks[Other(p)][id] = "remote" \/ InPath(Other(p), "Close", id)
    /\ tracks[p][id] = "remote" =>
         \/ tracks[Other(p)][id] = "ready"
         \/ tracks[Other(p)][id] = "local" /\ InPath(p, "Ready", id)
         \/ InPath(Other(p), "Close", id)

(* A pending open has exactly one cause to wait for: its Open, or the Ready *)
(* that answers it, ahead of any Close.  So the branch "peer closed track   *)
(* before ready" is never taken between conforming peers, and an open times *)
(* out only because its answer is late, never because none was sent.        *)
OpenIsAnswered ==
  BothRunning => \A p \in Peer, id \in Id :
    tracks[p][id] = "local" =>
      \/ InPath(p, "Open", id) /\ ~InPath(Other(p), "Ready", id)
                               /\ ~InPath(Other(p), "Close", id)
      \/ \E k \in 1..Len(Path(Other(p))) :
           /\ Path(Other(p))[k] = Sig("Ready", id)
           /\ ~InPath(p, "Open", id)
           /\ \A j \in 1..(k-1) : Path(Other(p))[j] # Sig("Close", id)

(* The two ends of a track as TrackLifecycle sees them.  A receive side the *)
(* peer has forgotten is told apart from one it never had by the Open that  *)
(* is, or is no longer, on its way.                                         *)
Owner(id) == id % 2

SendSide(id) ==
  CASE tracks[Owner(id)][id] = "local" -> "opening"
    [] tracks[Owner(id)][id] = "ready" -> "sending"
    [] OTHER -> IF id < nextId[Owner(id)] THEN "closed" ELSE "idle"

ReceiveSide(id) ==
  IF tracks[Other(Owner(id))][id] = "remote" THEN "receiving"
  ELSE IF id < nextId[Owner(id)] /\ ~InPath(Owner(id), "Open", id)
       THEN "closed" ELSE "idle"

Lifecycle == INSTANCE TrackLifecycle WITH
  Track    <- Id,
  sender   <- [id \in Id |-> SendSide(id)],
  receiver <- [id \in Id |-> ReceiveSide(id)]

(* The two sessions implement the life of a track: no media before the peer *)
(* can route it, no id used twice, no end of a track coming back; and a     *)
(* close at either end, or the end of either session, ends the other end of *)
(* the track, whatever was crossing on the wire.                            *)
ImplementsLifecycle == Lifecycle!LifecycleSpec

(* "The task stops when all public command senders are gone", and then the  *)
(* other side's task stops too.                                             *)
HandlesGoneEndsBoth ==
  \A p \in Peer : (~HasSender(p)) ~> (~running[p] /\ ~running[Other(p)])
===========================================================================
