-------------------------- MODULE SessionAnyPeer --------------------------
(***************************************************************************)
(* One session whose signal connection carries anything the signal codec   *)
(* can decode, in any order: drive against a peer it cannot trust to       *)
(* follow the protocol.                                                    *)
(***************************************************************************)
EXTENDS Session

(* The reader task forwards some signal of the peer. *)
ReadAnything(p) ==
  \E s \in Signal :
    /\ running[p] /\ Len(signals[p]) < SignalCap
    /\ signals' = [signals EXCEPT ![p] = Append(@, s)]
    /\ UNCHANGED <<driveVars, commands, tcp, handleVars, media>>

(* The peer reads what this side wrote. *)
PeerReads(p) ==
  /\ tcp[p] # <<>>
  /\ tcp' = [tcp EXCEPT ![p] = Tail(@)]
  /\ UNCHANGED <<driveVars, commands, signals, handleVars, media>>

(* The reader task stopped, and drive drained its channel. *)
ConnectionLost(p) ==
  /\ Selecting(p) /\ signals[p] = <<>>
  /\ Return(p)
  /\ UNCHANGED <<tcp, handleVars, media>>

Next == \E p \in Peer :
  Step(p) \/ ReadAnything(p) \/ PeerReads(p) \/ ConnectionLost(p)

Spec == Init /\ [][Next]_vars

(* The peer keeps reading, or drive hangs in write_all.  select! draws      *)
(* among the ready arms at random, so a timer that is due again and again,  *)
(* between writes, is served in the end, and its loop then goes on.  The    *)
(* peer never has to answer.                                                *)
FairSpec ==
  Spec /\ \A p \in Peer :
    WF_vars(PeerReads(p)) /\ SF_vars(CollectExpired(p)) /\ WF_vars(ExpireOpen(p))

---------------------------------------------------------------------------
(* An open ends even when the peer never answers it, and even when the      *)
(* caller gave it up: its five seconds are kept by drive, not by the caller.*)
OpenEnds ==
  \A p \in Peer : \A id \in {i \in Id : Local(p, i)} :
    (opening[p][id] # "none") ~> (opening[p][id] = "none")

===========================================================================
