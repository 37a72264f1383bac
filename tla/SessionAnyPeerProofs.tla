------------------------ MODULE SessionAnyPeerProofs ------------------------
(***************************************************************************)
(* One session against a peer that may send anything: its state stays      *)
(* typed, its routes stay those of the engine and its ids are never        *)
(* reused, for every number of ids and every channel capacity.             *)
(***************************************************************************)
EXTENDS SessionAnyPeer, SessionProofs

(* Every step, of the session or of the peer, preserves the invariant and *)
(* brings no retired id back.                                             *)
LEMMA NextInv ==
  ASSUME SessionInv, [Next]_vars
  PROVE  SessionInv' /\ IdsStayRetired
<1>1. TypeOK /\ RoutesMatchEngine /\ NextIdLocal
  BY DEF SessionInv
<1>2. ASSUME NEW p \in Peer, Step(p)
      PROVE  SessionInv' /\ IdsStayRetired
  BY <1>1, <1>2, StepInv, StepKeepsRetired
<1>3. ASSUME NEW p \in Peer, ReadAnything(p)
      PROVE  SessionInv' /\ IdsStayRetired
  <2>1. PICK s \in Signal : signals' = [signals EXCEPT ![p] = Append(@, s)]
    BY <1>3 DEF ReadAnything
  <2>2. signals' \in [Peer -> Seq(Signal)]
    BY <1>1, <2>1, ChannelsTyped DEF TypeOK
  <2>. QED  BY <1>1, <1>3, <2>2, ChannelInv DEF ReadAnything, TypeOK
<1>4. ASSUME NEW p \in Peer, PeerReads(p)
      PROVE  SessionInv' /\ IdsStayRetired
  <2>1. tcp[p] \in Seq(Signal)
    BY <1>1 DEF TypeOK
  <2>2. tcp' \in [Peer -> Seq(Signal)]
    BY <1>1, <1>4, <2>1, HeadTailProperties DEF PeerReads, TypeOK
  <2>. QED  BY <1>1, <1>4, <2>2, ChannelInv DEF PeerReads, TypeOK
<1>5. ASSUME NEW p \in Peer, ConnectionLost(p)
      PROVE  SessionInv' /\ IdsStayRetired
  BY <1>5, ReturnInv DEF ConnectionLost
<1>6. CASE UNCHANGED vars
  BY <1>1, <1>6, ChannelInv DEF vars, TypeOK
<1>. QED  BY <1>2, <1>3, <1>4, <1>5, <1>6 DEF Next

(* The inductive invariant of a session facing an arbitrary peer. *)
THEOREM InvHolds == Spec => []SessionInv
<1>1. SessionInv /\ [Next]_vars => SessionInv'
  BY NextInv
<1>. QED  BY InitInv, <1>1, PTL DEF Spec

(* Whatever signals arrive, drive's state stays typed. *)
THEOREM TypeCorrect == Spec => []TypeOK
<1>1. SessionInv => TypeOK
  BY DEF SessionInv
<1>. QED  BY InvHolds, <1>1, PTL

(* Whatever signals arrive, in whatever order, and whatever the application *)
(* drops or cancels meanwhile, drive's maps and the engine's track table    *)
(* describe the same tracks.                                                *)
THEOREM RoutesCorrect == Spec => []RoutesMatchEngine
<1>1. SessionInv => RoutesMatchEngine
  BY DEF SessionInv
<1>. QED  BY InvHolds, <1>1, PTL

(* No signal a peer can send brings back a send track under a retired id. *)
THEOREM RetiredIdsCorrect == Spec => LocalIdsNotReused
<1>1. SessionInv /\ [Next]_vars => [IdsStayRetired]_vars
  BY NextInv
<1>. QED  BY InvHolds, <1>1, PTL DEF Spec, LocalIdsNotReused
=============================================================================
