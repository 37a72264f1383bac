--------------------------- MODULE SessionPairProofs ---------------------------
(***************************************************************************)
(* Two sessions over one connection, in three parts: what each of them     *)
(* preserves, joined with what the reader tasks and the end of a           *)
(* connection do; what two conforming sessions say to each other; and that *)
(* while both run every open has an answer coming.                         *)
(***************************************************************************)
EXTENDS SessionPair, SessionProofs

(* Of two peers the other one is a peer. *)
LEMMA OtherPeer == \A p \in Peer : Other(p) \in Peer
  BY PairAssumption DEF Other

(* Every step of either session or of the connection preserves the invariant *)
(* and brings no retired id back.                                            *)
LEMMA NextInv ==
  ASSUME SessionInv, [Next]_vars
  PROVE  SessionInv' /\ IdsStayRetired
<1>1. TypeOK /\ RoutesMatchEngine /\ NextIdLocal
  BY DEF SessionInv
<1>2. ASSUME NEW p \in Peer, Step(p)
      PROVE  SessionInv' /\ IdsStayRetired
  BY <1>1, <1>2, StepInv, StepKeepsRetired
<1>3. ASSUME NEW p \in Peer, ReadSignal(p)
      PROVE  SessionInv' /\ IdsStayRetired
  <2>1. Other(p) \in Peer /\ tcp[Other(p)] # <<>>
    BY <1>3, OtherPeer DEF ReadSignal
  <2>2. tcp[Other(p)] \in Seq(Signal)
    BY <1>1, <2>1 DEF TypeOK
  <2>3. Head(tcp[Other(p)]) \in Signal /\ Tail(tcp[Other(p)]) \in Seq(Signal)
    BY <2>1, <2>2, HeadTailProperties
  <2>4. signals' \in [Peer -> Seq(Signal)]
    BY <1>1, <1>3, <2>3, ChannelsTyped DEF TypeOK, ReadSignal
  <2>5. tcp' \in [Peer -> Seq(Signal)]
    BY <1>1, <1>3, <2>3 DEF TypeOK, ReadSignal
  <2>. QED  BY <1>3, <2>4, <2>5, ChannelInv DEF ReadSignal
<1>4. ASSUME NEW p \in Peer, ConnectionClosed(p)
      PROVE  SessionInv' /\ IdsStayRetired
  BY <1>4, ReturnInv DEF ConnectionClosed
<1>5. ASSUME NEW p \in Peer, ConnectionBroken(p)
      PROVE  SessionInv' /\ IdsStayRetired
  <2>1. tcp' \in [Peer -> Seq(Signal)]
    BY <1>1, <1>5, EmptySeq DEF ConnectionBroken, TypeOK
  <2>. QED  BY <1>1, <1>5, <2>1, ChannelInv DEF ConnectionBroken, TypeOK
<1>6. CASE UNCHANGED vars
  BY <1>1, <1>6, ChannelInv DEF vars, TypeOK
<1>. QED  BY <1>2, <1>3, <1>4, <1>5, <1>6 DEF Next

(* The inductive invariant of two connected sessions. *)
THEOREM PairInvHolds == Spec => []SessionInv
<1>1. SessionInv /\ [Next]_vars => SessionInv'
  BY NextInv
<1>. QED  BY InitInv, <1>1, PTL DEF Spec

(* On both sides drive's maps and the engine's track table describe the     *)
(* same tracks, whatever crosses on the connection and wherever it breaks.  *)
THEOREM PairRoutesCorrect == Spec => []RoutesMatchEngine
<1>1. SessionInv => RoutesMatchEngine
  BY DEF SessionInv
<1>. QED  BY PairInvHolds, <1>1, PTL

(* A retired id never comes back on either side.  *)
THEOREM PairRetiredIdsCorrect == Spec => LocalIdsNotReused
<1>1. SessionInv /\ [Next]_vars => [IdsStayRetired]_vars
  BY NextInv
<1>. QED  BY PairInvHolds, <1>1, PTL DEF Spec, LocalIdsNotReused

---------------------------------------------------------------------------
(* The wire: an Open is announced once, under a fresh id of the opener's    *)
(* parity, to a peer that has nothing under that id; so it is never         *)
(* refused, and no Ready and no media of its track exist before the peer    *)
(* has taken it off the wire.                                               *)

Has(q, type, id) == \E k \in 1..Len(q) : q[k] = Sig(type, id)

OpenOnce(q, id) ==
  \A j, k \in 1..Len(q) : q[j] = Sig("Open", id) /\ q[k] = Sig("Open", id) => j = k

(* r is what stands in q behind its first n signals, or a piece of it. *)
PartFrom(r, q, n) ==
  n + Len(r) <= Len(q) /\ \A k \in 1..Len(r) : r[k] = q[n + k]

(* Nothing has happened yet under an id. *)
Unused(p, id) ==
  /\ tracks[Other(p)][id] = "none" /\ tracks[p][id] # "ready" /\ id \notin media[p]
  /\ ~Has(Path(Other(p)), "Ready", id)

WireAt(p, id) ==
  /\ Has(Path(p), "Open", id) => Local(p, id) /\ id < nextId[p] /\ Unused(p, id)
  /\ OpenOnce(Path(p), id)
  /\ Local(p, id) /\ id >= nextId[p] => tracks[p][id] = "none" /\ Unused(p, id)
  /\ ~Has(Path(p), "Reject", id)

WireInv == SessionInv /\ \A p \in Peer, id \in Id : WireAt(p, id)

(* A step of p: the path to p loses some signals, and its own may grow.     *)
Shorter(q) ==
  \A id \in Id :
    /\ \A type \in {"Open", "Ready", "Reject"} : Has(Path(q)', type, id) => Has(Path(q), type, id)
    /\ OpenOnce(Path(q), id) => OpenOnce(Path(q)', id)

Opens(p, id) ==
  /\ id = nextId[p] /\ nextId'[p] = nextId[p] + 2 /\ tracks'[p][id] = "local"
  /\ Has(Path(p)', "Open", id)

Admits(p, id) == Has(Path(Other(p)), "Open", id) /\ ~Has(Path(Other(p))', "Open", id)

(* What a step of p may do to its tracks ... *)
TrackMoves(p, id) ==
  \/ tracks'[p][id] \in {tracks[p][id], "none"}
  \/ Opens(p, id)
  \/ tracks'[p][id] = "remote" /\ tracks[p][id] = "none" /\ Admits(p, id)
  \/ /\ tracks'[p][id] = "ready" /\ tracks[p][id] \in {"local", "ready"}
     /\ Has(Path(Other(p)), "Ready", id)

(* ... and to what it has said. *)
PathGrows(p, id) ==
  /\ Has(Path(p), "Open", id) => Has(Path(p)', "Open", id)
  /\ Has(Path(p)', "Open", id) => Has(Path(p), "Open", id) \/ Opens(p, id)
  /\ Has(Path(p)', "Ready", id) => Has(Path(p), "Ready", id) \/ Admits(p, id)
  /\ Has(Path(p)', "Reject", id) => Has(Path(p), "Reject", id)
  /\ OpenOnce(Path(p), id) /\ (Opens(p, id) => ~Has(Path(p), "Open", id))
       => OpenOnce(Path(p)', id)

Effects(p) ==
  LET o == Other(p) IN
  /\ tracks'[o] = tracks[o] /\ nextId'[o] = nextId[o] /\ media'[o] = media[o]
  /\ Shorter(o)
  /\ nextId'[p] = nextId[p] \/ (nextId[p] \in Id /\ Opens(p, nextId[p]))
  /\ \A id \in Id :
       /\ TrackMoves(p, id) /\ PathGrows(p, id)
       /\ id \in media'[p] => id \in media[p] \/ tracks[p][id] = "ready"

---------------------------------------------------------------------------
(* The two peers. *)
LEMMA TwoPeers ==
  \A p \in Peer : /\ Other(p) \in Peer /\ Other(p) # p /\ Other(Other(p)) = p
                  /\ \A q \in Peer : q = p \/ q = Other(p)
                  /\ \A id \in Id : Local(p, id) <=> ~Local(Other(p), id)
<1>1. \A id \in Id : id % 2 \in {0, 1}
  BY SizeAssumption DEF Id
<1>. QED  BY <1>1, PairAssumption DEF Other, Local

(* The path of p, position by position: the forwarded part, then the rest. *)
LEMMA PathParts ==
  ASSUME TypeOK, NEW p \in Peer
  PROVE  /\ signals[Other(p)] \in Seq(Signal) /\ tcp[p] \in Seq(Signal)
         /\ Path(p) \in Seq(Signal) /\ Len(signals[Other(p)]) \in Nat /\ Len(tcp[p]) \in Nat
         /\ Len(Path(p)) = Len(signals[Other(p)]) + Len(tcp[p])
         /\ \A k \in 1..Len(Path(p)) :
              Path(p)[k] = IF k <= Len(signals[Other(p)]) THEN signals[Other(p)][k]
                           ELSE tcp[p][k - Len(signals[Other(p)])]
<1>1. signals[Other(p)] \in Seq(Signal) /\ tcp[p] \in Seq(Signal)
  BY TwoPeers DEF TypeOK
<1>2. Path(p) = signals[Other(p)] \o tcp[p]
  BY DEF Path
<1>. DEFINE s == signals[Other(p)]
            t == tcp[p]
<1>3. s \in Seq(Signal) /\ t \in Seq(Signal) /\ Path(p) = s \o t
  BY <1>1, <1>2
<1>. HIDE DEF s, t
<1>4. /\ s \o t \in Seq(Signal) /\ Len(s \o t) = Len(s) + Len(t)
      /\ \A k \in 1..(Len(s) + Len(t)) :
           (s \o t)[k] = IF k <= Len(s) THEN s[k] ELSE t[k - Len(s)]
  BY ONLY <1>3, ConcatProperties
<1>5. Len(s) \in Nat /\ Len(t) \in Nat
  BY ONLY <1>3, LenProperties
<1>6. /\ Path(p) \in Seq(Signal) /\ Len(Path(p)) = Len(s) + Len(t)
      /\ \A k \in 1..Len(Path(p)) :
           Path(p)[k] = IF k <= Len(s) THEN s[k] ELSE t[k - Len(s)]
  BY ONLY <1>3, <1>4
<1>. QED  BY <1>3, <1>5, <1>6 DEF s, t

(* drive takes a signal, or drops its channel: what is left of the path is  *)
(* a part of it, and without its head.                                      *)
LEMMA ShorterPath ==
  ASSUME TypeOK, TypeOK', NEW p \in Peer, tcp'[Other(p)] = tcp[Other(p)],
         \/ signals'[p] = signals[p]
         \/ signals'[p] = <<>>
         \/ signals[p] # <<>> /\ signals'[p] = Tail(signals[p])
  PROVE  \E n \in Nat :
           /\ PartFrom(Path(Other(p))', Path(Other(p)), n)
           /\ signals[p] # <<>> /\ signals'[p] # signals[p] => n >= 1
<1>. DEFINE o == Other(p)
<1>. DEFINE s == signals[p]
<1>. DEFINE t == tcp[o]
<1>. DEFINE s1 == signals'[p]
<1>1. o \in Peer /\ Other(o) = p
  BY TwoPeers
<1>2. s \in Seq(Signal) /\ t \in Seq(Signal) /\ s1 \in Seq(Signal)
  BY <1>1 DEF TypeOK
<1>3. Path(o) = s \o t /\ Path(o)' = s1 \o t
  BY <1>1 DEF Path
<1>. HIDE DEF o, s, t, s1
<1>4. ASSUME NEW n \in Nat, n + Len(s1) = Len(s), \A k \in 1..Len(s1) : s1[k] = s[n + k]
      PROVE  PartFrom(Path(o)', Path(o), n)
  <2>1. Len(s) \in Nat /\ Len(t) \in Nat /\ Len(s1) \in Nat
    BY <1>2, LenProperties
  <2>2. /\ Len(s \o t) = Len(s) + Len(t)
        /\ \A k \in 1..(Len(s) + Len(t)) :
             (s \o t)[k] = IF k <= Len(s) THEN s[k] ELSE t[k - Len(s)]
    BY <1>2, ConcatProperties
  <2>3. /\ Len(s1 \o t) = Len(s1) + Len(t)
        /\ \A k \in 1..(Len(s1) + Len(t)) :
             (s1 \o t)[k] = IF k <= Len(s1) THEN s1[k] ELSE t[k - Len(s1)]
    BY <1>2, ConcatProperties
  <2>4. ASSUME NEW k \in 1..Len(s1 \o t)
        PROVE  (s1 \o t)[k] = (s \o t)[n + k]
    <3>1. CASE k <= Len(s1)
      BY <1>4, <2>1, <2>2, <2>3, <3>1
    <3>2. CASE k > Len(s1)
      <4>0. k \in Nat /\ k <= Len(s1) + Len(t) /\ n + Len(s1) = Len(s)
        BY <1>4, <2>1, <2>3
      <4>1. n + k > Len(s) /\ n + k \in 1..(Len(s) + Len(t)) /\ (n + k) - Len(s) = k - Len(s1)
        BY <2>1, <3>2, <4>0
      <4>2. (s \o t)[n + k] = t[k - Len(s1)]
        BY <2>1, <2>2, <4>1
      <4>3. (s1 \o t)[k] = t[k - Len(s1)]
        BY <2>1, <2>3, <3>2
      <4>. QED  BY <4>2, <4>3
    <3>3. k <= Len(s1) \/ k > Len(s1)
      BY <2>1, <2>3
    <3>. QED  BY <3>1, <3>2, <3>3
  <2>5. n + Len(s1 \o t) <= Len(s \o t)
    BY <1>4, <2>1, <2>2, <2>3
  <2>. QED  BY <1>3, <2>4, <2>5 DEF PartFrom
<1>5. CASE s1 = s
  <2>1. 0 + Len(s1) = Len(s) /\ \A k \in 1..Len(s1) : s1[k] = s[0 + k]
    BY <1>2, <1>5, LenProperties
  <2>. QED  BY <1>4, <1>5, <2>1 DEF o, s, s1
<1>6. CASE s1 = <<>> /\ s # <<>>
  <2>1. Len(s) \in Nat /\ Len(s) >= 1 /\ Len(s1) = 0
    BY <1>2, <1>6, EmptySeq, LenProperties
  <2>2. Len(s) + Len(s1) = Len(s) /\ \A k \in 1..Len(s1) : s1[k] = s[Len(s) + k]
    BY <2>1
  <2>. QED  BY <1>4, <2>1, <2>2 DEF o, s, s1
<1>7. CASE s # <<>> /\ s1 = Tail(s)
  <2>1. Len(s) \in Nat /\ Len(s1) = Len(s) - 1 /\ \A k \in 1..Len(s1) : s1[k] = s[1 + k]
    BY <1>2, <1>7, HeadTailProperties, LenProperties
  <2>2. 1 + Len(s1) = Len(s)
    BY <2>1
  <2>. QED  BY <1>4, <2>1, <2>2 DEF o, s, s1
<1>. QED  BY <1>5, <1>6, <1>7 DEF s, s1

(* drive writes a signal: it stands behind all that is on the path. *)
LEMMA LongerPath ==
  ASSUME TypeOK, TypeOK', NEW p \in Peer, signals'[Other(p)] = signals[Other(p)],
         NEW m \in Signal, tcp'[p] = Append(tcp[p], m)
  PROVE  /\ Len(Path(p)') = Len(Path(p)) + 1 /\ Path(p)'[Len(Path(p)) + 1] = m
         /\ Len(Path(p)) \in Nat /\ \A k \in 1..Len(Path(p)) : Path(p)'[k] = Path(p)[k]
<1>. DEFINE s == signals[Other(p)]
<1>. DEFINE t == tcp[p]
<1>1. s \in Seq(Signal) /\ t \in Seq(Signal)
  BY PathParts
<1>2. Path(p) = s \o t /\ Path(p)' = s \o Append(t, m)
  BY DEF Path
<1>. HIDE DEF s, t
<1>3. Append(t, m) = t \o <<m>> /\ <<m>> \in Seq(Signal)
  BY <1>1, AppendIsConcat
<1>4. s \o Append(t, m) = (s \o t) \o <<m>>
  BY <1>1, <1>3, ConcatAssociative
<1>5. s \o t \in Seq(Signal) /\ Append(s \o t, m) = (s \o t) \o <<m>>
  BY <1>1, ConcatProperties, AppendIsConcat
<1>. DEFINE u == s \o t
<1>6. u \in Seq(Signal) /\ Path(p) = u /\ Path(p)' = Append(u, m)
  BY <1>2, <1>4, <1>5
<1>. HIDE DEF u
<1>7. /\ Len(Append(u, m)) = Len(u) + 1 /\ Append(u, m)[Len(u) + 1] = m
      /\ Len(u) \in Nat /\ \A k \in 1..Len(u) : Append(u, m)[k] = u[k]
  BY <1>6, AppendProperties, LenProperties
<1>. QED  BY <1>6, <1>7

(* What a path holds, a part of it may hold, and nothing else. *)
LEMMA PartHas ==
  ASSUME NEW q \in Seq(Signal), NEW r \in Seq(Signal), NEW n \in Nat, PartFrom(r, q, n)
  PROVE  /\ \A type \in {"Open", "Ready", "Reject", "Close"}, id \in Id :
              Has(r, type, id) => Has(q, type, id)
         /\ \A id \in Id : OpenOnce(q, id) => OpenOnce(r, id)
         /\ \A id \in Id : OpenOnce(q, id) /\ n >= 1 /\ q[1] = Sig("Open", id)
              => ~Has(r, "Open", id)
<1>1. /\ Len(q) \in Nat /\ Len(r) \in Nat /\ n + Len(r) <= Len(q)
      /\ \A k \in 1..Len(r) : r[k] = q[n + k]
  BY LenProperties DEF PartFrom
<1>2. \A k \in 1..Len(r) : n + k \in 1..Len(q)
  BY <1>1
<1>3. ASSUME NEW type, NEW id, Has(r, type, id)
      PROVE  Has(q, type, id)
  BY <1>1, <1>2, <1>3 DEF Has
<1>4. ASSUME NEW id, OpenOnce(q, id)
      PROVE  OpenOnce(r, id)
  <2>1. \A j, k \in 1..Len(r) : n + j = n + k => j = k
    BY <1>1
  <2>. QED  BY <1>1, <1>2, <1>4, <2>1 DEF OpenOnce
<1>5. ASSUME NEW id, OpenOnce(q, id), n >= 1, q[1] = Sig("Open", id), Has(r, "Open", id)
      PROVE  FALSE
  <2>1. PICK k \in 1..Len(r) : q[n + k] = Sig("Open", id)
    BY <1>1, <1>5 DEF Has
  <2>2. 1 \in 1..Len(q) /\ n + k \in 1..Len(q) /\ n + k # 1
    BY <1>1, <1>2, <1>5, <2>1
  <2>. QED  BY <1>5, <2>1, <2>2 DEF OpenOnce
<1>. QED  BY <1>3, <1>4, <1>5

(* The signal drive takes next is the first of the path. *)
LEMMA HeadOfPath ==
  ASSUME TypeOK, NEW p \in Peer, signals[p] # <<>>
  PROVE  /\ 1 \in 1..Len(Path(Other(p))) /\ Path(Other(p))[1] = Head(signals[p])
         /\ \A type, id : Head(signals[p]) = Sig(type, id) => Has(Path(Other(p)), type, id)
<1>1. Other(p) \in Peer /\ Other(Other(p)) = p
  BY TwoPeers
<1>2. signals[p] \in Seq(Signal)
  BY DEF TypeOK
<1>3. Len(signals[p]) \in Nat /\ Len(signals[p]) >= 1 /\ Head(signals[p]) = signals[p][1]
  BY <1>2, EmptySeq, LenProperties
<1>4. /\ Path(Other(p)) \in Seq(Signal) /\ Len(tcp[Other(p)]) \in Nat
      /\ Len(Path(Other(p))) = Len(signals[p]) + Len(tcp[Other(p)])
      /\ \A k \in 1..Len(Path(Other(p))) : k <= Len(signals[p]) =>
           Path(Other(p))[k] = signals[p][k]
  BY <1>1, PathParts
<1>5. 1 \in 1..Len(Path(Other(p)))
  <2>1. \A a, b, c \in Nat : a >= 1 /\ c = a + b => 1 \in 1..c
    OBVIOUS
  <2>2. Len(Path(Other(p))) \in Nat
    BY <1>4, LenProperties
  <2>. QED  BY <1>3, <1>4, <2>1, <2>2
<1>6. Path(Other(p))[1] = Head(signals[p])
  BY <1>3, <1>4, <1>5
<1>. QED  BY <1>5, <1>6 DEF Has

(* The same in terms of what the paths hold: what p takes is gone. *)
LEMMA ShorterHas ==
  ASSUME TypeOK, TypeOK', NEW p \in Peer, tcp'[Other(p)] = tcp[Other(p)],
         \/ signals'[p] = signals[p]
         \/ signals'[p] = <<>>
         \/ signals[p] # <<>> /\ signals'[p] = Tail(signals[p])
  PROVE  /\ Shorter(Other(p))
         /\ signals[p] # <<>> /\ signals'[p] # signals[p] =>
              \A id \in Id :
                /\ \A type \in {"Open", "Ready", "Reject"} :
                     Head(signals[p]) = Sig(type, id) => Has(Path(Other(p)), type, id)
                /\ Head(signals[p]) = Sig("Open", id) /\ OpenOnce(Path(Other(p)), id)
                     => ~Has(Path(Other(p))', "Open", id)
<1>1. Other(p) \in Peer /\ Other(Other(p)) = p
  BY TwoPeers
<1>2. Path(Other(p)) \in Seq(Signal)
  BY <1>1, PathParts
<1>3. Path(Other(p))' \in Seq(Signal)
  <2>1. signals'[p] \in Seq(Signal) /\ tcp'[Other(p)] \in Seq(Signal)
    BY <1>1 DEF TypeOK
  <2>. QED  BY <1>1, <2>1, ConcatProperties DEF Path
<1>4. PICK n \in Nat :
        /\ PartFrom(Path(Other(p))', Path(Other(p)), n)
        /\ signals[p] # <<>> /\ signals'[p] # signals[p] => n >= 1
  BY ShorterPath
<1>5. Shorter(Other(p))
  BY <1>2, <1>3, <1>4, PartHas DEF Shorter
<1>6. ASSUME signals[p] # <<>>
      PROVE  1 \in 1..Len(Path(Other(p))) /\ Path(Other(p))[1] = Head(signals[p])
  BY <1>6, HeadOfPath
<1>7. ASSUME signals[p] # <<>>, NEW id \in Id, NEW type \in {"Open", "Ready", "Reject"},
             Head(signals[p]) = Sig(type, id)
      PROVE  Has(Path(Other(p)), type, id)
  BY <1>6, <1>7 DEF Has
<1>8. ASSUME signals[p] # <<>>, signals'[p] # signals[p], NEW id \in Id,
             Head(signals[p]) = Sig("Open", id), OpenOnce(Path(Other(p)), id)
      PROVE  ~Has(Path(Other(p))', "Open", id)
  BY <1>2, <1>3, <1>4, <1>6, <1>8, PartHas
<1>. QED  BY <1>5, <1>7, <1>8

(* A path that gained one signal holds that one and what it held. *)
LEMMA LongerHas ==
  ASSUME TypeOK, TypeOK', NEW p \in Peer, signals'[Other(p)] = signals[Other(p)],
         NEW type \in {"Open", "Ready", "Reject", "Close"}, NEW id \in Id,
         tcp'[p] = Append(tcp[p], Sig(type, id))
  PROVE  /\ \A i \in Id : \A t \in {"Open", "Ready", "Reject"} :
              Has(Path(p)', t, i) <=> (Has(Path(p), t, i) \/ (t = type /\ i = id))
         /\ \A i \in Id :
              OpenOnce(Path(p), i) /\ (type = "Open" /\ i = id => ~Has(Path(p), "Open", i))
                => OpenOnce(Path(p)', i)
<1>. DEFINE q == Path(p)
<1>. DEFINE r == Path(p)'
<1>1. Sig(type, id) \in Signal
  BY MessagesTyped
<1>2. /\ Len(r) = Len(q) + 1 /\ r[Len(q) + 1] = Sig(type, id)
      /\ Len(q) \in Nat /\ \A k \in 1..Len(q) : r[k] = q[k]
  BY <1>1, LongerPath
<1>. HIDE DEF q, r
<1>3. \A k : k \in 1..Len(r) <=> k \in 1..Len(q) \/ k = Len(q) + 1
  BY <1>2
<1>4. \A t, i : Sig(t, i) = Sig(type, id) <=> t = type /\ i = id
  BY DEF Sig
<1>5. \A i \in Id : \A t \in {"Open", "Ready", "Reject"} :
        Has(r, t, i) <=> (Has(q, t, i) \/ (t = type /\ i = id))
  BY <1>2, <1>3, <1>4 DEF Has
<1>6. ASSUME NEW i \in Id, OpenOnce(q, i), type = "Open" /\ i = id => ~Has(q, "Open", i)
      PROVE  OpenOnce(r, i)
  <2> SUFFICES ASSUME NEW j \in 1..Len(r), NEW k \in 1..Len(r),
                      r[j] = Sig("Open", i), r[k] = Sig("Open", i)
               PROVE  j = k
    BY DEF OpenOnce
  <2>1. CASE j \in 1..Len(q) /\ k \in 1..Len(q)
    BY <1>2, <1>6, <2>1 DEF OpenOnce
  <2>2. CASE j = Len(q) + 1 /\ k = Len(q) + 1
    BY <2>2
  <2>3. CASE j \in 1..Len(q) /\ k = Len(q) + 1
    BY <1>2, <1>4, <1>6, <2>3 DEF Has
  <2>4. CASE k \in 1..Len(q) /\ j = Len(q) + 1
    BY <1>2, <1>4, <1>6, <2>4 DEF Has
  <2>. QED  BY <1>3, <2>1, <2>2, <2>3, <2>4
<1>. QED  BY <1>5, <1>6 DEF q, r

---------------------------------------------------------------------------
(* Whatever a step does within Effects preserves what the wire looks like. *)
LEMMA EffectsWire ==
  ASSUME WireInv, NEW p \in Peer, Effects(p)
  PROVE  \A q \in Peer, id \in Id : WireAt(q, id)'
<1>. DEFINE o == Other(p)
<1>1. o \in Peer /\ Other(o) = p /\ \A q \in Peer : q = p \/ q = o
  BY TwoPeers
<1>2. TypeOK /\ NextIdLocal /\ \A q \in Peer, id \in Id : WireAt(q, id)
  BY DEF WireInv, SessionInv
<1>3. nextId[p] \in Int /\ nextId'[p] \in Int /\ nextId'[p] >= nextId[p]
  <2>1. nextId[p] \in Int
    BY <1>2 DEF TypeOK
  <2>. QED  BY <2>1 DEF Effects, Opens
<1>. SUFFICES ASSUME NEW id \in Id
              PROVE  WireAt(p, id)' /\ WireAt(o, id)'
  BY <1>1
<1>4. WireAt(p, id) /\ WireAt(o, id) /\ (Local(p, id) <=> ~Local(o, id)) /\ id \in Int
  BY <1>1, <1>2, TwoPeers, SizeAssumption DEF Id
<1>5. /\ tracks'[o] = tracks[o] /\ nextId'[o] = nextId[o] /\ media'[o] = media[o]
      /\ TrackMoves(p, id) /\ PathGrows(p, id)
      /\ id \in media'[p] => id \in media[p] \/ tracks[p][id] = "ready"
  BY DEF Effects
<1>6. /\ Has(Path(o)', "Open", id) => Has(Path(o), "Open", id)
      /\ Has(Path(o)', "Ready", id) => Has(Path(o), "Ready", id)
      /\ Has(Path(o)', "Reject", id) => Has(Path(o), "Reject", id)
      /\ OpenOnce(Path(o), id) => OpenOnce(Path(o)', id)
  BY DEF Effects, Shorter
<1>7. ASSUME Opens(p, id)
      PROVE  /\ Local(p, id) /\ id >= nextId[p] /\ id < nextId'[p]
             /\ tracks[p][id] = "none" /\ Unused(p, id) /\ ~Has(Path(p), "Open", id)
  <2>1. id = nextId[p] /\ nextId'[p] = nextId[p] + 2 /\ Local(p, id)
    BY <1>2, <1>7 DEF Opens, NextIdLocal
  <2>2. id >= nextId[p] /\ ~(id < nextId[p]) /\ id < nextId'[p]
    BY <1>3, <2>1
  <2>. QED  BY <1>4, <2>1, <2>2 DEF WireAt
<1>8. WireAt(p, id)'
  <2>1. ASSUME Has(Path(p)', "Open", id)
        PROVE  Local(p, id) /\ id < nextId'[p] /\ Unused(p, id)'
    <3>1. Local(p, id) /\ id < nextId'[p] /\ Unused(p, id)
      <4>1. CASE Opens(p, id)
        BY <1>7, <4>1
      <4>2. CASE Has(Path(p), "Open", id)
        BY <1>3, <1>4, <4>2, <1>2 DEF WireAt, TypeOK
      <4>. QED  BY <1>5, <2>1, <4>1, <4>2 DEF PathGrows
    <3>2. tracks'[p][id] # "ready"
      BY <1>5, <3>1 DEF TrackMoves, Unused, Opens
    <3>. QED  BY <1>1, <1>5, <1>6, <3>1, <3>2 DEF Unused
  <2>2. OpenOnce(Path(p)', id)
    BY <1>4, <1>5, <1>7 DEF PathGrows, WireAt
  <2>3. ASSUME Local(p, id), id >= nextId'[p]
        PROVE  tracks'[p][id] = "none" /\ Unused(p, id)'
    <3>1. id >= nextId[p] /\ ~(id < nextId'[p])
      BY <1>3, <1>4, <2>3
    <3>2. tracks[p][id] = "none" /\ Unused(p, id)
      BY <1>4, <2>3, <3>1 DEF WireAt
    <3>3. ~Opens(p, id) /\ ~Has(Path(o), "Open", id)
      BY <1>4, <1>7, <2>3, <3>1 DEF WireAt
    <3>4. tracks'[p][id] = "none"
      BY <1>5, <3>2, <3>3 DEF TrackMoves, Admits
    <3>. QED  BY <1>1, <1>5, <1>6, <3>2, <3>4 DEF Unused
  <2>4. ~Has(Path(p)', "Reject", id)
    BY <1>4, <1>5 DEF PathGrows, WireAt
  <2>. QED  BY <2>1, <2>2, <2>3, <2>4 DEF WireAt, Local
<1>9. WireAt(o, id)'
  <2>1. ASSUME Local(o, id), Unused(o, id), ~Admits(p, id)
        PROVE  Unused(o, id)'
    <3>1. ~Opens(p, id) /\ tracks[p][id] = "none"
      BY <1>1, <1>4, <1>7, <2>1 DEF Unused
    <3>2. tracks'[p][id] = "none"
      BY <1>5, <2>1, <3>1 DEF TrackMoves
    <3>3. ~Has(Path(p)', "Ready", id)
      BY <1>1, <1>5, <2>1 DEF PathGrows, Unused
    <3>. QED  BY <1>1, <1>5, <2>1, <3>2, <3>3 DEF Unused
  <2>2. ASSUME Has(Path(o)', "Open", id)
        PROVE  Local(o, id) /\ id < nextId'[o] /\ Unused(o, id)'
    BY <1>4, <1>5, <1>6, <2>1, <2>2 DEF WireAt, Admits
  <2>3. ASSUME Local(o, id), id >= nextId'[o]
        PROVE  tracks'[o][id] = "none" /\ Unused(o, id)'
    <3>1. ~(id < nextId[o])
      BY <1>1, <1>2, <1>4, <1>5, <2>3 DEF TypeOK
    <3>. QED  BY <1>4, <1>5, <2>1, <2>3, <3>1 DEF WireAt, Admits
  <2>. QED  BY <1>4, <1>6, <2>2, <2>3 DEF WireAt, Local
<1>. QED  BY <1>8, <1>9

---------------------------------------------------------------------------
(* A path nobody wrote to says what it said. *)
LEMMA SamePath ==
  ASSUME NEW p \in Peer, signals'[Other(p)] = signals[Other(p)], tcp'[p] = tcp[p]
  PROVE  Path(p)' = Path(p)
  BY DEF Path

(* A step that ends tracks or leaves them, and writes a Close or nothing. *)
LEMMA QuietEffects ==
  ASSUME TypeOK, TypeOK', NEW p \in Peer,
         tracks'[Other(p)] = tracks[Other(p)], nextId' = nextId, media' = media,
         \A id \in Id : tracks'[p][id] \in {tracks[p][id], "none"},
         signals'[Other(p)] = signals[Other(p)], tcp'[Other(p)] = tcp[Other(p)],
         \/ signals'[p] = signals[p]
         \/ signals'[p] = <<>>
         \/ signals[p] # <<>> /\ signals'[p] = Tail(signals[p]),
         \/ tcp'[p] = tcp[p]
         \/ \E id \in Id : tcp'[p] = Append(tcp[p], Sig("Close", id))
  PROVE  Effects(p)
<1>1. Shorter(Other(p))
  BY ShorterHas
<1>2. \A id \in Id :
        /\ \A type \in {"Open", "Ready", "Reject"} :
             Has(Path(p)', type, id) <=> Has(Path(p), type, id)
        /\ OpenOnce(Path(p), id) => OpenOnce(Path(p)', id)
  <2>1. CASE tcp'[p] = tcp[p]
    <3>1. Path(p)' = Path(p)
      BY <2>1, SamePath
    <3>. QED  BY <3>1 DEF Has, OpenOnce
  <2>2. ASSUME NEW id \in Id, tcp'[p] = Append(tcp[p], Sig("Close", id))
        PROVE  \A i \in Id :
                 /\ \A t \in {"Open", "Ready", "Reject"} :
                      Has(Path(p)', t, i) <=> Has(Path(p), t, i)
                 /\ OpenOnce(Path(p), i) => OpenOnce(Path(p)', i)
    <3>1. "Close" \in {"Open", "Ready", "Reject", "Close"}
      OBVIOUS
    <3>2. /\ \A i \in Id : \A t \in {"Open", "Ready", "Reject"} :
               Has(Path(p)', t, i) <=> (Has(Path(p), t, i) \/ (t = "Close" /\ i = id))
          /\ \A i \in Id :
               OpenOnce(Path(p), i) /\ ("Close" = "Open" /\ i = id => ~Has(Path(p), "Open", i))
                 => OpenOnce(Path(p)', i)
      BY <2>2, <3>1, LongerHas
    <3>. QED  BY <3>2
  <2>. QED  BY <2>1, <2>2
<1>3. \A id \in Id : PathGrows(p, id)
  BY <1>2 DEF PathGrows
<1>4. \A id \in Id : TrackMoves(p, id)
  BY DEF TrackMoves
<1>. QED  BY <1>1, <1>3, <1>4, TwoPeers DEF Effects

(* drive returns, silently. *)
LEMMA ReturnEffects ==
  ASSUME TypeOK, TypeOK', NEW p \in Peer, Return(p), UNCHANGED <<tcp, media>>
  PROVE  Effects(p)
<1>1. Other(p) \in Peer /\ Other(p) # p
  BY TwoPeers
<1>2. /\ tracks'[Other(p)] = tracks[Other(p)] /\ nextId' = nextId
      /\ \A id \in Id : tracks'[p][id] = "none"
      /\ signals'[Other(p)] = signals[Other(p)] /\ signals'[p] = <<>>
  BY <1>1 DEF TypeOK, Return
<1>. QED  BY <1>2, QuietEffects

(* The application never touches what this invariant speaks of. *)
LEMMA ApplicationEffects ==
  ASSUME TypeOK, TypeOK', NEW p \in Peer, Application(p) \/ DropUnaccepted(p)
  PROVE  Effects(p)
<1>1. UNCHANGED <<tracks, nextId, media, signals, tcp>>
  BY DEF Application, Open, CancelQueuedOpen, CancelPendingOpen, SendFrame, CloseTrack,
         Accept, DropSendTrack, DropRecvTrack, DropSession, DropUnaccepted, driveVars
<1>. QED  BY <1>1, QuietEffects

(* drive announces the next id, under which nothing has happened. *)
LEMMA OpenEffects ==
  ASSUME WireInv, TypeOK', NEW p \in Peer, HandleOpen(p)
  PROVE  Effects(p)
<1>. DEFINE id == nextId[p]
<1>1. TypeOK /\ Local(p, id) /\ Other(p) \in Peer /\ Other(p) # p
  BY TwoPeers DEF WireInv, SessionInv, NextIdLocal
<1>2. id \in Id /\ id >= nextId[p]
  BY <1>1 DEF HandleOpen, TypeOK, Id
<1>3. tracks[p][id] = "none"
  BY <1>1, <1>2 DEF WireInv, WireAt
<1>4. /\ nextId' = [nextId EXCEPT ![p] = @ + 2] /\ SetTrack(p, id, "local")
      /\ Write(p, "Open", id) /\ UNCHANGED <<signals, media>>
  BY <1>3 DEF HandleOpen
<1>5. /\ nextId'[p] = nextId[p] + 2 /\ nextId'[Other(p)] = nextId[Other(p)]
      /\ tracks'[p][id] = "local" /\ tracks'[Other(p)] = tracks[Other(p)]
      /\ \A i \in Id : i # id => tracks'[p][i] = tracks[p][i]
      /\ tcp'[p] = Append(tcp[p], Sig("Open", id)) /\ tcp'[Other(p)] = tcp[Other(p)]
  BY <1>1, <1>2, <1>4 DEF TypeOK, SetTrack, Write
<1>6. Shorter(Other(p))
  BY <1>1, <1>4, <1>5, ShorterHas
<1>7. /\ \A i \in Id : \A t \in {"Open", "Ready", "Reject"} :
           Has(Path(p)', t, i) <=> (Has(Path(p), t, i) \/ (t = "Open" /\ i = id))
      /\ \A i \in Id :
           OpenOnce(Path(p), i) /\ (i = id => ~Has(Path(p), "Open", i)) => OpenOnce(Path(p)', i)
  <2>1. "Open" \in {"Open", "Ready", "Reject", "Close"}
    OBVIOUS
  <2>. QED  BY <1>1, <1>2, <1>4, <1>5, <2>1, LongerHas
<1>8. Opens(p, id)
  BY <1>2, <1>5, <1>7 DEF Opens
<1>9. \A i \in Id : TrackMoves(p, i) /\ PathGrows(p, i)
  BY <1>5, <1>7, <1>8 DEF TrackMoves, PathGrows
<1>. QED  BY <1>2, <1>4, <1>5, <1>6, <1>8, <1>9 DEF Effects

(* What drive does with a command. *)
LEMMA CommandEffects ==
  ASSUME WireInv, TypeOK', NEW p \in Peer, DriveCommand(p)
  PROVE  Effects(p)
<1>1. TypeOK /\ Other(p) \in Peer /\ Other(p) # p
  BY TwoPeers DEF WireInv, SessionInv
<1>2. CASE HandleOpenExhausted(p)
  BY <1>1, <1>2, QuietEffects DEF HandleOpenExhausted, driveVars
<1>3. CASE HandleOpen(p)
  BY <1>3, OpenEffects
<1>4. CASE HandleClose(p)
  <2>1. PICK id \in Id : id = Head(commands[p]).id
    BY <1>1, <1>4, ChannelsTyped DEF HandleClose, HasCommand, Command
  <2>2. /\ SetTrack(p, id, "none") /\ UNCHANGED <<nextId, signals, media>>
        /\ UNCHANGED tcp \/ Write(p, "Close", id)
    BY <1>4, <2>1 DEF HandleClose
  <2>3. /\ tracks'[Other(p)] = tracks[Other(p)] /\ tcp'[Other(p)] = tcp[Other(p)]
        /\ \A i \in Id : tracks'[p][i] \in {tracks[p][i], "none"}
        /\ tcp'[p] = tcp[p] \/ tcp'[p] = Append(tcp[p], Sig("Close", id))
    BY <1>1, <2>2 DEF TypeOK, SetTrack, Write
  <2>. QED  BY <1>1, <2>2, <2>3, QuietEffects
<1>5. CASE HandleFrame(p)
  <2>1. PICK id \in Id : id = Head(commands[p]).id
    BY <1>1, <1>5, ChannelsTyped DEF HandleFrame, HasCommand, Command
  <2>2. /\ UNCHANGED <<tracks, nextId, signals, tcp>>
        /\ media' = IF tracks[p][id] = "ready"
                    THEN [media EXCEPT ![p] = @ \union {id}] ELSE media
    BY <1>5, <2>1 DEF HandleFrame, driveVars
  <2>3. /\ media'[Other(p)] = media[Other(p)]
        /\ \A i \in Id : i \in media'[p] => i \in media[p] \/ tracks[p][i] = "ready"
    BY <1>1, <2>2 DEF TypeOK
  <2>4. Shorter(Other(p)) /\ Path(p)' = Path(p)
    BY <1>1, <2>2, ShorterHas, SamePath
  <2>5. \A i \in Id : TrackMoves(p, i) /\ PathGrows(p, i)
    BY <2>2, <2>4 DEF TrackMoves, PathGrows
  <2>. QED  BY <2>2, <2>3, <2>4, <2>5 DEF Effects
<1>. QED  BY <1>2, <1>3, <1>4, <1>5 DEF DriveCommand

(* A tail is shorter than what it is the tail of. *)
LEMMA TailDiffers == \A q \in Seq(Signal) : q # <<>> => Tail(q) # q
<1>. SUFFICES ASSUME NEW q \in Seq(Signal), q # <<>>, Tail(q) = q
              PROVE  FALSE
  OBVIOUS
<1>1. Len(q) \in Nat /\ Len(Tail(q)) = Len(q) - 1
  BY HeadTailProperties, LenProperties
<1>2. \A n \in Nat : n # n - 1
  OBVIOUS
<1>. QED  BY <1>1, <1>2

(* An Open that is admitted: it is off the wire, and Ready answers it. *)
LEMMA AdmitEffects ==
  ASSUME WireInv, TypeOK', NEW p \in Peer, AdmitOpen(p) \/ AdmitOpenOrphan(p)
  PROVE  Effects(p)
<1>. DEFINE o == Other(p)
<1>1. TypeOK /\ o \in Peer /\ o # p
  BY TwoPeers DEF WireInv, SessionInv
<1>2. HasSignal(p, "Open")
  BY DEF AdmitOpen, AdmitOpenOrphan
<1>3. PICK id \in Id : id = Head(signals[p]).id
  BY <1>1, <1>2, ChannelsTyped DEF HasSignal, Signal
<1>4. signals[p] # <<>> /\ Head(signals[p]) = Sig("Open", id)
  BY <1>1, <1>2, <1>3, ChannelsTyped DEF HasSignal, Signal, Sig
<1>5. /\ tracks[p][id] = "none" /\ Write(p, "Ready", id) /\ nextId' = nextId /\ media' = media
      /\ \/ SetTrack(p, id, "remote") /\ TakeSignal(p)
         \/ Return(p)
  BY <1>3 DEF AdmitOpen, AdmitOpenOrphan, Return
<1>6. /\ tracks'[o] = tracks[o] /\ signals'[o] = signals[o] /\ tcp'[o] = tcp[o]
      /\ tcp'[p] = Append(tcp[p], Sig("Ready", id))
      /\ signals'[p] = <<>> \/ signals'[p] = Tail(signals[p])
      /\ \A i \in Id : \/ tracks'[p][i] \in {tracks[p][i], "none"}
                       \/ i = id /\ tracks'[p][i] = "remote"
  <2>1. tcp'[o] = tcp[o] /\ tcp'[p] = Append(tcp[p], Sig("Ready", id))
    BY <1>1, <1>5 DEF TypeOK, Write
  <2>2. CASE SetTrack(p, id, "remote") /\ TakeSignal(p)
    BY <1>1, <2>1, <2>2 DEF TypeOK, SetTrack, TakeSignal
  <2>3. CASE Return(p)
    BY <1>1, <2>1, <2>3 DEF TypeOK, Return
  <2>. QED  BY <1>5, <2>2, <2>3
<1>7. signals'[p] # signals[p]
  <2>1. Tail(signals[p]) # signals[p]
    BY <1>1, <1>4, TailDiffers DEF TypeOK
  <2>. QED  BY <1>4, <1>6, <2>1
<1>8. Shorter(o) /\ Has(Path(o), "Open", id) /\ ~Has(Path(o)', "Open", id)
  <2>1. OpenOnce(Path(o), id)
    BY <1>1 DEF WireInv, WireAt
  <2>2. "Open" \in {"Open", "Ready", "Reject"}
    OBVIOUS
  <2>. QED  BY <1>1, <1>4, <1>6, <1>7, <2>1, <2>2, ShorterHas
<1>9. /\ \A i \in Id : \A t \in {"Open", "Ready", "Reject"} :
           Has(Path(p)', t, i) <=> (Has(Path(p), t, i) \/ (t = "Ready" /\ i = id))
      /\ \A i \in Id : OpenOnce(Path(p), i) => OpenOnce(Path(p)', i)
  <2>1. "Ready" \in {"Open", "Ready", "Reject", "Close"} /\ "Ready" # "Open"
    OBVIOUS
  <2>. QED  BY <1>1, <1>6, <2>1, LongerHas
<1>10. \A i \in Id : TrackMoves(p, i) /\ PathGrows(p, i)
  <2>1. Admits(p, id)
    BY <1>8 DEF Admits
  <2>. QED  BY <1>5, <1>6, <1>9, <2>1 DEF TrackMoves, PathGrows
<1>. QED  BY <1>5, <1>6, <1>8, <1>10 DEF Effects

(* The Ready that opens the gate of a pending track. *)
LEMMA ReadyEffects ==
  ASSUME WireInv, TypeOK', NEW p \in Peer, HandleReady(p)
  PROVE  Effects(p)
<1>. DEFINE o == Other(p)
<1>1. TypeOK /\ o \in Peer /\ o # p
  BY TwoPeers DEF WireInv, SessionInv
<1>2. PICK id \in Id : id = Head(signals[p]).id
  BY <1>1, ChannelsTyped DEF HandleReady, HasSignal, Signal
<1>3. signals[p] # <<>> /\ Head(signals[p]) = Sig("Ready", id)
  BY <1>1, <1>2, ChannelsTyped DEF HandleReady, HasSignal, Signal, Sig
<1>4. /\ tracks[p][id] \in {"local", "ready"} /\ SetTrack(p, id, "ready") /\ TakeSignal(p)
      /\ UNCHANGED <<nextId, tcp, media>>
  BY <1>2 DEF HandleReady
<1>5. /\ tracks'[o] = tracks[o] /\ signals'[o] = signals[o] /\ signals'[p] = Tail(signals[p])
      /\ tracks'[p][id] = "ready"
      /\ \A i \in Id : i # id => tracks'[p][i] = tracks[p][i]
  BY <1>1, <1>4 DEF TypeOK, SetTrack, TakeSignal
<1>6. signals'[p] # signals[p]
  BY <1>1, <1>3, <1>5, TailDiffers DEF TypeOK
<1>7. Shorter(o) /\ Has(Path(o), "Ready", id)
  <2>1. "Ready" \in {"Open", "Ready", "Reject"}
    OBVIOUS
  <2>. QED  BY <1>1, <1>3, <1>4, <1>5, <1>6, <2>1, ShorterHas
<1>8. Path(p)' = Path(p)
  BY <1>4, <1>5, SamePath
<1>9. \A i \in Id : TrackMoves(p, i) /\ PathGrows(p, i)
  BY <1>4, <1>5, <1>7, <1>8 DEF TrackMoves, PathGrows
<1>. QED  BY <1>4, <1>5, <1>7, <1>9 DEF Effects

(* No Open on the way is one drive would refuse. *)
LEMMA NothingToRefuse ==
  ASSUME WireInv, NEW p \in Peer, RefuseOpen(p)
  PROVE  FALSE
<1>. DEFINE o == Other(p)
<1>1. TypeOK /\ o \in Peer /\ o # p /\ Other(o) = p
  BY TwoPeers DEF WireInv, SessionInv
<1>2. PICK id \in Id : id = Head(signals[p]).id
  BY <1>1, ChannelsTyped DEF RefuseOpen, HasSignal, Signal
<1>3. signals[p] # <<>> /\ Head(signals[p]) = Sig("Open", id)
  BY <1>1, <1>2, ChannelsTyped DEF RefuseOpen, HasSignal, Signal, Sig
<1>4. Local(p, id) \/ tracks[p][id] # "none"
  BY <1>2 DEF RefuseOpen
<1>5. Has(Path(o), "Open", id)
  BY <1>1, <1>3, HeadOfPath
<1>6. Local(o, id) /\ tracks[p][id] = "none"
  BY <1>1, <1>5 DEF WireInv, WireAt, Unused
<1>. QED  BY <1>4, <1>6, TwoPeers

(* What drive does with a signal. *)
LEMMA SignalEffects ==
  ASSUME WireInv, TypeOK', NEW p \in Peer, DriveSignal(p)
  PROVE  Effects(p)
<1>1. TypeOK /\ RoutesMatchEngine /\ Other(p) \in Peer /\ Other(p) # p
  BY TwoPeers DEF WireInv, SessionInv
<1>2. CASE RefuseOpen(p)
  BY <1>2, NothingToRefuse
<1>3. CASE AdmitOpen(p) \/ AdmitOpenOrphan(p)
  BY <1>3, AdmitEffects
<1>4. CASE HandleReady(p)
  BY <1>4, ReadyEffects
<1>5. CASE HandleReadyOrphan(p)
  BY <1>1, <1>5, ReturnEffects DEF HandleReadyOrphan
<1>6. CASE IgnoreReady(p) \/ HandleReject(p) \/ HandlePeerClose(p)
  <2>1. signals[p] # <<>>
    BY <1>6 DEF IgnoreReady, HandleReject, HandlePeerClose, HasSignal
  <2>2. PICK id \in Id : id = Head(signals[p]).id
    BY <1>1, <2>1, ChannelsTyped DEF Signal
  <2>3. Agree(p, id)
    BY <1>1 DEF RoutesMatchEngine
  <2>4. /\ UNCHANGED tracks \/ SetTrack(p, id, "none")
        /\ TakeSignal(p) /\ UNCHANGED <<nextId, tcp, media>>
    <3>1. CASE IgnoreReady(p)
      BY <2>2, <2>3, <3>1 DEF IgnoreReady, Agree
    <3>2. CASE HandleReject(p) \/ HandlePeerClose(p)
      BY <2>2, <3>2 DEF HandleReject, HandlePeerClose
    <3>. QED  BY <1>6, <3>1, <3>2
  <2>5. /\ tracks'[Other(p)] = tracks[Other(p)]
        /\ \A i \in Id : tracks'[p][i] \in {tracks[p][i], "none"}
        /\ signals'[Other(p)] = signals[Other(p)] /\ signals'[p] = Tail(signals[p])
    BY <1>1, <2>4 DEF TypeOK, SetTrack, TakeSignal
  <2>. QED  BY <1>1, <2>1, <2>4, <2>5, QuietEffects
<1>. QED  BY <1>2, <1>3, <1>4, <1>5, <1>6 DEF DriveSignal

(* What any step of a session does. *)
LEMMA StepEffects ==
  ASSUME WireInv, TypeOK', NEW p \in Peer, Step(p)
  PROVE  Effects(p)
<1>1. TypeOK /\ Other(p) \in Peer /\ Other(p) # p
  BY TwoPeers DEF WireInv, SessionInv
<1>2. CASE ExpireOpen(p)
  <2>1. PICK id \in Id :
          SetTrack(p, id, "none") /\ Write(p, "Close", id) /\ UNCHANGED <<nextId, signals, media>>
    BY <1>1, <1>2, ExpiredTyped DEF ExpireOpen
  <2>2. /\ tracks'[Other(p)] = tracks[Other(p)] /\ tcp'[Other(p)] = tcp[Other(p)]
        /\ \A i \in Id : tracks'[p][i] \in {tracks[p][i], "none"}
        /\ tcp'[p] = Append(tcp[p], Sig("Close", id))
    BY <1>1, <2>1 DEF TypeOK, SetTrack, Write
  <2>. QED  BY <1>1, <2>1, <2>2, QuietEffects
<1>3. CASE SendersGone(p) \/ Fail(p)
  BY <1>1, <1>3, ReturnEffects DEF SendersGone, Fail
<1>4. CASE CollectExpired(p)
  BY <1>1, <1>4, QuietEffects DEF CollectExpired
<1>. QED
  BY <1>1, <1>2, <1>3, <1>4, ApplicationEffects, CommandEffects, SignalEffects DEF Step

---------------------------------------------------------------------------
(* A sequence is its head and then its tail. *)
LEMMA HeadThenTail ==
  ASSUME NEW q \in Seq(Signal), q # <<>>
  PROVE  q = <<Head(q)>> \o Tail(q)
<1>1. /\ Head(q) \in Signal /\ Tail(q) \in Seq(Signal) /\ Len(Tail(q)) = Len(q) - 1
      /\ \A i \in 1..Len(Tail(q)) : Tail(q)[i] = q[i + 1]
  BY HeadTailProperties
<1>2. Len(q) \in Nat /\ Len(q) >= 1 /\ Head(q) = q[1]
  BY EmptySeq, LenProperties
<1>. DEFINE r == <<Head(q)>> \o Tail(q)
<1>3. <<Head(q)>> \in Seq(Signal) /\ Len(<<Head(q)>>) = 1 /\ <<Head(q)>>[1] = Head(q)
  BY <1>1
<1>4. /\ r \in Seq(Signal) /\ Len(r) = 1 + Len(Tail(q))
      /\ \A i \in 1..(1 + Len(Tail(q))) :
           r[i] = IF i <= 1 THEN <<Head(q)>>[i] ELSE Tail(q)[i - 1]
  BY <1>1, <1>3, ConcatProperties
<1>. HIDE DEF r
<1>5. Len(r) = Len(q)
  BY <1>1, <1>2, <1>4
<1>6. ASSUME NEW i \in 1..Len(q)
      PROVE  q[i] = r[i]
  <2>1. i \in Nat /\ i \in 1..(1 + Len(Tail(q)))
    BY <1>1, <1>2
  <2>2. CASE i = 1
    BY <1>2, <1>3, <1>4, <2>1, <2>2
  <2>3. CASE i # 1
    <3>1. ~(i <= 1) /\ i - 1 \in 1..Len(Tail(q)) /\ (i - 1) + 1 = i
      BY <1>1, <1>2, <2>1, <2>3
    <3>. QED  BY <1>1, <1>4, <2>1, <3>1
  <2>. QED  BY <2>2, <2>3
<1>. QED  BY <1>4, <1>5, <1>6, SeqEqual DEF r

(* The reader task moves a signal along the path: nothing else changes. *)
LEMMA ReadKeepsPaths ==
  ASSUME TypeOK, TypeOK', NEW p \in Peer, ReadSignal(p)
  PROVE  /\ UNCHANGED <<tracks, nextId, media, running>>
         /\ \A q \in Peer : Path(q)' = Path(q)
<1>. DEFINE o == Other(p)
<1>. DEFINE s == signals[p]
<1>. DEFINE t == tcp[o]
<1>1. o \in Peer /\ o # p /\ Other(o) = p /\ \A q \in Peer : q = p \/ q = o
  BY TwoPeers
<1>2. s \in Seq(Signal) /\ t \in Seq(Signal) /\ t # <<>>
  BY <1>1 DEF TypeOK, ReadSignal
<1>3. /\ signals'[p] = Append(s, Head(t)) /\ tcp'[o] = Tail(t)
      /\ signals'[o] = signals[o] /\ tcp'[p] = tcp[p]
      /\ UNCHANGED <<tracks, nextId, media, running>>
  BY <1>1 DEF TypeOK, ReadSignal, driveVars
<1>4. Path(o) = s \o t /\ Path(o)' = Append(s, Head(t)) \o Tail(t)
  BY <1>1, <1>3 DEF Path
<1>. HIDE DEF s, t
<1>5. Head(t) \in Signal /\ Tail(t) \in Seq(Signal) /\ t = <<Head(t)>> \o Tail(t)
  BY <1>2, HeadTailProperties, HeadThenTail
<1>6. Append(s, Head(t)) = s \o <<Head(t)>> /\ <<Head(t)>> \in Seq(Signal)
  BY <1>2, <1>5, AppendIsConcat
<1>7. Path(o)' = Path(o)
  BY <1>2, <1>4, <1>5, <1>6, ConcatAssociative, SMTT(30)
<1>8. Path(p)' = Path(p)
  BY <1>3, SamePath
<1>. QED  BY <1>1, <1>3, <1>7, <1>8

(* So it does nothing the invariant speaks of. *)
LEMMA ReadEffects ==
  ASSUME TypeOK, TypeOK', NEW p \in Peer, ReadSignal(p)
  PROVE  Effects(p)
<1>1. Other(p) \in Peer
  BY TwoPeers
<1>2. UNCHANGED <<tracks, nextId, media>> /\ \A q \in Peer : Path(q)' = Path(q)
  BY ReadKeepsPaths
<1>. QED  BY <1>1, <1>2 DEF Effects, Shorter, TrackMoves, PathGrows

(* A connection that broke loses the unread end of the path. *)
LEMMA BrokenEffects ==
  ASSUME TypeOK, TypeOK', NEW p \in Peer, ConnectionBroken(p)
  PROVE  Effects(Other(p))
<1>. DEFINE o == Other(p)
<1>1. o \in Peer /\ o # p /\ Other(o) = p
  BY TwoPeers
<1>2. /\ signals' = signals /\ tcp'[p] = <<>> /\ tcp'[o] = tcp[o]
      /\ UNCHANGED <<tracks, nextId, media>>
  BY <1>1 DEF TypeOK, ConnectionBroken, driveVars
<1>3. /\ signals[o] \in Seq(Signal) /\ Path(p) \in Seq(Signal)
      /\ Len(signals[o]) \in Nat /\ Len(tcp[p]) \in Nat
      /\ Len(Path(p)) = Len(signals[o]) + Len(tcp[p])
      /\ \A k \in 1..Len(Path(p)) : k <= Len(signals[o]) => Path(p)[k] = signals[o][k]
  BY PathParts
<1>4. Path(p)' = signals[o]
  BY <1>1, <1>2, <1>3, ConcatEmptySeq DEF Path
<1>5. PartFrom(signals[o], Path(p), 0)
  <2>1. \A a, b, c \in Nat : c = a + b =>
          0 + a <= c /\ \A k \in 1..a : k \in 1..c /\ k <= a /\ 0 + k = k
    OBVIOUS
  <2>2. Len(Path(p)) \in Nat
    BY <1>3, LenProperties
  <2>3. /\ 0 + Len(signals[o]) <= Len(Path(p))
        /\ \A k \in 1..Len(signals[o]) :
             k \in 1..Len(Path(p)) /\ k <= Len(signals[o]) /\ 0 + k = k
    BY <1>3, <2>1, <2>2
  <2>. QED  BY <1>3, <2>3 DEF PartFrom
<1>6. Shorter(p)
  BY <1>3, <1>4, <1>5, PartHas DEF Shorter
<1>7. Path(o)' = Path(o)
  BY <1>1, <1>2 DEF Path
<1>8. \A id \in Id : TrackMoves(o, id) /\ PathGrows(o, id)
  BY <1>2, <1>7 DEF TrackMoves, PathGrows
<1>. QED  BY <1>1, <1>2, <1>6, <1>8 DEF Effects

(* Every step of the two sessions and of the connection between them. *)
LEMMA NextEffects ==
  ASSUME WireInv, TypeOK', Next
  PROVE  \E p \in Peer : Effects(p)
<1>1. TypeOK
  BY DEF WireInv, SessionInv
<1>2. PICK p \in Peer : Step(p) \/ ReadSignal(p) \/ ConnectionClosed(p) \/ ConnectionBroken(p)
  BY DEF Next
<1>3. CASE ConnectionClosed(p)
  BY <1>1, <1>3, ReturnEffects DEF ConnectionClosed
<1>. QED  BY <1>1, <1>2, <1>3, TwoPeers, StepEffects, ReadEffects, BrokenEffects

(* What crosses the connection stays in order. *)
LEMMA NextWire ==
  ASSUME WireInv, [Next]_vars
  PROVE  WireInv'
<1>1. SessionInv'
  BY NextInv DEF WireInv
<1>2. CASE Next
  BY <1>1, <1>2, NextEffects, EffectsWire DEF WireInv, SessionInv
<1>3. CASE UNCHANGED vars
  <2>1. UNCHANGED <<tracks, nextId, media, signals, tcp>>
    BY <1>3 DEF vars, driveVars
  <2>2. \A q \in Peer : Path(q)' = Path(q)
    BY <2>1 DEF Path
  <2>3. ASSUME NEW q \in Peer, NEW id \in Id
        PROVE  WireAt(q, id)'
    <3>1. WireAt(q, id) /\ Other(q) \in Peer
      BY TwoPeers DEF WireInv
    <3>2. Unused(q, id) => Unused(q, id)'
      BY <2>1, <2>2, <3>1 DEF Unused
    <3>. QED  BY <2>1, <2>2, <3>1, <3>2 DEF WireAt, Local
  <2>. QED  BY <1>1, <2>3 DEF WireInv
<1>. QED  BY <1>2, <1>3

(* Nothing is on its way between fresh sessions. *)
LEMMA InitWire == Init => WireInv
<1>. SUFFICES ASSUME Init, NEW p \in Peer, NEW id \in Id
              PROVE  WireAt(p, id)
  BY InitInv DEF WireInv
<1>1. \A q \in Peer : Len(Path(q)) = 0
  <2>. SUFFICES ASSUME NEW q \in Peer
                PROVE  Len(Path(q)) = 0
    OBVIOUS
  <2>1. Other(q) \in Peer
    BY TwoPeers
  <2>2. Path(q) = <<>> \o <<>> /\ <<>> \in Seq(Signal)
    BY <2>1, EmptySeq DEF Init, Path
  <2>3. Path(q) = <<>>
    BY <2>2, ConcatEmptySeq
  <2>. QED  BY <2>3
<1>2. Other(p) \in Peer
  BY TwoPeers
<1>. QED  BY <1>1, <1>2 DEF Init, WireAt, Unused, Has, OpenOnce

(* The inductive invariant of the wire. *)
THEOREM WireInvHolds == Spec => []WireInv
<1>1. WireInv /\ [Next]_vars => WireInv'
  BY NextWire
<1>. QED  BY InitWire, <1>1, PTL DEF Spec

(* Two conforming sessions never answer an Open with a Reject: the parity   *)
(* split and the ids drive never reuses leave no conflict to report.        *)
THEOREM NoConflictingOpenCorrect == Spec => []NoConflictingOpen
<1>1. WireInv => NoConflictingOpen
  BY DEF WireInv, WireAt, NoConflictingOpen, InPath, Has
<1>. QED  BY WireInvHolds, <1>1, PTL

(* No media of a track leaves its sender before the peer has taken the Open *)
(* off the wire, so the route is there when the media arrives.              *)
THEOREM MediaAfterRouteCorrect == Spec => []MediaAfterRoute
<1>1. WireInv => MediaAfterRoute
  BY DEF WireInv, WireAt, Unused, MediaAfterRoute, InPath, Has
<1>. QED  BY WireInvHolds, <1>1, PTL

---------------------------------------------------------------------------
(* What a send side can have been when its step changes it. *)
LEMMA SendSideMoves ==
  ASSUME WireInv, WireInv', NEW p \in Peer, NEW id \in Id, Local(p, id),
         nextId'[p] >= nextId[p],
         id < nextId'[p] => id < nextId[p] \/ tracks'[p][id] = "local",
         \/ tracks'[p][id] \in {tracks[p][id], "none"}
         \/ tracks[p][id] = "none" /\ tracks'[p][id] = "local" /\ id >= nextId[p]
         \/ /\ tracks[p][id] \in {"local", "ready"} /\ tracks'[p][id] = "ready"
            /\ ReceiveSide(id) # "idle"
  PROVE  \/ SendSide(id)' = SendSide(id)
         \/ SendSide(id) = "idle" /\ SendSide(id)' = "opening"
         \/ SendSide(id) = "opening" /\ SendSide(id)' = "sending" /\ ReceiveSide(id) # "idle"
         \/ SendSide(id) \in {"opening", "sending"} /\ SendSide(id)' = "closed"
<1>1. Owner(id) = p
  BY PairAssumption DEF Owner, Local
<1>2. nextId[p] \in Int /\ nextId'[p] \in Int /\ id \in Int
  BY SizeAssumption DEF WireInv, SessionInv, TypeOK, Id
<1>3. id >= nextId[p] => tracks[p][id] = "none"
  BY DEF WireInv, WireAt
<1>4. id >= nextId'[p] => tracks'[p][id] = "none"
  BY DEF WireInv, WireAt, Local
<1>. QED  BY <1>1, <1>2, <1>3, <1>4 DEF SendSide

(* The receive side of a track its opener moves does not move. *)
LEMMA OwnerStep ==
  ASSUME WireInv, WireInv', NEW p \in Peer, Effects(p), NEW id \in Id, Local(p, id)
  PROVE  Lifecycle!SenderMoves(id) /\ Lifecycle!ReceiverMoves(id)
<1>. DEFINE o == Other(p)
<1>1. o \in Peer /\ Owner(id) = p /\ ~Local(o, id) /\ Other(o) = p
  BY TwoPeers, PairAssumption DEF Owner, Local
<1>2. TypeOK /\ NextIdLocal /\ WireAt(p, id) /\ WireAt(o, id)
  BY <1>1 DEF WireInv, SessionInv
<1>3. nextId[p] \in Int /\ nextId'[p] \in Int /\ id \in Int /\ nextId'[p] >= nextId[p]
  <2>1. nextId[p] \in Int /\ id \in Int
    BY <1>2, SizeAssumption DEF TypeOK, Id
  <2>. QED  BY <2>1 DEF Effects, Opens
<1>4. TrackMoves(p, id) /\ PathGrows(p, id) /\ tracks'[o] = tracks[o]
  BY DEF Effects
<1>5. Opens(p, id) => /\ id >= nextId[p] /\ ~(id < nextId[p]) /\ tracks[p][id] = "none"
                      /\ tracks'[p][id] = "local" /\ Has(Path(p)', "Open", id)
  BY <1>2, <1>3 DEF Opens, WireAt
<1>6. ASSUME id < nextId'[p], ~(id < nextId[p])
      PROVE  Opens(p, id)
  <2>1. nextId'[p] # nextId[p]
    BY <1>3, <1>6
  <2>2. nextId[p] \in Id /\ Opens(p, nextId[p]) /\ nextId'[p] = nextId[p] + 2
    BY <2>1 DEF Effects, Opens
  <2>3. id = nextId[p] \/ id = nextId[p] + 1
    BY <1>3, <1>6, <2>2
  <2>4. nextId[p] % 2 = p /\ id % 2 = p
    BY <1>2 DEF NextIdLocal, Local
  <2>5. id # nextId[p] + 1
    BY <1>3, <2>4
  <2>. QED  BY <2>2, <2>3, <2>5
<1>7. Lifecycle!SenderMoves(id)
  <2>1. \/ tracks'[p][id] \in {tracks[p][id], "none"}
        \/ tracks[p][id] = "none" /\ tracks'[p][id] = "local" /\ id >= nextId[p]
        \/ /\ tracks[p][id] \in {"local", "ready"} /\ tracks'[p][id] = "ready"
           /\ ReceiveSide(id) # "idle"
    <3>1. ~Admits(p, id)
      BY <1>1, <1>2 DEF Admits, WireAt
    <3>2. ASSUME tracks[p][id] \in {"local", "ready"}, Has(Path(o), "Ready", id)
          PROVE  ReceiveSide(id) # "idle"
      <4>1. id < nextId[p] /\ ~Has(Path(p), "Open", id)
        BY <1>2, <1>3, <3>2 DEF WireAt, Unused, TypeOK
      <4>. QED  BY <1>1, <4>1 DEF ReceiveSide, InPath, Has
    <3>. QED  BY <1>4, <1>5, <3>1, <3>2 DEF TrackMoves
  <2>2. id < nextId'[p] => id < nextId[p] \/ tracks'[p][id] = "local"
    BY <1>5, <1>6
  <2>3. \/ SendSide(id)' = SendSide(id)
        \/ SendSide(id) = "idle" /\ SendSide(id)' = "opening"
        \/ SendSide(id) = "opening" /\ SendSide(id)' = "sending" /\ ReceiveSide(id) # "idle"
        \/ SendSide(id) \in {"opening", "sending"} /\ SendSide(id)' = "closed"
    BY <1>3, <2>1, <2>2, SendSideMoves
  <2>. QED  BY <2>3 DEF Lifecycle!SenderMoves
<1>8. ReceiveSide(id)' = ReceiveSide(id)
  <2>1. Has(Path(p)', "Open", id) <=> Has(Path(p), "Open", id) \/ Opens(p, id)
    BY <1>4, <1>5 DEF PathGrows
  <2>2. id < nextId[p] => id < nextId'[p]
    BY <1>3
  <2>. QED  BY <1>1, <1>4, <1>5, <1>6, <2>1, <2>2 DEF ReceiveSide, InPath, Has
<1>9. Lifecycle!ReceiverMoves(id)
  BY <1>8 DEF Lifecycle!ReceiverMoves
<1>. QED  BY <1>7, <1>9

(* Nor does the send side of a track its receiver moves. *)
LEMMA PeerStep ==
  ASSUME WireInv, WireInv', NEW p \in Peer, Effects(p), NEW id \in Id, ~Local(p, id)
  PROVE  Lifecycle!SenderMoves(id) /\ Lifecycle!ReceiverMoves(id)
<1>. DEFINE o == Other(p)
<1>1. o \in Peer /\ Owner(id) = o /\ Local(o, id) /\ Other(o) = p
  <2>1. o \in Peer /\ Local(o, id) /\ Other(o) = p
    BY TwoPeers
  <2>. QED  BY <2>1 DEF Owner, Local
<1>2. TypeOK /\ NextIdLocal /\ WireAt(o, id) /\ Agree(p, id)
  BY <1>1 DEF WireInv, SessionInv, RoutesMatchEngine
<1>3. nextId[o] \in Int /\ id \in Int
  BY <1>1, <1>2, SizeAssumption DEF TypeOK, Id
<1>4. /\ TrackMoves(p, id) /\ tracks'[o] = tracks[o] /\ nextId'[o] = nextId[o]
      /\ Has(Path(o)', "Open", id) => Has(Path(o), "Open", id)
  BY DEF Effects, Shorter
<1>5. SendSide(id)' = SendSide(id)
  BY <1>1, <1>4 DEF SendSide
<1>6. id < nextId[o] => SendSide(id) # "idle"
  BY <1>1 DEF SendSide
<1>7. ~Opens(p, id) /\ tracks[p][id] \notin {"local", "ready"}
  BY <1>2 DEF Opens, NextIdLocal, Agree
<1>8. CASE tracks'[p][id] = "remote" /\ tracks[p][id] = "none" /\ Admits(p, id)
  <2>1. Has(Path(o), "Open", id) /\ id < nextId[o]
    BY <1>2, <1>8 DEF Admits, WireAt
  <2>2. ReceiveSide(id) = "idle" /\ ReceiveSide(id)' = "receiving"
    BY <1>1, <1>8, <2>1 DEF ReceiveSide, InPath, Has
  <2>. QED  BY <1>5, <1>6, <2>1, <2>2 DEF Lifecycle!SenderMoves, Lifecycle!ReceiverMoves
<1>9. CASE tracks'[p][id] \in {tracks[p][id], "none"}
  <2>1. tracks[p][id] = "remote" => id < nextId[o] /\ ~Has(Path(o), "Open", id)
    BY <1>1, <1>2, <1>3 DEF WireAt, Unused
  <2>2. \/ ReceiveSide(id)' = ReceiveSide(id)
        \/ ReceiveSide(id) = "idle" /\ id < nextId[o] /\ ReceiveSide(id)' = "closed"
        \/ ReceiveSide(id) = "receiving" /\ ReceiveSide(id)' = "closed"
    BY <1>1, <1>4, <1>9, <2>1 DEF ReceiveSide, InPath, Has
  <2>. QED  BY <1>5, <1>6, <2>2 DEF Lifecycle!SenderMoves, Lifecycle!ReceiverMoves
<1>. QED  BY <1>4, <1>7, <1>8, <1>9 DEF TrackMoves

(* Every step of the sessions is one of the tracks' lives, or none. *)
LEMMA NextLifecycle ==
  ASSUME WireInv, [Next]_vars
  PROVE  Lifecycle!LifecycleNext
<1>1. WireInv'
  BY NextWire
<1>. SUFFICES ASSUME NEW id \in Id
              PROVE  Lifecycle!SenderMoves(id) /\ Lifecycle!ReceiverMoves(id)
  BY DEF Lifecycle!LifecycleNext
<1>2. CASE Next
  <2>1. PICK p \in Peer : Effects(p)
    BY <1>1, <1>2, NextEffects DEF WireInv, SessionInv
  <2>. QED  BY <1>1, <2>1, OwnerStep, PeerStep
<1>3. CASE UNCHANGED vars
  <2>1. UNCHANGED <<tracks, nextId, signals, tcp>>
    BY <1>3 DEF vars, driveVars
  <2>2. SendSide(id)' = SendSide(id) /\ ReceiveSide(id)' = ReceiveSide(id)
    BY <2>1 DEF SendSide, ReceiveSide, InPath, Path
  <2>. QED  BY <2>2 DEF Lifecycle!SenderMoves, Lifecycle!ReceiverMoves
<1>. QED  BY <1>2, <1>3

(* The two sessions implement the life of every track: no media before the  *)
(* peer can route it, no id used twice, and no end of a track coming back.  *)
THEOREM LifecycleSafe == Spec => Lifecycle!LifecycleSafety
<1>1. Init => Lifecycle!LifecycleInit
  <2>. SUFFICES ASSUME Init, NEW id \in Id
                PROVE  SendSide(id) = "idle" /\ ReceiveSide(id) = "idle"
    BY DEF Lifecycle!LifecycleInit
  <2>1. Owner(id) \in Peer /\ Other(Owner(id)) \in Peer
    BY PairAssumption, SizeAssumption DEF Owner, Other, Id
  <2>2. WireAt(Owner(id), id) /\ id \in Int
    BY <2>1, InitWire, SizeAssumption DEF WireInv, Id
  <2>3. nextId[Owner(id)] = Owner(id) /\ Owner(id) = id % 2
    BY <2>1 DEF Init, Owner
  <2>4. ~(id < nextId[Owner(id)])
    BY <2>2, <2>3, SizeAssumption DEF Id
  <2>. QED  BY <2>1, <2>4 DEF Init, SendSide, ReceiveSide
<1>2. WireInv /\ [Next]_vars => [Lifecycle!LifecycleNext]_(Lifecycle!lifecycle)
  BY NextLifecycle
<1>. QED  BY <1>1, <1>2, WireInvHolds, PTL DEF Spec, Lifecycle!LifecycleSafety

---------------------------------------------------------------------------
(* The answers: while both sessions run, every open has an answer coming    *)
(* and no track is half open.  What is known of the wire is joined with the *)
(* order in which Open, Ready and Close of one track stand on it.           *)

Types == {"Open", "Ready", "Reject", "Close"}

(* A Ready that no Close overtakes, and an Open that none precedes. *)
ReadyFirst(q, id) ==
  \E k \in 1..Len(q) :
    q[k] = Sig("Ready", id) /\ \A j \in 1..(k-1) : q[j] # Sig("Close", id)

OpenFirst(q, id) ==
  \A j, k \in 1..Len(q) : q[j] = Sig("Close", id) /\ q[k] = Sig("Open", id) => k < j

Alive(p, id) == tracks[p][id] \in {"local", "ready"}

(* The life of a track p opened, from both ends. *)
AnswerAt(p, id) ==
  LET o == Other(p) IN
  /\ OpenFirst(Path(p), id)
  /\ Alive(p, id) => ~Has(Path(p), "Close", id)
  /\ tracks[o][id] = "remote" => ~Has(Path(o), "Close", id)
  /\ tracks[p][id] = "local" => Has(Path(p), "Open", id) \/ ReadyFirst(Path(o), id)
  /\ Alive(p, id) =>
       Has(Path(p), "Open", id) \/ tracks[o][id] = "remote" \/ Has(Path(o), "Close", id)
  /\ tracks[o][id] = "remote" => Alive(p, id) \/ Has(Path(p), "Close", id)
  /\ Has(Path(p), "Open", id) =>
       /\ ~Has(Path(o), "Close", id)
       /\ tracks[p][id] = "local" \/ Has(Path(p), "Close", id)
  /\ id >= nextId[p] => ~Has(Path(p), "Close", id) /\ ~Has(Path(o), "Close", id)

AnswerInv ==
  BothRunning => \A p \in Peer, id \in Id : Local(p, id) => AnswerAt(p, id)

(* What a step leaves on a path of one id: all, all but one signal type ... *)
KeepsBut(q, type, id) ==
  /\ \A t \in Types \ {type} : Has(Path(q)', t, id) <=> Has(Path(q), t, id)
  /\ Has(Path(q)', type, id) => Has(Path(q), type, id)
  /\ OpenFirst(Path(q), id) => OpenFirst(Path(q)', id)

Keeps(q, id) ==
  /\ \A t \in Types : Has(Path(q)', t, id) <=> Has(Path(q), t, id)
  /\ OpenFirst(Path(q), id) => OpenFirst(Path(q)', id)
  /\ ReadyFirst(Path(q), id) => ReadyFirst(Path(q)', id)

(* ... or all and one more. *)
Gains(q, type, id) ==
  /\ \A t \in Types : Has(Path(q)', t, id) <=> Has(Path(q), t, id) \/ t = type
  /\ OpenFirst(Path(q), id) /\ (type = "Open" => ~Has(Path(q), "Close", id))
       => OpenFirst(Path(q)', id)
  /\ ReadyFirst(Path(q), id) => ReadyFirst(Path(q)', id)
  /\ type = "Ready" /\ ~Has(Path(q), "Close", id) => ReadyFirst(Path(q)', id)

(* What a step of p that does not end its session does to one id. *)
Untouched(p, id) ==
  /\ tracks'[p][id] = tracks[p][id]
  /\ id # nextId[p] \/ nextId'[p] = nextId[p]
  /\ Keeps(p, id) /\ Keeps(Other(p), id)

Opened(p, id) ==
  /\ id = nextId[p] /\ nextId'[p] = nextId[p] + 2 /\ tracks'[p][id] = "local"
  /\ Gains(p, "Open", id) /\ Keeps(Other(p), id)

Admitted(p, id) ==
  /\ tracks'[p][id] = "remote" /\ nextId'[p] = nextId[p]
  /\ Has(Path(Other(p)), "Open", id) /\ ~Has(Path(Other(p))', "Open", id)
  /\ KeepsBut(Other(p), "Open", id) /\ Gains(p, "Ready", id)

Readied(p, id) ==
  /\ Alive(p, id) /\ tracks'[p][id] = "ready" /\ nextId'[p] = nextId[p]
  /\ Has(Path(Other(p)), "Ready", id)
  /\ Keeps(p, id) /\ KeepsBut(Other(p), "Ready", id)

ReadyIgnored(p, id) ==
  /\ tracks'[p][id] = tracks[p][id] /\ tracks[p][id] # "local" /\ nextId'[p] = nextId[p]
  /\ Keeps(p, id) /\ KeepsBut(Other(p), "Ready", id)

Closed(p, id) ==
  /\ tracks[p][id] # "none" /\ tracks'[p][id] = "none" /\ nextId'[p] = nextId[p]
  /\ Gains(p, "Close", id) /\ Keeps(Other(p), id)

PeerClosed(p, id) ==
  /\ tracks'[p][id] = "none" /\ nextId'[p] = nextId[p]
  /\ Has(Path(Other(p)), "Close", id)
  /\ OpenFirst(Path(Other(p)), id) => ~Has(Path(Other(p)), "Open", id)
  /\ Keeps(p, id) /\ KeepsBut(Other(p), "Close", id)

Happens(p, id) ==
  \/ Untouched(p, id) \/ Opened(p, id) \/ Admitted(p, id) \/ Readied(p, id)
  \/ ReadyIgnored(p, id) \/ Closed(p, id) \/ PeerClosed(p, id)

Happening(p) ==
  LET o == Other(p) IN
  /\ tracks'[o] = tracks[o] /\ nextId'[o] = nextId[o]
  /\ nextId'[p] \in {nextId[p], nextId[p] + 2}
  /\ \A id \in Id : Happens(p, id)

---------------------------------------------------------------------------
(* What its opener does to a track. *)
LEMMA OwnerAnswers ==
  ASSUME WireInv, WireInv', NEW p \in Peer, NEW id \in Id, Local(p, id), AnswerAt(p, id),
         Happening(p)
  PROVE  AnswerAt(p, id)'
<1>. DEFINE o == Other(p)
<1>1. /\ TypeOK /\ o \in Peer /\ Other(o) = p
      /\ tracks'[o] = tracks[o] /\ Happens(p, id)
  BY TwoPeers DEF WireInv, SessionInv, Happening
<1>2. WireAt(p, id) /\ WireAt(o, id) /\ ~Local(o, id)
  BY <1>1, TwoPeers DEF WireInv
<1>3. nextId[p] \in Int /\ nextId'[p] \in Int /\ id \in Int /\ nextId'[p] >= nextId[p]
  <2>1. nextId[p] \in Int /\ id \in Int
    BY <1>1, SizeAssumption DEF TypeOK, Id
  <2>. QED  BY <2>1 DEF Happening
<1>4. id >= nextId'[p] => id >= nextId[p] /\ (id # nextId[p] \/ nextId'[p] = nextId[p])
  BY <1>3 DEF Happening
<1>5. id >= nextId[p] => tracks[p][id] = "none" /\ tracks[o][id] = "none"
  BY <1>2 DEF WireAt, Unused
<1>6. /\ Has(Path(p), "Open", id) => tracks[o][id] = "none" /\ ~Has(Path(o), "Ready", id)
      /\ Has(Path(p)', "Open", id) => tracks'[o][id] = "none" /\ ~Has(Path(o)', "Ready", id)
      /\ ~Has(Path(o), "Open", id)
  BY <1>1, <1>2 DEF WireInv, WireAt, Unused
<1>. USE DEF AnswerAt, Alive, Types
<1>7. CASE Untouched(p, id)
  BY <1>1, <1>3, <1>7 DEF Untouched, Keeps
<1>8. CASE Opened(p, id)
  <2>1. id >= nextId[p] /\ ~(id >= nextId'[p])
    BY <1>3, <1>8 DEF Opened
  <2>. QED  BY <1>1, <1>5, <1>8, <2>1 DEF Opened, Keeps, Gains
<1>9. CASE Admitted(p, id)
  BY <1>6, <1>9 DEF Admitted
<1>10. CASE Readied(p, id)
  BY <1>1, <1>3, <1>5, <1>6, <1>10 DEF Readied, Keeps, KeepsBut
<1>11. CASE ReadyIgnored(p, id)
  BY <1>1, <1>3, <1>11 DEF ReadyIgnored, Keeps, KeepsBut
<1>12. CASE Closed(p, id)
  BY <1>1, <1>3, <1>5, <1>12 DEF Closed, Keeps, Gains
<1>13. CASE PeerClosed(p, id)
  BY <1>1, <1>3, <1>5, <1>13 DEF PeerClosed, Keeps, KeepsBut
<1>. QED
  BY <1>1, <1>7, <1>8, <1>9, <1>10, <1>11, <1>12, <1>13 DEF Happens

(* What the other side does to it. *)
LEMMA PeerAnswers ==
  ASSUME WireInv, WireInv', NEW p \in Peer, NEW id \in Id, Local(p, id), AnswerAt(p, id),
         Happening(Other(p))
  PROVE  AnswerAt(p, id)'
<1>. DEFINE o == Other(p)
<1>1. /\ TypeOK /\ o \in Peer /\ Other(o) = p
      /\ tracks'[p] = tracks[p] /\ nextId'[p] = nextId[p] /\ Happens(o, id)
  BY TwoPeers DEF WireInv, SessionInv, Happening
<1>2. WireAt(p, id) /\ WireAt(o, id) /\ ~Local(o, id) /\ Agree(o, id)
  BY <1>1, TwoPeers DEF WireInv, SessionInv, RoutesMatchEngine
<1>3. tracks[o][id] \in {"none", "remote"} /\ id # nextId[o]
  <2>1. tracks[o][id] \in {"none", "local", "ready", "remote"}
    BY <1>1 DEF TypeOK
  <2>2. Local(o, nextId[o])
    BY <1>1 DEF WireInv, SessionInv, NextIdLocal
  <2>. QED  BY <1>2, <2>1, <2>2 DEF Agree
<1>4. id >= nextId[p] =>
        tracks[o][id] = "none" /\ tracks[p][id] = "none" /\ ~Has(Path(p), "Open", id)
  <2>1. nextId[p] \in Int /\ id \in Int
    BY <1>1, SizeAssumption DEF TypeOK, Id
  <2>. QED  BY <1>2, <2>1 DEF WireAt, Unused
<1>5. Has(Path(p), "Open", id) => tracks[o][id] = "none" /\ ~Has(Path(o), "Ready", id)
  BY <1>1, <1>2 DEF WireAt, Unused
<1>. USE DEF AnswerAt, Alive, Types
<1>6. CASE Untouched(o, id)
  BY <1>1, <1>6 DEF Untouched, Keeps
<1>7. CASE Opened(o, id)
  BY <1>3, <1>7 DEF Opened
<1>8. CASE Admitted(o, id)
  BY <1>1, <1>4, <1>5, <1>8 DEF Admitted, KeepsBut, Gains
<1>9. CASE Readied(o, id)
  BY <1>3, <1>9 DEF Readied
<1>10. CASE ReadyIgnored(o, id)
  BY <1>1, <1>10 DEF ReadyIgnored, Keeps, KeepsBut
<1>11. CASE Closed(o, id)
  BY <1>1, <1>3, <1>4, <1>5, <1>11 DEF Closed, Keeps, Gains
<1>12. CASE PeerClosed(o, id)
  BY <1>1, <1>3, <1>12 DEF PeerClosed, Keeps, KeepsBut
<1>. QED
  BY <1>1, <1>6, <1>7, <1>8, <1>9, <1>10, <1>11, <1>12 DEF Happens

---------------------------------------------------------------------------
(* A signal at the head of a path, and what is behind it. *)
LEMMA HeadTaken ==
  ASSUME NEW q \in Seq(Signal), NEW m \in Signal, NEW r, r = <<m>> \o q, NEW i \in Id
  PROVE  /\ \A t \in Types : Has(r, t, i) <=> Has(q, t, i) \/ m = Sig(t, i)
         /\ OpenFirst(r, i) => OpenFirst(q, i)
         /\ OpenFirst(r, i) /\ m = Sig("Close", i) => ~Has(r, "Open", i)
         /\ ReadyFirst(r, i) /\ m # Sig("Ready", i) => ReadyFirst(q, i)
<1>1. /\ Len(q) \in Nat /\ Len(r) = 1 + Len(q)
      /\ \A k \in 1..(1 + Len(q)) : r[k] = IF k <= 1 THEN m ELSE q[k - 1]
  <2>1. <<m>> \in Seq(Signal) /\ Len(<<m>>) = 1 /\ <<m>>[1] = m
    OBVIOUS
  <2>2. /\ Len(q) \in Nat /\ Len(r) = 1 + Len(q)
        /\ \A k \in 1..(1 + Len(q)) : r[k] = IF k <= 1 THEN <<m>>[k] ELSE q[k - 1]
    BY <2>1, ConcatProperties, LenProperties
  <2>. QED  BY <2>1, <2>2
<1>2. /\ 1 \in 1..Len(r) /\ r[1] = m
      /\ \A k \in 1..Len(q) : k + 1 \in 1..Len(r) /\ r[k + 1] = q[k]
      /\ \A k \in 1..Len(r) : k # 1 => k - 1 \in 1..Len(q) /\ r[k] = q[k - 1]
  BY <1>1
<1>3. "Close" # "Open" /\ Sig("Close", i) # Sig("Open", i) /\ Sig("Close", i) # Sig("Ready", i)
  BY DEF Sig
<1>4. ASSUME NEW t \in Types
      PROVE  Has(r, t, i) <=> Has(q, t, i) \/ m = Sig(t, i)
  BY <1>2 DEF Has
<1>5. OpenFirst(r, i) => OpenFirst(q, i)
  <2>. SUFFICES ASSUME OpenFirst(r, i), NEW j \in 1..Len(q), NEW k \in 1..Len(q),
                       q[j] = Sig("Close", i), q[k] = Sig("Open", i)
                PROVE  k < j
    BY DEF OpenFirst
  <2>1. k + 1 < j + 1
    BY <1>2 DEF OpenFirst
  <2>. QED  BY <1>1, <2>1
<1>6. OpenFirst(r, i) /\ m = Sig("Close", i) => ~Has(r, "Open", i)
  <2>. SUFFICES ASSUME OpenFirst(r, i), m = Sig("Close", i), NEW k \in 1..Len(r),
                       r[k] = Sig("Open", i)
                PROVE  FALSE
    BY DEF Has
  <2>1. k < 1
    BY <1>2 DEF OpenFirst
  <2>. QED  BY <1>1, <2>1
<1>7. ReadyFirst(r, i) /\ m # Sig("Ready", i) => ReadyFirst(q, i)
  <2>. SUFFICES ASSUME m # Sig("Ready", i), NEW k \in 1..Len(r), r[k] = Sig("Ready", i),
                       \A j \in 1..(k - 1) : r[j] # Sig("Close", i)
                PROVE  ReadyFirst(q, i)
    BY DEF ReadyFirst
  <2>1. k # 1 /\ k - 1 \in 1..Len(q) /\ q[k - 1] = Sig("Ready", i)
    BY <1>2
  <2>2. ASSUME NEW j \in 1..((k - 1) - 1)
        PROVE  q[j] # Sig("Close", i)
    <3>1. j \in 1..Len(q) /\ j + 1 \in 1..(k - 1)
      BY <1>1, <2>1
    <3>. QED  BY <1>2, <3>1
  <2>. QED  BY <2>1, <2>2 DEF ReadyFirst
<1>. QED  BY <1>4, <1>5, <1>6, <1>7

(* A signal written behind a path. *)
LEMMA EndWritten ==
  ASSUME NEW q \in Seq(Signal), NEW type \in Types, NEW id \in Id, NEW i \in Id,
         NEW r, r = Append(q, Sig(type, id))
  PROVE  /\ \A t \in Types : Has(r, t, i) <=> Has(q, t, i) \/ (t = type /\ i = id)
         /\ OpenFirst(q, i) /\ (type = "Open" /\ i = id => ~Has(q, "Close", i))
              => OpenFirst(r, i)
         /\ ReadyFirst(q, i) => ReadyFirst(r, i)
         /\ type = "Ready" /\ i = id /\ ~Has(q, "Close", i) => ReadyFirst(r, i)
<1>1. Sig(type, id) \in Signal
  BY MessagesTyped DEF Types
<1>2. /\ Len(q) \in Nat /\ Len(r) = Len(q) + 1 /\ r[Len(q) + 1] = Sig(type, id)
      /\ \A k \in 1..Len(q) : r[k] = q[k]
  BY <1>1, AppendProperties, LenProperties
<1>3. \A k : k \in 1..Len(r) <=> k \in 1..Len(q) \/ k = Len(q) + 1
  BY <1>2
<1>4. \A t, u : Sig(t, u) = Sig(type, id) <=> t = type /\ u = id
  BY DEF Sig
<1>5. ASSUME NEW t \in Types
      PROVE  Has(r, t, i) <=> Has(q, t, i) \/ (t = type /\ i = id)
  BY <1>2, <1>3, <1>4 DEF Has
<1>6. ASSUME OpenFirst(q, i), type = "Open" /\ i = id => ~Has(q, "Close", i)
      PROVE  OpenFirst(r, i)
  <2>. SUFFICES ASSUME NEW j \in 1..Len(r), NEW k \in 1..Len(r),
                       r[j] = Sig("Close", i), r[k] = Sig("Open", i)
                PROVE  k < j
    BY DEF OpenFirst
  <2>1. CASE j \in 1..Len(q) /\ k \in 1..Len(q)
    BY <1>2, <1>6, <2>1 DEF OpenFirst
  <2>2. CASE j = Len(q) + 1 /\ k = Len(q) + 1
    BY <1>2, <1>4, <2>2
  <2>3. CASE j = Len(q) + 1 /\ k \in 1..Len(q)
    BY <1>2, <2>3
  <2>4. CASE k = Len(q) + 1 /\ j \in 1..Len(q)
    BY <1>2, <1>4, <1>6, <2>4 DEF Has
  <2>. QED  BY <1>3, <2>1, <2>2, <2>3, <2>4
<1>7. ReadyFirst(q, i) => ReadyFirst(r, i)
  <2>. SUFFICES ASSUME NEW k \in 1..Len(q), q[k] = Sig("Ready", i),
                       \A j \in 1..(k - 1) : q[j] # Sig("Close", i)
                PROVE  ReadyFirst(r, i)
    BY DEF ReadyFirst
  <2>1. \A j \in 1..(k - 1) : j \in 1..Len(q)
    BY <1>2
  <2>. QED  BY <1>2, <1>3, <2>1 DEF ReadyFirst
<1>8. ASSUME type = "Ready", i = id, ~Has(q, "Close", i)
      PROVE  ReadyFirst(r, i)
  <2>1. Len(q) + 1 \in 1..Len(r) /\ r[Len(q) + 1] = Sig("Ready", i)
    BY <1>2, <1>3, <1>8
  <2>2. (Len(q) + 1) - 1 = Len(q) /\ \A j \in 1..Len(q) : r[j] # Sig("Close", i)
    BY <1>2, <1>8 DEF Has
  <2>. QED  BY <2>1, <2>2 DEF ReadyFirst
<1>. QED  BY <1>5, <1>6, <1>7, <1>8

---------------------------------------------------------------------------
(* A path that did not change keeps what it says of every id. *)
LEMMA PathUnchanged ==
  ASSUME NEW q \in Peer, Path(q)' = Path(q)
  PROVE  \A i \in Id : Keeps(q, i)
  BY DEF Keeps

(* drive takes a signal: the path to it says the same of every other id. *)
LEMMA SignalTaken ==
  ASSUME TypeOK, TypeOK', NEW p \in Peer, signals[p] # <<>>,
         signals'[p] = Tail(signals[p]), tcp'[Other(p)] = tcp[Other(p)],
         NEW type \in Types, NEW id \in Id, Head(signals[p]) = Sig(type, id)
  PROVE  LET o == Other(p) IN
         /\ Has(Path(o), type, id) /\ KeepsBut(o, type, id)
         /\ \A i \in Id : i # id => Keeps(o, i)
         /\ type = "Close" /\ OpenFirst(Path(o), id) => ~Has(Path(o), "Open", id)
<1>. DEFINE o == Other(p)
<1>. DEFINE m == Sig(type, id)
<1>1. o \in Peer /\ Other(o) = p
  BY TwoPeers
<1>2. /\ signals[p] \in Seq(Signal) /\ tcp[o] \in Seq(Signal) /\ Tail(signals[p]) \in Seq(Signal)
      /\ m \in Signal /\ <<m>> \in Seq(Signal)
  BY <1>1, HeadTailProperties, MessagesTyped, SMTT(30) DEF TypeOK, Types
<1>3. signals[p] = <<m>> \o Tail(signals[p])
  BY <1>2, HeadThenTail
<1>4. Path(o)' = Tail(signals[p]) \o tcp[o] /\ Path(o)' \in Seq(Signal)
  BY <1>1, <1>2, ConcatProperties DEF Path
<1>5. Path(o) = <<m>> \o Path(o)'
  <2>. DEFINE h == Tail(signals[p])
  <2>. DEFINE t == tcp[o]
  <2>1. Path(o) = (<<m>> \o h) \o t /\ Path(o)' = h \o t
    BY <1>1, <1>3, <1>4 DEF Path
  <2>2. h \in Seq(Signal) /\ t \in Seq(Signal) /\ <<m>> \in Seq(Signal)
    BY <1>2
  <2>. HIDE DEF h, t, m
  <2>3. (<<m>> \o h) \o t = <<m>> \o (h \o t)
    BY <2>2, ConcatAssociative
  <2>. QED  BY <2>1, <2>3
<1>6. \A i \in Id :
        /\ \A t \in Types : Has(Path(o), t, i) <=> Has(Path(o)', t, i) \/ m = Sig(t, i)
        /\ OpenFirst(Path(o), i) => OpenFirst(Path(o)', i)
        /\ OpenFirst(Path(o), i) /\ m = Sig("Close", i) => ~Has(Path(o), "Open", i)
        /\ ReadyFirst(Path(o), i) /\ m # Sig("Ready", i) => ReadyFirst(Path(o)', i)
  BY <1>2, <1>4, <1>5, HeadTaken
<1>7. \A t, i : Sig(t, i) = m <=> t = type /\ i = id
  BY DEF Sig
<1>. HIDE DEF m
<1>. QED  BY <1>6, <1>7 DEF KeepsBut, Keeps, Types

(* drive writes a signal: it is news of one id only. *)
LEMMA SignalWritten ==
  ASSUME TypeOK, TypeOK', NEW p \in Peer, signals'[Other(p)] = signals[Other(p)],
         NEW type \in Types, NEW id \in Id, tcp'[p] = Append(tcp[p], Sig(type, id))
  PROVE  Gains(p, type, id) /\ \A i \in Id : i # id => Keeps(p, i)
<1>. DEFINE s == signals[Other(p)]
<1>. DEFINE t == tcp[p]
<1>. DEFINE m == Sig(type, id)
<1>1. s \in Seq(Signal) /\ t \in Seq(Signal) /\ m \in Signal /\ Path(p) \in Seq(Signal)
  BY PathParts, MessagesTyped DEF Types
<1>2. Path(p) = s \o t /\ Path(p)' = s \o Append(t, m)
  BY DEF Path
<1>. HIDE DEF s, t
<1>3. Path(p)' = Append(Path(p), m)
  <2>. HIDE DEF m
  <2>1. Append(t, m) = t \o <<m>> /\ <<m>> \in Seq(Signal)
    BY <1>1, AppendIsConcat
  <2>2. s \o (t \o <<m>>) = (s \o t) \o <<m>>
    BY <1>1, <2>1, ConcatAssociative
  <2>3. s \o t \in Seq(Signal)
    BY <1>1, ConcatProperties
  <2>. DEFINE u == s \o t
  <2>4. u \in Seq(Signal) /\ Path(p) = u /\ Path(p)' = u \o <<m>>
    BY <1>2, <2>1, <2>2, <2>3
  <2>. HIDE DEF u
  <2>. QED  BY <1>1, <2>4, AppendIsConcat
<1>5. \A i \in Id :
        /\ \A u \in Types : Has(Path(p)', u, i) <=> Has(Path(p), u, i) \/ (u = type /\ i = id)
        /\ OpenFirst(Path(p), i) /\ (type = "Open" /\ i = id => ~Has(Path(p), "Close", i))
             => OpenFirst(Path(p)', i)
        /\ ReadyFirst(Path(p), i) => ReadyFirst(Path(p)', i)
        /\ type = "Ready" /\ i = id /\ ~Has(Path(p), "Close", i) => ReadyFirst(Path(p)', i)
  BY <1>1, <1>3, EndWritten
<1>. QED  BY <1>5 DEF Gains, Keeps

---------------------------------------------------------------------------
(* A step that leaves the tracks and the paths alone. *)
LEMMA NothingHappens ==
  ASSUME NEW p \in Peer, UNCHANGED <<tracks, nextId>>, \A q \in Peer : Path(q)' = Path(q)
  PROVE  Happening(p)
<1>1. Other(p) \in Peer
  BY TwoPeers
<1>2. \A q \in Peer, i \in Id : Keeps(q, i)
  BY PathUnchanged
<1>. QED  BY <1>1, <1>2 DEF Happening, Happens, Untouched

(* A track p had ends, and p says so. *)
LEMMA ClosingHappens ==
  ASSUME TypeOK, TypeOK', NEW p \in Peer, NEW id \in Id, tracks[p][id] # "none",
         SetTrack(p, id, "none"), Write(p, "Close", id), UNCHANGED <<nextId, signals>>
  PROVE  Happening(p)
<1>1. Other(p) \in Peer /\ Other(p) # p /\ Other(Other(p)) = p
  BY TwoPeers
<1>2. /\ tracks'[Other(p)] = tracks[Other(p)] /\ tracks'[p][id] = "none"
      /\ \A i \in Id : i # id => tracks'[p][i] = tracks[p][i]
      /\ tcp'[p] = Append(tcp[p], Sig("Close", id)) /\ tcp'[Other(p)] = tcp[Other(p)]
  BY <1>1 DEF TypeOK, SetTrack, Write
<1>3. Gains(p, "Close", id) /\ \A i \in Id : i # id => Keeps(p, i)
  <2>1. "Close" \in Types
    BY DEF Types
  <2>. QED  BY <1>2, <2>1, SignalWritten
<1>4. \A i \in Id : Keeps(Other(p), i)
  BY <1>1, <1>2, SamePath, PathUnchanged
<1>5. Closed(p, id) /\ \A i \in Id : i # id => Untouched(p, i)
  BY <1>2, <1>3, <1>4 DEF Closed, Untouched
<1>. QED  BY <1>2, <1>5 DEF Happening, Happens

(* drive announces a track. *)
LEMMA OpeningHappens ==
  ASSUME WireInv, TypeOK', NEW p \in Peer, HandleOpen(p)
  PROVE  Happening(p)
<1>. DEFINE id == nextId[p]
<1>1. /\ TypeOK /\ Local(p, id) /\ Other(p) \in Peer /\ Other(p) # p
      /\ Other(Other(p)) = p
  BY TwoPeers DEF WireInv, SessionInv, NextIdLocal
<1>2. id \in Id /\ id >= nextId[p]
  BY <1>1 DEF HandleOpen, TypeOK, Id
<1>3. tracks[p][id] = "none"
  BY <1>1, <1>2 DEF WireInv, WireAt
<1>4. /\ nextId' = [nextId EXCEPT ![p] = @ + 2] /\ SetTrack(p, id, "local")
      /\ Write(p, "Open", id) /\ UNCHANGED signals
  BY <1>3 DEF HandleOpen
<1>5. /\ nextId'[p] = nextId[p] + 2 /\ nextId'[Other(p)] = nextId[Other(p)]
      /\ tracks'[p][id] = "local" /\ tracks'[Other(p)] = tracks[Other(p)]
      /\ \A i \in Id : i # id => tracks'[p][i] = tracks[p][i]
      /\ tcp'[p] = Append(tcp[p], Sig("Open", id)) /\ tcp'[Other(p)] = tcp[Other(p)]
  BY <1>1, <1>2, <1>4 DEF TypeOK, SetTrack, Write
<1>6. Gains(p, "Open", id) /\ \A i \in Id : i # id => Keeps(p, i)
  <2>1. "Open" \in Types
    BY DEF Types
  <2>. QED  BY <1>1, <1>2, <1>4, <1>5, <2>1, SignalWritten
<1>7. \A i \in Id : Keeps(Other(p), i)
  BY <1>1, <1>4, <1>5, SamePath, PathUnchanged
<1>8. Opened(p, id) /\ \A i \in Id : i # id => Untouched(p, i)
  BY <1>2, <1>5, <1>6, <1>7 DEF Opened, Untouched
<1>. QED  BY <1>5, <1>8 DEF Happening, Happens

(* A command. *)
LEMMA CommandHappens ==
  ASSUME WireInv, TypeOK', NEW p \in Peer, DriveCommand(p)
  PROVE  Happening(p)
<1>1. TypeOK
  BY DEF WireInv, SessionInv
<1>2. CASE UNCHANGED <<tracks, nextId, signals, tcp>>
  BY <1>2, NothingHappens DEF Path
<1>3. CASE HandleOpenExhausted(p) \/ HandleFrame(p)
  BY <1>2, <1>3 DEF HandleOpenExhausted, HandleFrame, driveVars
<1>4. CASE HandleClose(p)
  <2>1. PICK id \in Id : id = Head(commands[p]).id
    BY <1>1, <1>4, ChannelsTyped DEF HandleClose, HasCommand, Command
  <2>2. /\ SetTrack(p, id, "none") /\ UNCHANGED <<nextId, signals>>
        /\ IF tracks[p][id] = "none" THEN UNCHANGED tcp ELSE Write(p, "Close", id)
    BY <1>4, <2>1 DEF HandleClose
  <2>3. CASE tracks[p][id] = "none"
    <3>1. tracks' = tracks
      BY <1>1, <2>2, <2>3 DEF TypeOK, SetTrack
    <3>. QED  BY <1>2, <2>2, <2>3, <3>1
  <2>. QED  BY <1>1, <2>2, <2>3, ClosingHappens
<1>. QED  BY <1>3, <1>4, OpeningHappens DEF DriveCommand

(* An Open admitted: no other can follow it, and Ready is on its way back. *)
LEMMA AdmittingHappens ==
  ASSUME WireInv, TypeOK', NEW p \in Peer, AdmitOpen(p)
  PROVE  Happening(p)
<1>. DEFINE o == Other(p)
<1>1. TypeOK /\ o \in Peer /\ o # p /\ Other(o) = p
  BY TwoPeers DEF WireInv, SessionInv
<1>2. PICK id \in Id : id = Head(signals[p]).id
  BY <1>1, ChannelsTyped DEF AdmitOpen, HasSignal, Signal
<1>3. signals[p] # <<>> /\ Head(signals[p]) = Sig("Open", id)
  BY <1>1, <1>2, ChannelsTyped DEF AdmitOpen, HasSignal, Signal, Sig
<1>4. /\ SetTrack(p, id, "remote") /\ Write(p, "Ready", id) /\ TakeSignal(p) /\ nextId' = nextId
  BY <1>2 DEF AdmitOpen
<1>5. /\ tracks'[o] = tracks[o] /\ tracks'[p][id] = "remote"
      /\ \A i \in Id : i # id => tracks'[p][i] = tracks[p][i]
      /\ signals'[p] = Tail(signals[p]) /\ signals'[o] = signals[o]
      /\ tcp'[p] = Append(tcp[p], Sig("Ready", id)) /\ tcp'[o] = tcp[o]
  BY <1>1, <1>4 DEF TypeOK, SetTrack, Write, TakeSignal
<1>6. "Open" \in Types /\ "Ready" \in Types
  BY DEF Types
<1>7. Gains(p, "Ready", id) /\ \A i \in Id : i # id => Keeps(p, i)
  BY <1>1, <1>5, <1>6, SignalWritten
<1>8. Has(Path(o), "Open", id) /\ KeepsBut(o, "Open", id) /\ \A i \in Id : i # id => Keeps(o, i)
  BY <1>1, <1>3, <1>5, <1>6, SignalTaken
<1>9. ~Has(Path(o)', "Open", id)
  <2>1. OpenOnce(Path(o), id)
    BY <1>1 DEF WireInv, WireAt
  <2>2. signals'[p] # signals[p]
    BY <1>1, <1>3, <1>5, TailDiffers DEF TypeOK
  <2>. QED  BY <1>1, <1>3, <1>5, <2>1, <2>2, ShorterHas
<1>10. Admitted(p, id) /\ \A i \in Id : i # id => Untouched(p, i)
  BY <1>4, <1>5, <1>7, <1>8, <1>9 DEF Admitted, Untouched
<1>. QED  BY <1>4, <1>5, <1>10 DEF Happening, Happens

(* A Ready or a Close: only the id it names is concerned. *)
LEMMA HearingHappens ==
  ASSUME WireInv, TypeOK', NEW p \in Peer,
         HandleReady(p) \/ IgnoreReady(p) \/ HandlePeerClose(p)
  PROVE  Happening(p)
<1>. DEFINE o == Other(p)
<1>1. TypeOK /\ RoutesMatchEngine /\ o \in Peer /\ o # p /\ Other(o) = p
  BY TwoPeers DEF WireInv, SessionInv
<1>2. PICK type \in {"Ready", "Close"} :
        /\ signals[p] # <<>> /\ Head(signals[p]).type = type
        /\ type = "Ready" <=> HandleReady(p) \/ IgnoreReady(p)
        /\ type = "Close" <=> HandlePeerClose(p)
  BY DEF HandleReady, IgnoreReady, HandlePeerClose, HasSignal
<1>3. PICK id \in Id : id = Head(signals[p]).id
  BY <1>1, <1>2, ChannelsTyped DEF Signal
<1>4. Head(signals[p]) = Sig(type, id) /\ type \in Types
  BY <1>1, <1>2, <1>3, ChannelsTyped DEF Signal, Sig, Types
<1>5. /\ TakeSignal(p) /\ UNCHANGED <<nextId, tcp>>
      /\ \/ type = "Ready" /\ SetTrack(p, id, "ready") /\ Alive(p, id)
         \/ type = "Ready" /\ UNCHANGED tracks /\ tracks[p][id] # "local"
         \/ type = "Close" /\ SetTrack(p, id, "none")
  <2>1. CASE HandleReady(p)
    BY <1>2, <1>3, <2>1 DEF HandleReady, Alive
  <2>2. CASE IgnoreReady(p)
    <3>1. Agree(p, id)
      BY <1>1 DEF RoutesMatchEngine
    <3>. QED  BY <1>2, <1>3, <2>2, <3>1 DEF IgnoreReady, Agree
  <2>3. CASE HandlePeerClose(p)
    BY <1>2, <1>3, <2>3 DEF HandlePeerClose
  <2>. QED  BY <2>1, <2>2, <2>3
<1>6. /\ tracks'[o] = tracks[o]
      /\ \A i \in Id : i # id => tracks'[p][i] = tracks[p][i]
      /\ signals'[p] = Tail(signals[p]) /\ signals'[o] = signals[o]
      /\ \/ type = "Ready" /\ tracks'[p][id] = "ready" /\ Alive(p, id)
         \/ type = "Ready" /\ tracks'[p][id] = tracks[p][id] /\ tracks[p][id] # "local"
         \/ type = "Close" /\ tracks'[p][id] = "none"
  BY <1>1, <1>5 DEF TypeOK, SetTrack, TakeSignal
<1>7. \A i \in Id : Keeps(p, i)
  BY <1>5, <1>6, SamePath, PathUnchanged
<1>8. /\ Has(Path(o), type, id) /\ KeepsBut(o, type, id)
      /\ \A i \in Id : i # id => Keeps(o, i)
      /\ type = "Close" /\ OpenFirst(Path(o), id) => ~Has(Path(o), "Open", id)
  BY <1>1, <1>2, <1>4, <1>5, <1>6, SignalTaken
<1>9. \A i \in Id : i # id => Untouched(p, i)
  BY <1>5, <1>6, <1>7, <1>8 DEF Untouched
<1>10. Readied(p, id) \/ ReadyIgnored(p, id) \/ PeerClosed(p, id)
  BY <1>5, <1>6, <1>7, <1>8 DEF Readied, ReadyIgnored, PeerClosed
<1>. QED  BY <1>5, <1>6, <1>9, <1>10 DEF Happening, Happens

(* No Reject is there to be handled. *)
LEMMA NothingRejected ==
  ASSUME WireInv, NEW p \in Peer, HandleReject(p)
  PROVE  FALSE
<1>1. TypeOK /\ Other(p) \in Peer
  BY TwoPeers DEF WireInv, SessionInv
<1>2. PICK id \in Id : id = Head(signals[p]).id
  BY <1>1, ChannelsTyped DEF HandleReject, HasSignal, Signal
<1>3. signals[p] # <<>> /\ Head(signals[p]) = Sig("Reject", id)
  BY <1>1, <1>2, ChannelsTyped DEF HandleReject, HasSignal, Signal, Sig
<1>4. Has(Path(Other(p)), "Reject", id)
  BY <1>1, <1>3, HeadOfPath
<1>. QED  BY <1>1, <1>4 DEF WireInv, WireAt

(* A step of one session that does not end it. *)
LEMMA StepHappens ==
  ASSUME WireInv, TypeOK', NEW p \in Peer, Step(p), ~Return(p)
  PROVE  Happening(p)
<1>1. TypeOK
  BY DEF WireInv, SessionInv
<1>2. CASE Application(p) \/ DropUnaccepted(p)
  <2>1. UNCHANGED <<tracks, nextId, signals, tcp>>
    BY <1>2 DEF Application, Open, CancelQueuedOpen, CancelPendingOpen, SendFrame, CloseTrack,
         Accept, DropSendTrack, DropRecvTrack, DropSession, DropUnaccepted, driveVars
  <2>. QED  BY <2>1, NothingHappens DEF Path
<1>3. CASE DriveSignal(p)
  BY <1>3, NothingToRefuse, NothingRejected, AdmittingHappens, HearingHappens
     DEF DriveSignal, AdmitOpenOrphan, HandleReadyOrphan
<1>4. CASE ExpireOpen(p)
  <2>1. PICK id \in Id :
          /\ opening[p][id] # "none"
          /\ SetTrack(p, id, "none") /\ Write(p, "Close", id) /\ UNCHANGED <<nextId, signals>>
    BY <1>1, <1>4, ExpiredTyped DEF ExpireOpen
  <2>2. tracks[p][id] # "none"
    BY <2>1 DEF WireInv, SessionInv, RoutesMatchEngine, Agree
  <2>. QED  BY <1>1, <2>1, <2>2, ClosingHappens
<1>5. CASE CollectExpired(p)
  BY <1>5, NothingHappens DEF CollectExpired, Path
<1>. QED
  BY <1>2, <1>3, <1>4, <1>5, CommandHappens DEF Step, SendersGone, Fail

(* Sessions only ever end. *)
LEMMA StepRuns ==
  ASSUME NEW p \in Peer, Step(p)
  PROVE  Return(p) \/ running' = running
  BY DEF Step, Application, Open, CancelQueuedOpen, CancelPendingOpen, SendFrame,
         CloseTrack, Accept, DropSendTrack, DropRecvTrack, DropSession, DropUnaccepted,
         DriveCommand, HandleOpenExhausted, HandleOpen, HandleClose, HandleFrame,
         DriveSignal, RefuseOpen, AdmitOpen, AdmitOpenOrphan, HandleReady,
         HandleReadyOrphan, IgnoreReady, HandleReject, HandlePeerClose, CollectExpired, ExpireOpen,
         SendersGone, Fail, driveVars

(* While both sessions run, every step is one that Happening describes. *)
LEMMA NextHappens ==
  ASSUME WireInv, TypeOK', Next, BothRunning'
  PROVE  BothRunning /\ \E p \in Peer : Happening(p)
<1>1. TypeOK
  BY DEF WireInv, SessionInv
<1>2. ASSUME NEW p \in Peer, Return(p)
      PROVE  FALSE
  BY <1>1, <1>2 DEF Return, BothRunning, TypeOK
<1>3. ASSUME NEW p \in Peer, Step(p)
      PROVE  BothRunning /\ Happening(p)
  BY <1>2, <1>3, StepRuns, StepHappens DEF BothRunning
<1>4. ASSUME NEW p \in Peer, ReadSignal(p)
      PROVE  BothRunning /\ Happening(p)
  <2>1. UNCHANGED <<tracks, nextId, running>> /\ \A q \in Peer : Path(q)' = Path(q)
    BY <1>1, <1>4, ReadKeepsPaths
  <2>. QED  BY <2>1, NothingHappens DEF BothRunning
<1>5. ASSUME NEW p \in Peer, ConnectionClosed(p) \/ ConnectionBroken(p)
      PROVE  FALSE
  BY <1>2, <1>5 DEF ConnectionClosed, ConnectionBroken, BothRunning, driveVars
<1>. QED  BY <1>3, <1>4, <1>5 DEF Next

(* The answers stay on their way. *)
LEMMA NextAnswers ==
  ASSUME WireInv, AnswerInv, [Next]_vars
  PROVE  AnswerInv'
<1>1. WireInv' /\ TypeOK'
  BY NextWire DEF WireInv, SessionInv
<1>2. CASE Next
  <2>. SUFFICES ASSUME BothRunning', NEW q \in Peer, NEW id \in Id, Local(q, id)
                PROVE  AnswerAt(q, id)'
    BY DEF AnswerInv, Local
  <2>1. BothRunning /\ \E p \in Peer : Happening(p)
    BY <1>1, <1>2, NextHappens
  <2>2. PICK p \in Peer : Happening(p)
    BY <2>1
  <2>3. AnswerAt(q, id)
    BY <2>1 DEF AnswerInv
  <2>4. p = q \/ p = Other(q)
    BY TwoPeers
  <2>. QED  BY <1>1, <2>2, <2>3, <2>4, OwnerAnswers, PeerAnswers
<1>3. CASE UNCHANGED vars
  <2>1. UNCHANGED <<tracks, nextId, running, signals, tcp>>
    BY <1>3 DEF vars, driveVars
  <2>2. \A q \in Peer : Path(q)' = Path(q)
    BY <2>1 DEF Path
  <2>3. ASSUME BothRunning', NEW q \in Peer, NEW id \in Id, Local(q, id)
        PROVE  AnswerAt(q, id)'
    <3>1. AnswerAt(q, id) /\ Other(q) \in Peer
      BY <2>1, <2>3, TwoPeers DEF AnswerInv, BothRunning
    <3>. QED  BY <2>1, <2>2, <3>1 DEF AnswerAt, Alive
  <2>. QED  BY <2>3 DEF AnswerInv, Local
<1>. QED  BY <1>2, <1>3

(* Fresh sessions have nothing to answer. *)
LEMMA InitAnswers == Init => AnswerInv
<1>. SUFFICES ASSUME Init, NEW p \in Peer, NEW id \in Id
              PROVE  AnswerAt(p, id)
  BY DEF AnswerInv
<1>1. \A q \in Peer : Len(Path(q)) = 0
  <2>1. \A q \in Peer : Path(q) = <<>> \o <<>> /\ <<>> \in Seq(Signal)
    BY TwoPeers, EmptySeq DEF Init, Path
  <2>. QED  BY <2>1, ConcatEmptySeq
<1>2. Other(p) \in Peer
  BY TwoPeers
<1>3. \A q \in Peer : Path(q) = <<>> => OpenFirst(Path(q), id)
  BY DEF OpenFirst
<1>. QED  BY <1>1, <1>2 DEF Init, AnswerAt, Alive, Has, OpenFirst

(* The inductive invariant of two sessions that run. *)
THEOREM AnswerInvHolds == Spec => [](WireInv /\ AnswerInv)
<1>1. WireInv /\ AnswerInv /\ [Next]_vars => WireInv' /\ AnswerInv'
  BY NextWire, NextAnswers
<1>. QED  BY InitWire, InitAnswers, <1>1, PTL DEF Spec

(* A track that sends has a receiver and a receiver has a sender, or the    *)
(* Close that ends the track, or the Ready that begins it, is on its way.   *)
THEOREM NoHalfOpenTrackCorrect == Spec => []NoHalfOpenTrack
<1>1. WireInv /\ AnswerInv => NoHalfOpenTrack
  <2>. SUFFICES ASSUME WireInv, AnswerInv, BothRunning, NEW p \in Peer, NEW id \in Id
                PROVE  /\ tracks[p][id] = "ready" =>
                            tracks[Other(p)][id] = "remote" \/ InPath(Other(p), "Close", id)
                       /\ tracks[p][id] = "remote" =>
                            \/ tracks[Other(p)][id] = "ready"
                            \/ tracks[Other(p)][id] = "local" /\ InPath(p, "Ready", id)
                            \/ InPath(Other(p), "Close", id)
    BY DEF NoHalfOpenTrack
  <2>. DEFINE o == Other(p)
  <2>1. /\ o \in Peer /\ Other(o) = p /\ Agree(p, id) /\ WireAt(p, id) /\ WireAt(o, id)
        /\ Local(p, id) <=> ~Local(o, id)
    BY TwoPeers DEF WireInv, SessionInv, RoutesMatchEngine
  <2>2. CASE tracks[p][id] = "ready"
    <3>1. Local(p, id) /\ AnswerAt(p, id)
      BY <2>1, <2>2 DEF Agree, AnswerInv
    <3>. QED  BY <2>1, <2>2, <3>1 DEF AnswerAt, Alive, WireAt, Unused, InPath, Has
  <2>3. CASE tracks[p][id] = "remote"
    <3>1. Local(o, id) /\ AnswerAt(o, id)
      BY <2>1, <2>3 DEF Agree, AnswerInv
    <3>2. ~Has(Path(o), "Open", id) /\ (ReadyFirst(Path(p), id) => Has(Path(p), "Ready", id))
      BY <2>1, <2>3 DEF WireAt, Unused, ReadyFirst, Has
    <3>. QED  BY <2>1, <2>3, <3>1, <3>2 DEF AnswerAt, Alive, InPath, Has
  <2>. QED  BY <2>2, <2>3
<1>. QED  BY AnswerInvHolds, <1>1, PTL

(* An open that waits has its Open on the way, or the Ready that answers it *)
(* with no Close before: it times out only because the answer is late.      *)
THEOREM OpenIsAnsweredCorrect == Spec => []OpenIsAnswered
<1>1. WireInv /\ AnswerInv => OpenIsAnswered
  <2>. SUFFICES ASSUME WireInv, AnswerInv, BothRunning, NEW p \in Peer, NEW id \in Id,
                       tracks[p][id] = "local"
                PROVE  \/ InPath(p, "Open", id) /\ ~InPath(Other(p), "Ready", id)
                                                /\ ~InPath(Other(p), "Close", id)
                       \/ \E k \in 1..Len(Path(Other(p))) :
                            /\ Path(Other(p))[k] = Sig("Ready", id)
                            /\ ~InPath(p, "Open", id)
                            /\ \A j \in 1..(k-1) : Path(Other(p))[j] # Sig("Close", id)
    BY DEF OpenIsAnswered
  <2>1. Agree(p, id) /\ WireAt(p, id)
    BY DEF WireInv, SessionInv, RoutesMatchEngine
  <2>2. AnswerAt(p, id)
    BY <2>1 DEF Agree, AnswerInv
  <2>3. CASE Has(Path(p), "Open", id)
    BY <2>1, <2>2, <2>3 DEF AnswerAt, WireAt, Unused, InPath, Has
  <2>4. CASE ~Has(Path(p), "Open", id)
    <3>1. ReadyFirst(Path(Other(p)), id)
      BY <2>2, <2>4 DEF AnswerAt
    <3>. QED  BY <2>4, <3>1 DEF ReadyFirst, InPath, Has
  <2>. QED  BY <2>3, <2>4
<1>. QED  BY AnswerInvHolds, <1>1, PTL
================================================================================
