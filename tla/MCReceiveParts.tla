--------------------------- MODULE MCReceiveParts ---------------------------
(***************************************************************************)
(* Four parts of a receiver, one at a time: the cipher with its handshake, *)
(* the inbox of a track, the NACK requester and the parity repair.  They   *)
(* share no variable, so nothing is lost by leaving the others where they  *)
(* start.                                                                  *)
(***************************************************************************)
EXTENDS SecureSession, FrameInbox

CONSTANTS
  Space, MaxList, MaxAge, MaxRetries, Lifetime, Delay, Interval, Rtts, MaskBits,
  BlockSize, FecRates, Capacity, FecSpace, Protected, MaxPushes

VARIABLES
  part,
  newest, pending, rtt, sinceNack, nacks, top, holes,
  fecRate, block, pushes, rows, flushed, media, fec, known

Nacks  == INSTANCE Nack
Parity == INSTANCE Fec

ASSUME PartsAssumption ==
  Nacks!NackAssumption /\ Parity!FecAssumption

nackState   == <<newest, pending, rtt, sinceNack, nacks, top, holes>>
parityState == <<fecRate, block, pushes, rows, flushed, media, fec, known>>
partsVars   == <<part, secureVars, vars, nackState, parityState>>

OnlyCipher == part = "cipher" /\ UNCHANGED <<part, vars, nackState, parityState>>
OnlyInbox  == part = "inbox" /\ UNCHANGED <<part, secureVars, nackState, parityState>>
OnlyNack   == part = "nack" /\ UNCHANGED <<part, secureVars, vars, parityState>>
OnlyParity == part = "parity" /\ UNCHANGED <<part, secureVars, vars, nackState>>

(* The parts that are not under check start in one way only. *)
PartsInit ==
  /\ part \in {"cipher", "inbox", "nack", "parity"}
  /\ SecureInit /\ Init /\ Nacks!Init /\ Parity!FecInit
  /\ part # "cipher" => encrypt = [s \in Sides |-> TRUE]
  /\ part # "nack" => \A r \in Rtts : rtt <= r
  /\ part # "parity" => \A r \in FecRates : fecRate <= r

PartsNext ==
  \/ OnlyCipher /\ Dial
  \/ OnlyCipher /\ Answer
  \/ OnlyCipher /\ Conclude
  \/ OnlyCipher /\ \E s \in Sides : ReadClosed(s)
  \/ OnlyCipher /\ \E s \in Sides : Fail(s)
  \/ OnlyCipher /\ \E s \in Sides : SealFrame(s)
  \/ OnlyCipher /\ \E s \in Sides : OpenFrame(s)
  \/ OnlyInbox /\ Push
  \/ OnlyInbox /\ NotifyOne
  \/ OnlyInbox /\ Close
  \/ OnlyInbox /\ NotifyWaiters
  \/ OnlyInbox /\ \E r \in Receiver : Call(r)
  \/ OnlyInbox /\ \E r \in Receiver : Pop(r)
  \/ OnlyInbox /\ \E r \in Receiver : CheckClosed(r)
  \/ OnlyInbox /\ \E r \in Receiver : Poll(r)
  \/ OnlyInbox /\ \E r \in Receiver : Resume(r)
  \/ OnlyInbox /\ \E r \in Receiver : Cancel(r)
  \/ OnlyNack /\ Nacks!First
  \/ OnlyNack /\ Nacks!Ahead
  \/ OnlyNack /\ Nacks!Behind
  \/ OnlyNack /\ Nacks!PollNacks
  \/ OnlyNack /\ Nacks!SetRtt
  \/ OnlyNack /\ Nacks!Pass
  \/ OnlyParity /\ Parity!Push
  \/ OnlyParity /\ Parity!Flush
  \/ OnlyParity /\ Parity!SetParams
  \/ OnlyParity /\ Parity!InsertMedia
  \/ OnlyParity /\ Parity!InsertFec

PartsSpec == PartsInit /\ [][PartsNext]_partsVars

(* The fairness of each module, on the steps of the part under check. *)
PartsFairSpec ==
  /\ PartsSpec
  /\ WF_partsVars(OnlyCipher /\ Handshake)
  /\ WF_partsVars(OnlyInbox /\ NotifyOne)
  /\ WF_partsVars(OnlyInbox /\ NotifyWaiters)
  /\ \A r \in Receiver : WF_partsVars(OnlyInbox /\ RecvNext(r))

---------------------------------------------------------------------------
(* Each part keeps its state typed: the inbox, the table of missing numbers *)
(* and the stores of the parity repair stay within their capacity.          *)
ReceiveTypeOK ==
  /\ part = "inbox" => TypeOK
  /\ part = "nack" => Nacks!TypeOK
  /\ part = "parity" => Parity!FecTypeOK
  /\ part = "cipher" => \A s \in Sides : CipherType(cipher[s])

(* A handshake that is under way ends on both sides. *)
EveryHandshakeEnds == part = "cipher" => HandshakeEnds

(* The requester knows what is missing. *)
ListIsExact == Nacks!ListIsExact

(* Requests for one packet are a round trip apart and end. *)
RequestsSpaced == Nacks!RequestsSpaced

(* The NACK packets name what the table marked, each number once. *)
RequestsExact == Nacks!RequestsExact

(* A flush protects every datagram of its block. *)
BlockProtected == Parity!BlockProtected

(* No row is left with one loss that it could repair. *)
RepairedAtOnce == Parity!RepairedAtOnce
=============================================================================
