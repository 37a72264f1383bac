--------------------------- MODULE SecureSession ---------------------------
(***************************************************************************)
(* complete_handshake (src/signal.rs) between a dialer and a listener, and *)
(* what their session tasks then do with Cipher: every frame of every      *)
(* track is sealed with one counter, and whatever the engine reassembles,  *)
(* in any order and any number of times, is opened through one window.     *)
(* Either side may have been set up with or without encryption; TLS, which *)
(* already refuses most mismatches, is external.                           *)
(***************************************************************************)
EXTENDS Cipher, Sequences

CONSTANTS
  Keys,        \* what random_key may return
  NoKey,       \* a Hello without a key
  MaxSeals     \* bound: frames a side seals

ASSUME SecureAssumption == NoKey \notin Keys /\ MaxSeals \in Nat

Sides == {"Dialer", "Listener"}
Peer(s) == IF s = "Dialer" THEN "Listener" ELSE "Dialer"

VARIABLES
  encrypt,     \* per side: bind_tls or connect_tls
  stage,       \* per side: Start, Wait, Plain, Sealed, Failed
  localKey,    \* the key in the dialer's Hello
  hello,       \* per side: Hellos written and not yet read by the peer
  cipher,      \* per side: the cipher, in use when the stage is Sealed
  sealed,      \* per side: frames it was given to seal
  network,     \* per side: sealed frames sent, for ever deliverable
  received     \* per side: frames handed to its tracks, in order

shakeVars == <<encrypt, stage, localKey, hello>>
mediaVars == <<sealed, network, received>>
secureVars == <<shakeVars, cipher, mediaVars>>

SecureInit ==
  /\ encrypt \in [Sides -> BOOLEAN]
  /\ stage = [s \in Sides |-> "Start"]
  /\ localKey = NoKey
  /\ hello = [s \in Sides |-> <<>>]
  /\ cipher = [s \in Sides |-> NewCipher(NoKey, s = "Dialer")]
  /\ sealed = [s \in Sides |-> 0]
  /\ network = [s \in Sides |-> {}]
  /\ received = [s \in Sides |-> <<>>]

(* The dialer writes first. *)
Dial ==
  /\ stage["Dialer"] = "Start"
  /\ \E key \in Keys : localKey' = IF encrypt["Dialer"] THEN key ELSE NoKey
  /\ hello' = [hello EXCEPT !["Dialer"] = Append(@, localKey')]
  /\ stage' = [stage EXCEPT !["Dialer"] = "Wait"]
  /\ UNCHANGED <<encrypt, cipher, mediaVars>>

(* Variant: the keys decide, whatever the side was set up for. *)
StageForKeyOnly(s, peerKey) ==
  CASE localKey = NoKey /\ peerKey = NoKey -> "Plain"
    [] (s = "Dialer" /\ localKey # NoKey) # (s = "Listener" /\ peerKey # NoKey) -> "Sealed"
    [] OTHER -> "Failed"

(* The match on (encrypt, dialer, local_key, media_key). *)
StageFor(s, peerKey) ==
  CASE ~encrypt[s] /\ peerKey = NoKey -> "Plain"
    [] encrypt[s] /\ s = "Dialer" /\ peerKey = NoKey -> "Sealed"
    [] encrypt[s] /\ s = "Listener" /\ peerKey # NoKey -> "Sealed"
    [] OTHER -> "Failed"

Settle(s, peerKey) ==
  /\ stage' = [stage EXCEPT ![s] = StageFor(s, peerKey)]
  /\ cipher' = [cipher EXCEPT ![s] =
       NewCipher(IF s = "Dialer" THEN localKey ELSE peerKey, s = "Dialer")]

(* Variant: the listener waits for a dialer that has settled. *)
AnswerLast ==
  /\ stage["Listener"] = "Start" /\ hello["Dialer"] # <<>> /\ stage["Dialer"] # "Wait"
  /\ hello' = [hello EXCEPT !["Dialer"] = Tail(@), !["Listener"] = Append(@, NoKey)]
  /\ Settle("Listener", Head(hello["Dialer"]))
  /\ UNCHANGED <<encrypt, localKey, mediaVars>>

(* The listener reads, writes its own Hello, which has no key, and settles. *)
Answer ==
  /\ stage["Listener"] = "Start" /\ hello["Dialer"] # <<>>
  /\ hello' = [hello EXCEPT !["Dialer"] = Tail(@), !["Listener"] = Append(@, NoKey)]
  /\ Settle("Listener", Head(hello["Dialer"]))
  /\ UNCHANGED <<encrypt, localKey, mediaVars>>

Conclude ==
  /\ stage["Dialer"] = "Wait" /\ hello["Listener"] # <<>>
  /\ hello' = [hello EXCEPT !["Listener"] = Tail(@)]
  /\ Settle("Dialer", Head(hello["Listener"]))
  /\ UNCHANGED <<encrypt, localKey, mediaVars>>

(* The connection breaks, or a side gives up, before it has settled. *)
Fail(s) ==
  /\ stage[s] \in {"Start", "Wait"}
  /\ stage' = [stage EXCEPT ![s] = "Failed"]
  /\ UNCHANGED <<encrypt, localKey, hello, cipher, mediaVars>>

(* A peer that has failed closes its half: reading past its Hello fails.    *)
ReadClosed(s) == stage[Peer(s)] = "Failed" /\ hello[Peer(s)] = <<>> /\ Fail(s)

(* Command::Frame of drive: seal, then push_frame.  A frame the engine then *)
(* refuses has used up a counter.                                           *)
SealFrame(s) ==
  /\ stage[s] = "Sealed" /\ sealed[s] < MaxSeals
  /\ cipher' = [cipher EXCEPT ![s] = AfterSeal(@)]
  /\ sealed' = [sealed EXCEPT ![s] = @ + 1]
  /\ \E refused \in BOOLEAN :
       network' = IF refused THEN network
                  ELSE [network EXCEPT ![s] = @ \union {SealedFrame(cipher[s], sealed[s])}]
  /\ UNCHANGED <<shakeVars, received>>

(* emit, of a frame the engine has reassembled: a counter that is refused   *)
(* drops it and changes nothing.                                            *)
OpenFrame(s) ==
  \E packet \in network[Peer(s)] :
    /\ stage[s] = "Sealed" /\ Accepts(cipher[s], packet.counter)
    /\ cipher' = [cipher EXCEPT ![s] = AfterAccept(@, packet.counter)]
    /\ received' = IF Opens(cipher[s], packet)
                   THEN [received EXCEPT ![s] = Append(@, packet.frame)] ELSE received
    /\ UNCHANGED <<shakeVars, sealed, network>>

Handshake == Dial \/ Answer \/ Conclude \/ \E s \in Sides : ReadClosed(s)

SecureNext ==
  \/ Dial
  \/ Answer
  \/ Conclude
  \/ \E s \in Sides : ReadClosed(s)
  \/ \E s \in Sides : Fail(s)
  \/ \E s \in Sides : SealFrame(s)
  \/ \E s \in Sides : OpenFrame(s)

SecureSpec == SecureInit /\ [][SecureNext]_secureVars
(* The futures of connect and accept are polled. *)
SecureFairSpec == SecureSpec /\ WF_secureVars(Handshake)

---------------------------------------------------------------------------
CipherType(c) ==
  /\ c.key \in Keys \union {NoKey}
  /\ c.seals \in Sides /\ c.opens \in Sides \ {c.seals}
  /\ c.counter \in Nat /\ c.max \in Nat /\ c.started \in BOOLEAN
  /\ c.mask \subseteq 0..(ReplayWindow - 1)

(* DESIGN.md: "Both peers must select the same mode; a mismatch fails", and *)
(* two sides that settled can open what the other seals.  A side that finds *)
(* the mismatch second learns of it first as a closed connection.           *)
AgreeOnCipher ==
  /\ \A s \in Sides : stage[s] \in {"Plain", "Sealed"} => encrypt[s] = (stage[s] = "Sealed")
  /\ (\A s \in Sides : stage[s] \in {"Plain", "Sealed"}) =>
       /\ stage["Dialer"] = stage["Listener"]
       /\ cipher["Dialer"].key = cipher["Listener"].key
       /\ \A s \in Sides : \A packet \in network[Peer(s)] : Opens(cipher[s], packet)

(* DESIGN.md: "allowing both directions to share the key without nonce      *)
(* reuse": no two frames of the session are sealed with the same key,       *)
(* direction and counter, on whichever side and for whichever track.        *)
NoncesUnique ==
  \A s, t \in Sides : \A p \in network[s], q \in network[t] :
    (p.key = q.key /\ p.direction = q.direction /\ p.counter = q.counter)
      => s = t /\ p.frame = q.frame

(* A frame is handed to its track once, however often the network and the   *)
(* reassembler bring it back and however far other tracks have moved on.    *)
OpenedOnce ==
  \A s \in Sides : \A i, j \in 1..Len(received[s]) :
    received[s][i] = received[s][j] => i = j

(* "UDP reordering inside the window is still delivered" (src/crypto.rs):   *)
(* the window refuses, of the counters it reaches, those that were opened   *)
(* and no others.                                                           *)
WindowExact ==
  \A s \in Sides : cipher[s].started => \A b \in 0..(ReplayWindow - 1) :
    b \in cipher[s].mask
      <=> \E i \in 1..Len(received[s]) : received[s][i] = cipher[s].max - b

(* The replay window is exact in both directions: nothing is opened twice,  *)
(* and nothing that it reaches is refused without having been opened.       *)
ReplayExact == OpenedOnce /\ WindowExact

(* A handshake ends on both sides, whatever the other side was set up for.  *)
HandshakeEnds == \A s \in Sides : <>(stage[s] \in {"Plain", "Sealed", "Failed"})
============================================================================
