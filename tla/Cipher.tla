------------------------------- MODULE Cipher -------------------------------
(***************************************************************************)
(* Cipher of src/crypto.rs as operators on a value: one direction of       *)
(* nonces for what a side seals, one for what it opens, and one window     *)
(* over the counters that have been opened.  A sealed frame is the record  *)
(* of what it was sealed with; AES-GCM opens it under the same key and     *)
(* nonce and under no other.                                               *)
(***************************************************************************)
EXTENDS Integers, FiniteSets

CONSTANT ReplayWindow   \* REPLAY_WINDOW

ASSUME CipherAssumption == ReplayWindow \in Nat \ {0}

(* Variant: every side seals in the same direction. *)
DirectionsAlike(dialer) == [seals |-> "Dialer", opens |-> "Dialer"]

(* DIALER_DIRECTION and LISTENER_DIRECTION. *)
Directions(dialer) ==
  IF dialer THEN [seals |-> "Dialer", opens |-> "Listener"]
            ELSE [seals |-> "Listener", opens |-> "Dialer"]

(* max is recv_max, and mask the set of bits of recv_mask. *)
NewCipher(key, dialer) ==
  [key |-> key, seals |-> Directions(dialer).seals, opens |-> Directions(dialer).opens,
   counter |-> 0, started |-> FALSE, max |-> 0, mask |-> {}]

SealedFrame(c, frame) ==
  [key |-> c.key, direction |-> c.seals, counter |-> c.counter, frame |-> frame]

(* No session seals 2^64 frames: the counter does not wrap. *)
AfterSeal(c) == [c EXCEPT !.counter = @ + 1]

Behind(c, counter) == c.max - counter

(* Variant: a counter behind the newest is believed. *)
AcceptsBehind(c, counter) ==
  ~c.started \/ counter > c.max \/ Behind(c, counter) < ReplayWindow

Accepts(c, counter) ==
  \/ ~c.started
  \/ counter > c.max
  \/ Behind(c, counter) < ReplayWindow /\ Behind(c, counter) \notin c.mask

(* recv_mask << shift: what leaves the 64 bits is forgotten. *)
ShiftedMask(mask, by) == {b + by : b \in mask} \intersect 0..(ReplayWindow - 1)

AfterAccept(c, counter) ==
  IF ~c.started THEN [c EXCEPT !.started = TRUE, !.max = counter, !.mask = {0}]
  ELSE IF counter > c.max
  THEN [c EXCEPT !.max = counter, !.mask = ShiftedMask(@, counter - c.max) \union {0}]
  ELSE [c EXCEPT !.mask = @ \union {Behind(c, counter)}]

(* Authenticated decryption, in open. *)
Opens(c, packet) == c.key = packet.key /\ c.opens = packet.direction
=============================================================================
