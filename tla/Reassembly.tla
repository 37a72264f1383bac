----------------------------- MODULE Reassembly -----------------------------
(***************************************************************************)
(* Fragment::split and Reassembly of src/core/fragment.rs as operators on  *)
(* values.  A payload is its length: what split and forward must agree on  *)
(* is how many pieces there are, which piece is which, and that nothing is *)
(* missing when they are joined.                                           *)
(***************************************************************************)
EXTENDS Integers, Sequences, FiniteSets, Functions

CONSTANTS
  MaxPacketSize,         \* media bytes in one fragment
  MaxFragments,          \* MAX_FRAGMENTS_PER_FRAME
  MaxIncompleteFrames,   \* MAX_INCOMPLETE_FRAMES
  RetiredHistory         \* RETIRED_HISTORY

ASSUME ReassemblyAssumption ==
  /\ MaxPacketSize \in Nat \ {0} /\ MaxFragments \in Nat \ {0}
  /\ MaxIncompleteFrames \in Nat \ {0} /\ RetiredHistory \in Nat \ {0}

Count(len) == (len + MaxPacketSize - 1) \div MaxPacketSize

(* A frame that is empty or needs too many pieces is not split at all. *)
Splits(len) == len > 0 /\ Count(len) <= MaxFragments

(* The bytes that do not divide evenly go one each to the last pieces. *)
PieceSize(len, idx) ==
  (len \div Count(len)) + (IF idx < Count(len) - (len % Count(len)) THEN 0 ELSE 1)

Split(frame) ==
  IF Splits(frame.len)
  THEN {[id |-> frame.id, idx |-> i, count |-> Count(frame.len), key |-> frame.key,
         size |-> PieceSize(frame.len, i)] : i \in 0..(Count(frame.len) - 1)}
  ELSE {}

(* A slot that is still empty holds 0: no fragment is empty. *)
Slots(count) == [0..(count - 1) -> 0..MaxPacketSize]

Incomplete == [key : BOOLEAN, slots : UNION {Slots(n) : n \in 1..MaxFragments}]

NoFrames == [frames |-> [id \in {} |-> {}], retired |-> <<>>]

Opened(frag) == [key |-> frag.key, slots |-> [i \in 0..(frag.count - 1) |-> 0]]

Filled(frame, frag) ==
  [key   |-> IF frag.idx = 0 THEN frag.key ELSE frame.key,
   slots |-> [frame.slots EXCEPT ![frag.idx] = frag.size]]

IsComplete(frame) == \A i \in DOMAIN frame.slots : frame.slots[i] > 0

IsRetired(r, id) == \E k \in 1..Len(r.retired) : r.retired[k] = id

(* Variant: a full ring keeps what it has. *)
RememberedFirst(retired, id) ==
  IF Len(retired) = RetiredHistory THEN retired ELSE Append(retired, id)

(* The oldest retired id is forgotten when the ring is full. *)
Remembered(retired, id) ==
  IF Len(retired) = RetiredHistory THEN Append(Tail(retired), id) ELSE Append(retired, id)

FrameOf(r, frag) == IF frag.id \in DOMAIN r.frames THEN r.frames[frag.id] ELSE Opened(frag)

Accepts(r, frag) ==
  /\ frag.count \in 1..MaxFragments /\ frag.idx < frag.count
  /\ ~IsRetired(r, frag.id)
  /\ frag.id \in DOMAIN r.frames \/ Cardinality(DOMAIN r.frames) < MaxIncompleteFrames
  /\ DOMAIN FrameOf(r, frag).slots = 0..(frag.count - 1)
  /\ FrameOf(r, frag).slots[frag.idx] = 0

With(frames, id, frame) == [i \in DOMAIN frames \union {id} |-> IF i = id THEN frame ELSE frames[i]]

(* forward: the new state, and the frame it completed, if any.              *)
Forward(r, frag) ==
  LET frame == Filled(FrameOf(r, frag), frag) IN
  IF ~Accepts(r, frag) THEN [state |-> r, done |-> <<>>]
  ELSE IF IsComplete(frame)
  THEN [state |-> [frames  |-> Restrict(r.frames, DOMAIN r.frames \ {frag.id}),
                   retired |-> Remembered(r.retired, frag.id)],
        done  |-> <<[id |-> frag.id, key |-> frame.key, len |-> SumFunction(frame.slots)]>>]
  ELSE [state |-> [r EXCEPT !.frames = With(@, frag.id, frame)], done |-> <<>>]
=============================================================================
