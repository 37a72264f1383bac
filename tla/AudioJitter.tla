---------------------------- MODULE AudioJitter ----------------------------
(***************************************************************************)
(* AudioNetEq of src/core/jitter.rs as operators on a value: the packets   *)
(* of one stream, the target delay that arrival gaps push up, and one      *)
(* decision per playout tick.  Durations are whole milliseconds.           *)
(***************************************************************************)
EXTENDS Integers, Sequences, SequencesExt

CONSTANTS
  AudioTarget, AudioMinDelay, AudioMaxDelay,
  PlayoutTick,        \* tick
  MaxPackets,
  TimestampSpace      \* 2^32 in the code

ASSUME AudioAssumption ==
  /\ {AudioTarget, AudioMinDelay, AudioMaxDelay} \subseteq Nat
  /\ {PlayoutTick, MaxPackets} \subseteq Nat \ {0} /\ TimestampSpace \in Nat \ {0, 1}

Unset == -1

EmptyAudio ==
  [packets |-> <<>>, target |-> AudioTarget, ewma |-> AudioTarget,
   heardAt |-> Unset, playAt |-> Unset]

Clamped(delay) == Min({Max({delay, AudioMinDelay}), AudioMaxDelay})

(* The filter takes the gap or itself, whichever is larger: a target never  *)
(* comes down.                                                              *)
Smoothed(a, at) ==
  IF a.heardAt = Unset THEN a.ewma
  ELSE Min({(9 * a.ewma + Max({at - a.heardAt, a.ewma})) \div 10, 500})

IsNewer(ts, than) ==
  LET ahead == (ts - than) % TimestampSpace
  IN ahead > 0 /\ ahead < TimestampSpace \div 2

(* A packet goes in front of the first one it is newer than. *)
Position(packets, ts) ==
  Min({k \in 1..Len(packets) : IsNewer(ts, packets[k].ts)} \union {Len(packets) + 1})

Placed(packets, p) ==
  IF \E k \in 1..Len(packets) : packets[k].ts = p.ts
  THEN [k \in 1..Len(packets) |-> IF packets[k].ts = p.ts THEN p ELSE packets[k]]
  ELSE InsertAt(packets, Position(packets, p.ts), p)

PushAudio(a, p) ==
  LET packets == Placed(a.packets, p)
      ewma == Smoothed(a, p.at)
  IN [a EXCEPT !.packets = IF Len(packets) > MaxPackets THEN Tail(packets) ELSE packets,
               !.ewma = ewma, !.heardAt = p.at,
               !.target = IF a.heardAt = Unset THEN @ ELSE Clamped(ewma)]

BufferDelay(a) == PlayoutTick * Len(a.packets)

(* Before the first tick, the target must be buffered or waited for. *)
TickIsDue(a, at) ==
  IF a.playAt # Unset THEN at >= a.playAt
  ELSE /\ a.packets # <<>>
       /\ BufferDelay(a) >= Clamped(a.target) \/ at - a.packets[1].at >= Clamped(a.target)

Decision(a) ==
  CASE a.packets = <<>> -> "Expand"
    [] a.packets # <<>> /\ 5 * BufferDelay(a) > 6 * Clamped(a.target) -> "Accelerate"
    [] a.packets # <<>> /\ 5 * BufferDelay(a) < 4 * Clamped(a.target) -> "PreemptiveExpand"
    [] OTHER -> "Normal"

(* get_decision: at most one packet or one conceal for each call. *)
DrainAudio(a, at) ==
  IF ~TickIsDue(a, at) THEN [state |-> a, released |-> <<>>, decision |-> "Wait"]
  ELSE [state    |-> [a EXCEPT !.playAt = at + PlayoutTick,
                               !.packets = IF @ = <<>> THEN @ ELSE Tail(@)],
        released |-> IF a.packets = <<>> THEN <<>> ELSE <<a.packets[1]>>,
        decision |-> Decision(a)]

(* next_playout_at *)
AudioWake(a) ==
  IF a.playAt # Unset THEN a.playAt
  ELSE IF a.packets # <<>> THEN a.packets[1].at + Clamped(a.target)
  ELSE Unset
============================================================================
