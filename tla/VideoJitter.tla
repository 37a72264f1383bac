---------------------------- MODULE VideoJitter ----------------------------
(***************************************************************************)
(* VideoFrameBuffer of src/core/jitter.rs as operators on a value: frames  *)
(* wait for a deadline, late ones are skipped, a gap in the chain of       *)
(* deltas waits for a keyframe, and keyframes are asked for.  The engine   *)
(* always polls with a ready decoder.  Instants and durations are whole    *)
(* milliseconds, and the arrival filter rounds down to one.                *)
(***************************************************************************)
EXTENDS Integers, Sequences, SequencesExt

CONSTANTS
  MinDelay, MaxDelay, RenderDelay, LateGrace,
  MaxBuffered,        \* max_frames
  KeyframeInterval, StallTimeout,
  FastStart,
  InitialJitter

ASSUME VideoAssumption ==
  /\ {MinDelay, MaxDelay, RenderDelay, LateGrace, StallTimeout, InitialJitter} \subseteq Nat
  /\ KeyframeInterval \in Nat \ {0} /\ MaxBuffered \in Nat \ {0} /\ FastStart \in BOOLEAN

Never == -1

EmptyVideo ==
  [frames |-> <<>>, last |-> Never, lastAt |-> Never, required |-> TRUE,
   jitter |-> InitialJitter, pushedAt |-> Never, askedAt |-> Never]

TargetDelay(v) == Min({Max({v.jitter + RenderDelay, MinDelay}), MaxDelay})

(* last_arrival and last_push_at are always assigned together: pushedAt.    *)
Filtered(v, at) ==
  IF v.pushedAt = Never THEN v.jitter
  ELSE Min({(85 * v.jitter + 15 * (at - v.pushedAt)) \div 100, 1000})

(* Variant: the newest frame makes room. *)
VictimBack(frames) == Len(frames)

(* The first delta, or the first keyframe when there is no delta. *)
Victim(frames) ==
  LET deltas == {k \in 1..Len(frames) : ~frames[k].key}
  IN IF deltas = {} THEN 1 ELSE Min(deltas)

(* Variant: nothing makes room. *)
Untrimmed(frames) == frames

(* One frame was pushed, so at most one is over the limit. *)
Trimmed(frames) ==
  IF Len(frames) > MaxBuffered THEN RemoveAt(frames, Victim(frames)) ELSE frames

(* Where the sort by id puts a frame. *)
PlaceOf(frames, id) ==
  Min({k \in 1..Len(frames) : frames[k].id > id} \union {Len(frames) + 1})

Push(v, frame, at) ==
  LET heard == [v EXCEPT !.jitter = Filtered(v, at), !.pushedAt = at]
      entry == [id |-> frame.id, key |-> frame.key, deadline |-> at + TargetDelay(heard)]
  IN IF \E k \in 1..Len(v.frames) : v.frames[k].id = frame.id THEN v
     ELSE [heard EXCEPT !.frames = Trimmed(InsertAt(@, PlaceOf(@, frame.id), entry))]

(* Variant: any newer frame continues the chain. *)
IsDecodableLoose(v, f) == f.key \/ (~v.required /\ v.last # Never /\ f.id > v.last)

IsDecodable(v, f) == f.key \/ (~v.required /\ v.last # Never /\ f.id = v.last + 1)

IsDue(v, f, at) ==
  at + LateGrace >= f.deadline \/ (FastStart /\ v.required /\ f.key)

FrontIsLate(v, at) == Len(v.frames) >= 2 /\ at > v.frames[1].deadline + LateGrace

Playable(v, at) ==
  {k \in 1..Len(v.frames) : IsDecodable(v, v.frames[k]) /\ IsDue(v, v.frames[k], at)}

Stalled(v, at) ==
  LET active == IF v.lastAt # Never THEN v.lastAt ELSE v.pushedAt
      receiving == v.pushedAt # Never /\ at - v.pushedAt < 2 * StallTimeout
  IN active # Never /\ (receiving \/ v.frames # <<>>) /\ at - active >= StallTimeout

NothingDecodable(v) == \A k \in 1..Len(v.frames) : ~IsDecodable(v, v.frames[k])

MayAsk(v, at) == v.askedAt = Never \/ at - v.askedAt >= KeyframeInterval

(* Variant: a keyframe is asked for only when something is buffered. *)
WantsKeyframeBuffered(v, at) ==
  MayAsk(v, at) /\ v.frames # <<>> /\ (NothingDecodable(v) \/ Stalled(v, at))

WantsKeyframe(v, at) == MayAsk(v, at) /\ (NothingDecodable(v) \/ Stalled(v, at))

Decode(v, k, at) ==
  [v EXCEPT !.frames = RemoveAt(@, k), !.last = v.frames[k].id, !.lastAt = at,
            !.required = @ /\ ~v.frames[k].key]

(* Each poll drops one late frame, releases one frame, asks for a keyframe  *)
(* or tells the caller to wait.                                             *)
Poll(v, at) ==
  IF FrontIsLate(v, at)
  THEN [out |-> "DroppedLate", state |-> [v EXCEPT !.frames = Tail(@), !.required = TRUE]]
  ELSE IF Playable(v, at) # {}
  THEN LET k == Min(Playable(v, at)) IN
       [out |-> "Decode", frame |-> [id |-> v.frames[k].id, key |-> v.frames[k].key],
        state |-> Decode(v, k, at)]
  ELSE IF WantsKeyframe(v, at)
  THEN [out |-> "KeyframeReq", state |-> [v EXCEPT !.askedAt = at, !.required = TRUE]]
  ELSE [out |-> "Wait", state |-> v]

(* drain_playout polls until it is told to wait: once for each frame that   *)
(* leaves, at most once for a request, and a poll that waits changes        *)
(* nothing.                                                                 *)
Polled(acc, at) ==
  LET p == Poll(acc.state, at) IN
  [state    |-> p.state,
   released |-> IF p.out = "Decode" THEN Append(acc.released, p.frame) ELSE acc.released,
   asked    |-> acc.asked \/ p.out = "KeyframeReq"]

DrainVideo(v, at) ==
  LET after[turn \in 0..(Len(v.frames) + 1)] ==
        IF turn = 0 THEN [state |-> v, released |-> <<>>, asked |-> FALSE]
        ELSE Polled(after[turn - 1], at)
  IN after[Len(v.frames) + 1]

(* Variant: the last deadline is waited for. *)
VideoWakeLatest(v, at) ==
  LET due == {v.frames[k].deadline - LateGrace : k \in 1..Len(v.frames)}
  IN IF v.frames = <<>> THEN Never ELSE Max(due \union {at})

(* next_wake_at, Never when nothing is buffered. *)
VideoWake(v, at) ==
  LET due == {v.frames[k].deadline - LateGrace : k \in 1..Len(v.frames)}
  IN IF v.frames = <<>> THEN Never
     ELSE IF FastStart /\ v.required /\ \E k \in 1..Len(v.frames) : v.frames[k].key THEN at
     ELSE Max({Min(due), at})
============================================================================
