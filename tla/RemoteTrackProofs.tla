-------------------------- MODULE RemoteTrackProofs --------------------------
(***************************************************************************)
(* What one media stream keeps for every loss, repetition and order of its *)
(* pieces, every size of the tables and every choice of the delays: frames *)
(* are joined as they were split, the decoder gets unbroken chains, whoever *)
(* waits for a keyframe has asked for one, a keyframe that is waited for   *)
(* is released at once, and the wake-up is never late.                     *)
(***************************************************************************)
EXTENDS RemoteTrack, Induction

Frame     == [id : Nat, key : BOOLEAN, len : Nat]
Scheduled == [id : Nat, key : BOOLEAN, deadline : Nat]
Decoded   == [id : Nat, key : BOOLEAN]

VideoState ==
  [frames : Seq(Scheduled), last : Int, lastAt : Int, required : BOOLEAN,
   jitter : Int, pushedAt : Int, askedAt : Int]

Drained == [state : VideoState, released : Seq(Decoded), asked : BOOLEAN]

---------------------------------------------------------------------------
(* Numbers and sequences *)

(* The constants of the video buffer. *)
LEMMA VideoConstants ==
  /\ MinDelay \in Nat /\ MaxDelay \in Nat /\ RenderDelay \in Nat /\ LateGrace \in Nat
  /\ StallTimeout \in Nat /\ InitialJitter \in Nat
  /\ KeyframeInterval \in Nat /\ KeyframeInterval > 0
  /\ MaxBuffered \in Nat /\ MaxBuffered > 0 /\ FastStart \in BOOLEAN
BY VideoAssumption

(* The least of a set of numbers is one of them. *)
LEMMA MinOfSet ==
  ASSUME NEW T \in SUBSET Nat, T # {}
  PROVE  Min(T) \in T /\ \A n \in T : Min(T) <= n
<1>1. \E m \in T : \A n \in T : m <= n
  BY LeastNumber
<1>. QED  BY <1>1 DEF Min

(* The least and the greatest of two numbers. *)
LEMMA OfTwo ==
  ASSUME NEW a \in Int, NEW b \in Int
  PROVE  /\ Min({a, b}) = IF a <= b THEN a ELSE b
         /\ Max({a, b}) = IF a >= b THEN a ELSE b
<1>1. \A m \in {a, b} : (\A n \in {a, b} : m <= n) <=> m = IF a <= b THEN a ELSE b
  OBVIOUS
<1>2. \A m \in {a, b} : (\A n \in {a, b} : m >= n) <=> m = IF a >= b THEN a ELSE b
  OBVIOUS
<1>. QED  BY <1>1, <1>2 DEF Min, Max

(* An element at the end of a sequence is at the end of what it is joined to. *)
LEMMA ConcatOfAppend ==
  ASSUME NEW S, NEW s \in Seq(S), NEW t \in Seq(S), NEW e \in S
  PROVE  s \o Append(t, e) = Append(s \o t, e)
<1>1. <<e>> \in Seq(S) /\ s \o t \in Seq(S)
  BY ConcatProperties
<1>2. Append(t, e) = t \o <<e>> /\ Append(s \o t, e) = (s \o t) \o <<e>>
  BY <1>1, AppendIsConcat
<1>3. (s \o t) \o <<e>> = s \o (t \o <<e>>)
  BY <1>1, ConcatAssociative
<1>. QED  BY <1>2, <1>3

---------------------------------------------------------------------------
(* One poll of the video buffer *)

(* The delay that is aimed at is never negative. *)
LEMMA TargetDelayNat ==
  ASSUME NEW v, v.jitter \in Int
  PROVE  TargetDelay(v) \in Nat
<1>. DEFINE raw == v.jitter + RenderDelay
            least == Max({raw, MinDelay})
<1>1. raw \in Int /\ MinDelay \in Int /\ MaxDelay \in Int
  BY VideoConstants
<1>. HIDE DEF raw
<1>2. least = IF raw >= MinDelay THEN raw ELSE MinDelay
  BY <1>1, OfTwo
<1>3. least \in Nat
  BY <1>1, <1>2, VideoConstants
<1>. HIDE DEF least
<1>4. Min({least, MaxDelay}) = IF least <= MaxDelay THEN least ELSE MaxDelay
  BY <1>1, <1>3, OfTwo
<1>. QED  BY <1>3, <1>4, VideoConstants DEF TargetDelay, raw, least

DropsLate(v, p, at) ==
  /\ p.out = "DroppedLate" /\ FrontIsLate(v, at)
  /\ p.state.frames = Tail(v.frames) /\ p.state.required
  /\ p.state.last = v.last /\ p.state.askedAt = v.askedAt

Releases(v, p, at, k) ==
  /\ p.out = "Decode" /\ ~FrontIsLate(v, at) /\ k \in Playable(v, at)
  /\ p.frame = [id |-> v.frames[k].id, key |-> v.frames[k].key]
  /\ p.state.frames = RemoveAt(v.frames, k)
  /\ p.state.required <=> v.required /\ ~v.frames[k].key
  /\ p.state.last = v.frames[k].id /\ p.state.askedAt = v.askedAt

Requests(v, p, at) ==
  /\ p.out = "KeyframeReq" /\ WantsKeyframe(v, at)
  /\ p.state.frames = v.frames /\ p.state.required
  /\ p.state.last = v.last /\ p.state.askedAt = at

Waits(v, p, at) ==
  /\ p.out = "Wait" /\ p.state = v
  /\ ~FrontIsLate(v, at) /\ Playable(v, at) = {} /\ ~WantsKeyframe(v, at)

(* The four outcomes of a poll. *)
LEMMA PollCases ==
  ASSUME NEW v \in VideoState, NEW at \in Nat, NEW p, p = Poll(v, at)
  PROVE  /\ p.state \in VideoState
         /\ \/ DropsLate(v, p, at)
            \/ \E k \in 1..Len(v.frames) : Releases(v, p, at, k)
            \/ Requests(v, p, at)
            \/ Waits(v, p, at)
<1>0. v.frames \in Seq(Scheduled) /\ Len(v.frames) \in Nat /\ at \in Int
  BY DEF VideoState
<1>1. CASE FrontIsLate(v, at)
  <2>1. p = [out |-> "DroppedLate", state |-> [v EXCEPT !.frames = Tail(@), !.required = TRUE]]
    BY <1>1 DEF Poll
  <2>2. Tail(v.frames) \in Seq(Scheduled)
    <3>1. v.frames # <<>>
      BY <1>0, <1>1 DEF FrontIsLate
    <3>. QED  BY <1>0, <3>1, HeadTailProperties
  <2>3. p.out = "DroppedLate" /\ p.state = [v EXCEPT !.frames = Tail(@), !.required = TRUE]
    BY <2>1
  <2>4. /\ p.state.frames = Tail(v.frames) /\ p.state.required = TRUE
        /\ p.state.last = v.last /\ p.state.askedAt = v.askedAt
    BY <2>3 DEF VideoState
  <2>5. p.state \in VideoState
    BY <2>2, <2>3 DEF VideoState
  <2>. QED  BY <1>1, <2>3, <2>4, <2>5 DEF DropsLate
<1>2. CASE ~FrontIsLate(v, at) /\ Playable(v, at) # {}
  <2>. DEFINE k == Min(Playable(v, at))
  <2>1. k \in Playable(v, at) /\ k \in 1..Len(v.frames)
    <3>1. Playable(v, at) \subseteq 1..Len(v.frames)
      BY DEF Playable
    <3>2. Playable(v, at) \in SUBSET Nat
      BY <1>0, <3>1
    <3>. QED  BY <1>2, <3>1, <3>2, MinOfSet
  <2>2. p = [out |-> "Decode", frame |-> [id |-> v.frames[k].id, key |-> v.frames[k].key],
             state |-> Decode(v, k, at)]
    BY <1>2 DEF Poll
  <2>. HIDE DEF k
  <2>3. RemoveAt(v.frames, k) \in Seq(Scheduled)
    BY <1>0, <2>1, RemoveAtProperties
  <2>4. v.frames[k] \in Scheduled
    BY <1>0, <2>1, ElementOfSeq
  <2>5. /\ p.state = [v EXCEPT !.frames = RemoveAt(@, k), !.last = v.frames[k].id, !.lastAt = at,
                               !.required = @ /\ ~v.frames[k].key]
        /\ p.out = "Decode" /\ p.frame = [id |-> v.frames[k].id, key |-> v.frames[k].key]
    BY <2>2 DEF Decode
  <2>6. /\ p.state.frames = RemoveAt(v.frames, k) /\ p.state.last = v.frames[k].id
        /\ p.state.askedAt = v.askedAt
        /\ p.state.required <=> v.required /\ ~v.frames[k].key
    BY <2>5 DEF VideoState
  <2>7. p.state \in VideoState
    <3>. DEFINE still == v.required /\ ~v.frames[k].key
    <3>1. v.frames[k].id \in Int /\ still \in BOOLEAN
      BY <2>4 DEF Scheduled
    <3>2. p.state = [v EXCEPT !.frames = RemoveAt(v.frames, k), !.last = v.frames[k].id,
                              !.lastAt = at, !.required = still]
      BY <2>5
    <3>. HIDE DEF still
    <3>. QED  BY <1>0, <2>3, <3>1, <3>2 DEF VideoState
  <2>. QED  BY <1>2, <2>1, <2>5, <2>6, <2>7 DEF Releases
<1>3. CASE ~FrontIsLate(v, at) /\ Playable(v, at) = {} /\ WantsKeyframe(v, at)
  <2>1. p = [out |-> "KeyframeReq", state |-> [v EXCEPT !.askedAt = at, !.required = TRUE]]
    BY <1>3 DEF Poll
  <2>2. p.out = "KeyframeReq" /\ p.state = [v EXCEPT !.askedAt = at, !.required = TRUE]
    BY <2>1
  <2>3. /\ p.state.frames = v.frames /\ p.state.required = TRUE
        /\ p.state.last = v.last /\ p.state.askedAt = at
    BY <2>2 DEF VideoState
  <2>4. p.state \in VideoState
    BY <1>0, <2>2 DEF VideoState
  <2>. QED  BY <1>3, <2>2, <2>3, <2>4 DEF Requests
<1>4. CASE ~FrontIsLate(v, at) /\ Playable(v, at) = {} /\ ~WantsKeyframe(v, at)
  <2>1. p = [out |-> "Wait", state |-> v]
    BY <1>4 DEF Poll
  <2>. QED  BY <1>4, <2>1 DEF Waits
<1>. QED  BY <1>1, <1>2, <1>3, <1>4

(* A poll adds to what the drain has released so far. *)
LEMMA PolledFields ==
  ASSUME NEW acc \in Drained, NEW at \in Nat, NEW p, p = Poll(acc.state, at)
  PROVE  /\ Polled(acc, at) \in Drained
         /\ Polled(acc, at).state = p.state
         /\ Polled(acc, at).asked <=> acc.asked \/ p.out = "KeyframeReq"
         /\ Polled(acc, at).released = IF p.out = "Decode" THEN Append(acc.released, p.frame)
                                       ELSE acc.released
<1>1. /\ acc.state \in VideoState /\ acc.released \in Seq(Decoded) /\ acc.asked \in BOOLEAN
  BY DEF Drained
<1>. DEFINE had == IF p.out = "Decode" THEN Append(acc.released, p.frame) ELSE acc.released
            asks == acc.asked \/ p.out = "KeyframeReq"
<1>2. p.state \in VideoState
  BY <1>1, PollCases
<1>3. had \in Seq(Decoded)
  <2>1. CASE p.out = "Decode"
    <3>1. PICK k \in 1..Len(acc.state.frames) : Releases(acc.state, p, at, k)
      BY <1>1, <2>1, PollCases DEF DropsLate, Requests, Waits
    <3>2. acc.state.frames[k] \in Scheduled
      BY <1>1 DEF VideoState
    <3>3. p.frame \in Decoded
      BY <3>1, <3>2 DEF Releases, Scheduled, Decoded
    <3>4. Append(acc.released, p.frame) \in Seq(Decoded)
      BY <1>1, <3>3, AppendProperties
    <3>. QED  BY <2>1, <3>4
  <2>2. CASE p.out # "Decode"
    BY <1>1, <2>2
  <2>. QED  BY <2>1, <2>2
<1>4. Polled(acc, at) = [state |-> p.state, released |-> had, asked |-> asks]
  BY DEF Polled
<1>5. asks \in BOOLEAN
  OBVIOUS
<1>. HIDE DEF had, asks
<1>6. /\ Polled(acc, at) \in Drained /\ Polled(acc, at).state = p.state
      /\ Polled(acc, at).released = had /\ Polled(acc, at).asked = asks
  BY <1>2, <1>3, <1>4, <1>5 DEF Drained
<1>. QED  BY <1>6 DEF had, asks

NotDrained(v) == [state |-> v, released |-> <<>>, asked |-> FALSE]

(* The loop of drain_playout, turn by turn: what holds before the first     *)
(* poll and is kept by each holds after the last.                           *)
LEMMA DrainTurns ==
  ASSUME NEW v \in VideoState, NEW at \in Nat, NEW J,
         <<0, NotDrained(v)>> \in J,
         \A n \in 0..Len(v.frames), acc \in Drained :
           <<n, acc>> \in J => <<n + 1, Polled(acc, at)>> \in J
  PROVE  DrainVideo(v, at) \in Drained /\ <<Len(v.frames) + 1, DrainVideo(v, at)>> \in J
<1>. DEFINE N == Len(v.frames) + 1
            base == NotDrained(v)
            H == [acc \in Drained |-> Polled(acc, at)]
            Def(f) == f = [turn \in 0..N |-> IF turn = 0 THEN base ELSE Polled(f[turn - 1], at)]
            after == CHOOSE f : Def(f)
<1>0. N \in Nat /\ Len(v.frames) \in Nat
  BY DEF VideoState
<1>1. base \in Drained
  BY DEF NotDrained, Drained
<1>2. H \in [Drained -> Drained]
  BY PolledFields
<1>3. DrainVideo(v, at) = after[N]
  BY DEF DrainVideo, NotDrained
<1>. HIDE DEF base, N
<1>4. \E f : Def(f)
  <2>1. PICK f \in [0..N -> Drained] : f[0] = base /\ \A n \in 1..N : f[n] = H[f[n - 1]]
    <3>. HIDE DEF H
    <3>1. base \in Drained /\ H \in [Drained -> Drained] /\ N \in Nat
      BY <1>0, <1>1, <1>2
    <3>. QED  BY ONLY <3>1, Iteration
  <2>2. ASSUME NEW turn \in 0..N
        PROVE  f[turn] = IF turn = 0 THEN base ELSE Polled(f[turn - 1], at)
    <3>1. CASE turn = 0
      BY <2>1, <3>1
    <3>2. CASE turn # 0
      <4>1. turn \in 1..N /\ turn - 1 \in 0..N
        BY <1>0, <3>2
      <4>2. f[turn] = H[f[turn - 1]] /\ f[turn - 1] \in Drained
        BY <2>1, <4>1
      <4>. QED  BY <3>2, <4>2
    <3>. QED  BY <3>1, <3>2
  <2>. DEFINE g == [turn \in 0..N |-> IF turn = 0 THEN base ELSE Polled(f[turn - 1], at)]
  <2>3. f = g
    <3>1. \A turn \in 0..N : f[turn] = g[turn]
      BY <2>2
    <3>. HIDE DEF g, H
    <3>2. g = [turn \in 0..N |-> g[turn]]
      BY DEF g
    <3>3. f = [turn \in 0..N |-> f[turn]]
      BY <2>1
    <3>. QED  BY <3>1, <3>2, <3>3
  <2>4. Def(f)
    BY <2>3
  <2>. QED  BY <2>4
<1>5. Def(after)
  <2>. HIDE DEF Def
  <2>. QED  BY <1>4
<1>. HIDE DEF after
<1>6. after[0] = base /\ \A n \in 0..N : n # 0 => after[n] = Polled(after[n - 1], at)
  BY <1>0, <1>5
<1>. DEFINE Good == {n \in Nat : n <= N => after[n] \in Drained /\ <<n, after[n]>> \in J}
<1>7. 0 \in Good
  BY <1>1, <1>6 DEF base
<1>8. ASSUME NEW n \in Nat, n \in Good  PROVE n + 1 \in Good
  <2>. SUFFICES ASSUME n + 1 <= N
                PROVE  after[n + 1] \in Drained /\ <<n + 1, after[n + 1]>> \in J
    OBVIOUS
  <2>1. after[n] \in Drained /\ <<n, after[n]>> \in J /\ n \in 0..Len(v.frames)
    BY <1>0, <1>8 DEF N
  <2>2. after[n + 1] = Polled(after[n], at)
    <3>1. n + 1 \in 0..N /\ n + 1 # 0 /\ (n + 1) - 1 = n
      BY <1>0
    <3>. QED  BY <1>6, <3>1
  <2>. QED  BY <2>1, <2>2, PolledFields
<1>9. N \in Good
  <2>. HIDE DEF Good
  <2>. QED  BY <1>0, <1>7, <1>8, NumberInduction
<1>. QED  BY <1>0, <1>3, <1>9 DEF N

---------------------------------------------------------------------------
(* What a drain of the video buffer does *)

(* Nothing is left to do. *)
AtRest(v, at) == ~FrontIsLate(v, at) /\ Playable(v, at) = {} /\ ~WantsKeyframe(v, at)

(* How many polls can still change something. *)
PollsLeft(v, at) == Len(v.frames) + (IF MayAsk(v, at) THEN 1 ELSE 0)

(* A poll does nothing, or there is one poll less to come. *)
LEMMA PollProgress ==
  ASSUME NEW v \in VideoState, NEW at \in Nat, NEW p, p = Poll(v, at)
  PROVE  /\ PollsLeft(v, at) \in Nat /\ Len(v.frames) \in Nat /\ PollsLeft(v, at) >= Len(v.frames)
         /\ AtRest(v, at) => Waits(v, p, at)
         /\ Waits(v, p, at) => AtRest(v, at)
         /\ ~AtRest(v, at) => PollsLeft(p.state, at) < PollsLeft(v, at)
<1>1. /\ v.frames \in Seq(Scheduled) /\ Len(v.frames) \in Nat /\ at \in Int
      /\ v.askedAt \in Int /\ p.state \in VideoState
  BY PollCases DEF VideoState
<1>2. PollsLeft(v, at) \in Nat /\ PollsLeft(v, at) >= Len(v.frames)
  <2>1. PollsLeft(v, at) = Len(v.frames) + 1 \/ PollsLeft(v, at) = Len(v.frames) + 0
    BY DEF PollsLeft
  <2>. QED  BY <1>1, <2>1
<1>3. ASSUME AtRest(v, at)  PROVE Waits(v, p, at)
  <2>1. ~DropsLate(v, p, at) /\ ~Requests(v, p, at)
    <3>1. ~FrontIsLate(v, at) /\ ~WantsKeyframe(v, at)
      BY <1>3 DEF AtRest
    <3>. QED  BY <3>1 DEF DropsLate, Requests
  <2>2. \A k \in 1..Len(v.frames) : ~Releases(v, p, at, k)
    BY <1>3 DEF AtRest, Releases
  <2>. QED  BY <2>1, <2>2, PollCases
<1>4. Waits(v, p, at) => AtRest(v, at)
  BY DEF AtRest, Waits
<1>5. ASSUME ~AtRest(v, at)  PROVE PollsLeft(p.state, at) < PollsLeft(v, at)
  <2>1. CASE DropsLate(v, p, at)
    <3>1. v.frames # <<>>
      BY <1>1, <2>1 DEF DropsLate, FrontIsLate
    <3>2. Len(p.state.frames) = Len(v.frames) - 1
      BY <1>1, <2>1, <3>1, HeadTailProperties DEF DropsLate
    <3>3. MayAsk(p.state, at) <=> MayAsk(v, at)
      BY <2>1 DEF DropsLate, MayAsk
    <3>4. /\ MayAsk(v, at) =>
                /\ PollsLeft(p.state, at) = Len(p.state.frames) + 1
                /\ PollsLeft(v, at) = Len(v.frames) + 1
          /\ ~MayAsk(v, at) =>
                /\ PollsLeft(p.state, at) = Len(p.state.frames) + 0
                /\ PollsLeft(v, at) = Len(v.frames) + 0
      BY <3>3 DEF PollsLeft
    <3>. QED  BY <1>1, <3>2, <3>4
  <2>2. ASSUME NEW k \in 1..Len(v.frames), Releases(v, p, at, k)
        PROVE  PollsLeft(p.state, at) < PollsLeft(v, at)
    <3>1. Len(p.state.frames) = Len(v.frames) - 1
      BY <1>1, <2>2, RemoveAtProperties DEF Releases
    <3>2. MayAsk(p.state, at) <=> MayAsk(v, at)
      BY <2>2 DEF Releases, MayAsk
    <3>4. /\ MayAsk(v, at) =>
                /\ PollsLeft(p.state, at) = Len(p.state.frames) + 1
                /\ PollsLeft(v, at) = Len(v.frames) + 1
          /\ ~MayAsk(v, at) =>
                /\ PollsLeft(p.state, at) = Len(p.state.frames) + 0
                /\ PollsLeft(v, at) = Len(v.frames) + 0
      BY <3>2 DEF PollsLeft
    <3>. QED  BY <1>1, <3>1, <3>4
  <2>3. CASE Requests(v, p, at)
    <3>1. MayAsk(v, at) /\ p.state.frames = v.frames /\ p.state.askedAt = at
      BY <2>3 DEF Requests, WantsKeyframe
    <3>2. ~MayAsk(p.state, at)
      BY <1>1, <3>1, VideoConstants DEF MayAsk, Never
    <3>. QED  BY <1>1, <3>1, <3>2 DEF PollsLeft
  <2>. QED  BY <1>4, <1>5, <2>1, <2>2, <2>3, PollCases
<1>. QED  BY <1>1, <1>2, <1>3, <1>4, <1>5

(* drain_playout stops at rest. *)
LEMMA DrainRests ==
  ASSUME NEW v \in VideoState, NEW at \in Nat
  PROVE  AtRest(DrainVideo(v, at).state, at)
<1>. DEFINE J == {t \in Nat \X Drained : \/ AtRest(t[2].state, at)
                                         \/ PollsLeft(t[2].state, at) + t[1] <= Len(v.frames) + 1}
            d == DrainVideo(v, at)
<1>0. Len(v.frames) \in Nat
  BY DEF VideoState
<1>1. <<0, NotDrained(v)>> \in J
  <2>1. NotDrained(v) \in Drained /\ NotDrained(v).state = v
    BY DEF NotDrained, Drained
  <2>2. PollsLeft(v, at) + 0 <= Len(v.frames) + 1
    BY <1>0 DEF PollsLeft
  <2>. QED  BY <2>1, <2>2
<1>2. ASSUME NEW n \in 0..Len(v.frames), NEW acc \in Drained, <<n, acc>> \in J
      PROVE  <<n + 1, Polled(acc, at)>> \in J
  <2>. DEFINE p == Poll(acc.state, at)
  <2>0. n \in Nat /\ n + 1 \in Nat /\ acc.state \in VideoState /\ Polled(acc, at) \in Drained
    BY PolledFields DEF Drained
  <2>1. Polled(acc, at).state = p.state
    BY PolledFields
  <2>2. AtRest(acc.state, at) \/ PollsLeft(acc.state, at) + n <= Len(v.frames) + 1
    BY <1>2
  <2>3. CASE AtRest(acc.state, at)
    <3>1. p.state = acc.state
      BY <2>0, <2>3, PollProgress DEF Waits
    <3>. QED  BY <2>0, <2>1, <2>3, <3>1
  <2>4. CASE ~AtRest(acc.state, at)
    <3>1. /\ PollsLeft(p.state, at) < PollsLeft(acc.state, at)
          /\ PollsLeft(p.state, at) \in Nat /\ PollsLeft(acc.state, at) \in Nat
      <4>1. p.state \in VideoState
        BY <2>0, PollCases
      <4>. QED  BY <2>0, <2>4, <4>1, PollProgress
    <3>2. PollsLeft(p.state, at) + (n + 1) <= Len(v.frames) + 1
      BY <1>0, <2>0, <2>2, <2>4, <3>1
    <3>. QED  BY <2>0, <2>1, <3>2
  <2>. QED  BY <2>3, <2>4
<1>3. d \in Drained /\ <<Len(v.frames) + 1, d>> \in J
  <2>. HIDE DEF J
  <2>. QED  BY <1>1, <1>2, DrainTurns
<1>4. CASE PollsLeft(d.state, at) + (Len(v.frames) + 1) <= Len(v.frames) + 1
  <2>1. d.state \in VideoState
    BY <1>3 DEF Drained
  <2>2. PollsLeft(d.state, at) = 0 /\ Len(d.state.frames) = 0
    BY <1>0, <1>4, <2>1, PollProgress
  <2>3. ~MayAsk(d.state, at)
    BY <2>2 DEF PollsLeft
  <2>. QED  BY <2>2, <2>3 DEF AtRest, FrontIsLate, Playable, WantsKeyframe
<1>. QED  BY <1>3, <1>4

ChainOf(seq) ==
  \A k \in 1..Len(seq) : seq[k].key \/ (k > 1 /\ seq[k - 1].id + 1 = seq[k].id)

LastOf(seq) == IF seq = <<>> THEN Never ELSE seq[Len(seq)].id

(* A frame that is a keyframe or follows the last one continues the chain.  *)
LEMMA ChainLonger ==
  ASSUME NEW seq \in Seq(Decoded), NEW f \in Decoded, ChainOf(seq),
         f.key \/ (LastOf(seq) # Never /\ f.id = LastOf(seq) + 1)
  PROVE  ChainOf(Append(seq, f)) /\ LastOf(Append(seq, f)) = f.id
<1>. DEFINE more == Append(seq, f)
<1>1. /\ Len(seq) \in Nat /\ more \in Seq(Decoded) /\ Len(more) = Len(seq) + 1
      /\ more # <<>> /\ more[Len(seq) + 1] = f /\ \A k \in 1..Len(seq) : more[k] = seq[k]
  BY AppendProperties
<1>. HIDE DEF more
<1>2. LastOf(more) = f.id
  BY <1>1 DEF LastOf
<1>3. ASSUME NEW k \in 1..Len(more)
      PROVE  more[k].key \/ (k > 1 /\ more[k - 1].id + 1 = more[k].id)
  <2>1. CASE k \in 1..Len(seq)
    <3>1. more[k] = seq[k] /\ (k > 1 => k - 1 \in 1..Len(seq) /\ more[k - 1] = seq[k - 1])
      BY <1>1, <2>1
    <3>. QED  BY <2>1, <3>1 DEF ChainOf
  <2>2. CASE k = Len(seq) + 1
    <3>1. more[k] = f
      BY <1>1, <2>2
    <3>2. CASE ~f.key
      <4>1. LastOf(seq) # Never /\ f.id = LastOf(seq) + 1
        BY <3>2
      <4>2. seq # <<>> /\ f.id = seq[Len(seq)].id + 1
        BY <4>1 DEF LastOf
      <4>3. Len(seq) \in 1..Len(seq) /\ k > 1 /\ k - 1 = Len(seq)
        BY <1>1, <2>2, <4>2
      <4>4. more[k - 1] = seq[Len(seq)]
        BY <1>1, <4>3
      <4>. QED  BY <3>1, <4>2, <4>3, <4>4
    <3>. QED  BY <3>1, <3>2
  <2>. QED  BY <1>1, <2>1, <2>2
<1>. QED  BY <1>2, <1>3 DEF ChainOf, more

(* What is released continues the chain the decoder was given.              *)
LEMMA DrainChain ==
  ASSUME NEW v \in VideoState, NEW at \in Nat, NEW before \in Seq(Decoded),
         ChainOf(before), v.last = LastOf(before)
  PROVE  LET d == DrainVideo(v, at) IN
         /\ before \o d.released \in Seq(Decoded)
         /\ ChainOf(before \o d.released)
         /\ d.state.last = LastOf(before \o d.released)
<1>. DEFINE Chained(acc) == /\ ChainOf(before \o acc.released)
                            /\ acc.state.last = LastOf(before \o acc.released)
            J == {t \in Nat \X Drained : Chained(t[2])}
            d == DrainVideo(v, at)
<1>1. <<0, NotDrained(v)>> \in J
  <2>1. NotDrained(v) \in Drained /\ NotDrained(v).state = v /\ NotDrained(v).released = <<>>
    BY DEF NotDrained, Drained
  <2>2. before \o <<>> = before
    BY ConcatEmptySeq
  <2>. QED  BY <2>1, <2>2
<1>2. ASSUME NEW n \in 0..Len(v.frames), NEW acc \in Drained, <<n, acc>> \in J
      PROVE  <<n + 1, Polled(acc, at)>> \in J
  <2>. DEFINE p == Poll(acc.state, at)
              so == before \o acc.released
  <2>0. n + 1 \in Nat /\ Polled(acc, at) \in Drained
    <3>1. p = Poll(acc.state, at)
      OBVIOUS
    <3>. HIDE DEF p
    <3>2. Polled(acc, at) \in Drained
      BY ONLY acc \in Drained, at \in Nat, <3>1, PolledFields
    <3>. QED  BY <3>2
  <2>1. acc.state \in VideoState /\ acc.released \in Seq(Decoded) /\ before \in Seq(Decoded)
    BY DEF Drained
  <2>2. ChainOf(so) /\ acc.state.last = LastOf(so) /\ so \in Seq(Decoded)
    BY <1>2, <2>1, ConcatProperties
  <2>3. ASSUME NEW k \in 1..Len(acc.state.frames), Releases(acc.state, p, at, k)
        PROVE  Chained(Polled(acc, at))
    <3>. DEFINE f == acc.state.frames[k]
    <3>1. p.out = "Decode" /\ p.frame = [id |-> f.id, key |-> f.key] /\ p.state.last = f.id
      BY <2>3 DEF Releases
    <3>2. f \in Scheduled
      BY <2>1, SMTT(30) DEF VideoState
    <3>3. p.frame \in Decoded /\ p.frame.id = f.id /\ p.frame.key = f.key
      BY <3>1, <3>2 DEF Scheduled, Decoded
    <3>4. IsDecodable(acc.state, f)
      BY <2>3 DEF Releases, Playable
    <3>5. p.frame.key \/ (LastOf(so) # Never /\ p.frame.id = LastOf(so) + 1)
      BY <2>2, <3>3, <3>4 DEF IsDecodable
    <3>6. /\ Polled(acc, at).released = Append(acc.released, p.frame)
          /\ Polled(acc, at).state = p.state
      <4>1. p = Poll(acc.state, at)
        OBVIOUS
      <4>. HIDE DEF p, f, so
      <4>. QED  BY ONLY acc \in Drained, at \in Nat, <3>1, <4>1, PolledFields
    <3>. HIDE DEF p, f
    <3>7. before \o Append(acc.released, p.frame) = Append(so, p.frame)
      <4>. HIDE DEF so
      <4>. QED  BY <2>1, <3>3, ConcatOfAppend, SMTT(30) DEF so
    <3>8. ChainOf(Append(so, p.frame)) /\ LastOf(Append(so, p.frame)) = p.frame.id
      <4>. HIDE DEF so
      <4>. QED  BY <2>2, <3>3, <3>5, ChainLonger
    <3>. QED  BY <3>1, <3>3, <3>6, <3>7, <3>8
  <2>4. ASSUME p.out # "Decode", p.state.last = acc.state.last
        PROVE  Chained(Polled(acc, at))
    <3>0. p = Poll(acc.state, at)
      OBVIOUS
    <3>1. Polled(acc, at).released = acc.released /\ Polled(acc, at).state = p.state
      <4>. HIDE DEF p, so
      <4>. QED  BY ONLY acc \in Drained, at \in Nat, <2>4, <3>0, PolledFields
    <3>. QED  BY <2>2, <2>4, <3>1
  <2>5. Chained(Polled(acc, at))
    <3>. HIDE DEF Chained
    <3>. QED  BY <2>1, <2>3, <2>4, PollCases DEF DropsLate, Requests, Waits
  <2>. HIDE DEF Chained
  <2>. QED  BY <2>0, <2>5
<1>3. d \in Drained /\ <<Len(v.frames) + 1, d>> \in J
  <2>. HIDE DEF J
  <2>. QED  BY <1>1, <1>2, DrainTurns
<1>4. before \o d.released \in Seq(Decoded)
  BY <1>3, ConcatProperties DEF Drained
<1>. QED  BY <1>3, <1>4

Ascending(frames) ==
  \A i, j \in 1..Len(frames) : i < j => frames[i].id < frames[j].id

(* Some of the frames, in their order. *)
Among(frames, all) ==
  /\ Len(frames) <= Len(all)
  /\ \A k \in 1..Len(frames) : \E j \in 1..Len(all) : frames[k] = all[j]

(* One frame less leaves the rest as they are. *)
LEMMA OneLess ==
  ASSUME NEW frames \in Seq(Scheduled), Ascending(frames), NEW k \in 1..Len(frames)
  PROVE  /\ Ascending(RemoveAt(frames, k)) /\ Among(RemoveAt(frames, k), frames)
         /\ Ascending(Tail(frames)) /\ Among(Tail(frames), frames)
<1>0. Len(frames) \in Nat /\ k \in Nat /\ 1 <= k /\ k <= Len(frames) /\ frames # <<>>
  OBVIOUS
<1>. DEFINE less == RemoveAt(frames, k)
            rest == Tail(frames)
<1>1. /\ less \in Seq(Scheduled) /\ Len(less) = Len(frames) - 1
      /\ \A j \in 1..(Len(frames) - 1) : less[j] = IF j < k THEN frames[j] ELSE frames[j + 1]
  BY RemoveAtProperties
<1>2. /\ rest \in Seq(Scheduled) /\ Len(rest) = Len(frames) - 1
      /\ \A j \in 1..(Len(frames) - 1) : rest[j] = frames[j + 1]
  BY <1>0, HeadTailProperties
<1>. HIDE DEF less, rest
<1>3. Ascending(less)
  <2>. SUFFICES ASSUME NEW i \in 1..Len(less), NEW j \in 1..Len(less), i < j
                PROVE  less[i].id < less[j].id
    BY DEF Ascending
  <2>. DEFINE a == IF i < k THEN i ELSE i + 1
              b == IF j < k THEN j ELSE j + 1
  <2>1. a \in 1..Len(frames) /\ b \in 1..Len(frames) /\ a < b
    BY <1>0, <1>1
  <2>2. less[i] = frames[a] /\ less[j] = frames[b]
    BY <1>0, <1>1
  <2>. HIDE DEF a, b
  <2>. QED  BY <2>1, <2>2 DEF Ascending
<1>4. Among(less, frames)
  <2>1. ASSUME NEW i \in 1..Len(less)  PROVE \E j \in 1..Len(frames) : less[i] = frames[j]
    <3>1. i \in 1..Len(frames) /\ i + 1 \in 1..Len(frames) /\ i \in 1..(Len(frames) - 1)
      BY <1>0, <1>1
    <3>2. less[i] = frames[i] \/ less[i] = frames[i + 1]
      BY <1>1, <3>1
    <3>. QED  BY <3>1, <3>2
  <2>. QED  BY <1>0, <1>1, <2>1 DEF Among
<1>5. Ascending(rest)
  <2>. SUFFICES ASSUME NEW i \in 1..Len(rest), NEW j \in 1..Len(rest), i < j
                PROVE  rest[i].id < rest[j].id
    BY DEF Ascending
  <2>1. i + 1 \in 1..Len(frames) /\ j + 1 \in 1..Len(frames) /\ i + 1 < j + 1
    BY <1>0, <1>2
  <2>. QED  BY <1>2, <2>1 DEF Ascending
<1>6. Among(rest, frames)
  <2>1. ASSUME NEW i \in 1..Len(rest)  PROVE \E j \in 1..Len(frames) : rest[i] = frames[j]
    <3>1. i + 1 \in 1..Len(frames) /\ i \in 1..(Len(frames) - 1)
      BY <1>0, <1>2
    <3>2. rest[i] = frames[i + 1]
      BY <1>2, <3>1
    <3>. QED  BY <3>1, <3>2
  <2>. QED  BY <1>0, <1>2, <2>1 DEF Among
<1>. QED  BY <1>3, <1>4, <1>5, <1>6 DEF less, rest

(* A poll takes at most one frame from the buffer. *)
LEMMA PollTakesOne ==
  ASSUME NEW v \in VideoState, Ascending(v.frames), NEW at \in Nat, NEW p, p = Poll(v, at)
  PROVE  Ascending(p.state.frames) /\ Among(p.state.frames, v.frames)
<1>1. v.frames \in Seq(Scheduled) /\ Len(v.frames) \in Nat
  BY DEF VideoState
<1>2. CASE DropsLate(v, p, at)
  <2>1. 1 \in 1..Len(v.frames) /\ p.state.frames = Tail(v.frames)
    BY <1>1, <1>2 DEF DropsLate, FrontIsLate
  <2>. QED  BY <1>1, <2>1, OneLess
<1>3. ASSUME NEW k \in 1..Len(v.frames), Releases(v, p, at, k)
      PROVE  Ascending(p.state.frames) /\ Among(p.state.frames, v.frames)
  <2>1. p.state.frames = RemoveAt(v.frames, k)
    BY <1>3 DEF Releases
  <2>. QED  BY <1>1, <2>1, OneLess
<1>4. CASE p.state.frames = v.frames
  BY <1>1, <1>4 DEF Among
<1>. QED  BY <1>2, <1>3, <1>4, PollCases DEF Requests, Waits

(* A drain only takes frames from the buffer. *)
LEMMA DrainTakes ==
  ASSUME NEW v \in VideoState, Ascending(v.frames), NEW at \in Nat
  PROVE  /\ DrainVideo(v, at) \in Drained
         /\ Ascending(DrainVideo(v, at).state.frames)
         /\ Among(DrainVideo(v, at).state.frames, v.frames)
<1>. DEFINE Takes(frames) == Ascending(frames) /\ Among(frames, v.frames)
            J == {t \in Nat \X Drained : Takes(t[2].state.frames)}
            d == DrainVideo(v, at)
<1>0. Len(v.frames) \in Nat
  BY DEF VideoState
<1>1. <<0, NotDrained(v)>> \in J
  <2>1. NotDrained(v) \in Drained /\ NotDrained(v).state = v
    BY DEF NotDrained, Drained
  <2>2. Takes(v.frames)
    BY <1>0 DEF Among
  <2>. HIDE DEF Takes
  <2>. QED  BY <2>1, <2>2
<1>2. ASSUME NEW n \in 0..Len(v.frames), NEW acc \in Drained, <<n, acc>> \in J
      PROVE  <<n + 1, Polled(acc, at)>> \in J
  <2>. DEFINE p == Poll(acc.state, at)
  <2>0. n + 1 \in Nat /\ Polled(acc, at) \in Drained /\ Polled(acc, at).state = p.state
    BY PolledFields
  <2>1. acc.state \in VideoState
    BY DEF Drained
  <2>2. p.state \in VideoState
    BY <2>1, PollCases
  <2>3. Ascending(acc.state.frames) /\ Among(acc.state.frames, v.frames)
    BY <1>2
  <2>4. Ascending(p.state.frames) /\ Among(p.state.frames, acc.state.frames)
    <3>. HIDE DEF p
    <3>. QED  BY <2>1, <2>3, PollTakesOne DEF p
  <2>. HIDE DEF p
  <2>5. Among(p.state.frames, v.frames)
    <3>. DEFINE less == p.state.frames
                some == acc.state.frames
    <3>1. Len(less) \in Nat /\ Len(some) \in Nat
      <4>1. less \in Seq(Scheduled)
        BY <2>2 DEF VideoState
      <4>2. some \in Seq(Scheduled)
        BY <2>1 DEF VideoState
      <4>. HIDE DEF less, some
      <4>. QED  BY <4>1, <4>2
    <3>2. Among(less, some) /\ Among(some, v.frames)
      BY <2>3, <2>4
    <3>. HIDE DEF less, some
    <3>3. Len(less) <= Len(v.frames)
      BY <1>0, <3>1, <3>2 DEF Among
    <3>4. \A k \in 1..Len(less) : \E j \in 1..Len(v.frames) : less[k] = v.frames[j]
      BY <3>2 DEF Among
    <3>. QED  BY <3>3, <3>4 DEF Among, less
  <2>6. Takes(Polled(acc, at).state.frames)
    BY <2>0, <2>4, <2>5
  <2>. HIDE DEF Takes
  <2>. QED  BY <2>0, <2>6
<1>3. d \in Drained /\ <<Len(v.frames) + 1, d>> \in J
  <2>. HIDE DEF J
  <2>. QED  BY <1>1, <1>2, DrainTurns
<1>. QED  BY <1>3

(* Only e is a keyframe, and it is in the buffer. *)
OnlyKey(frames, e) ==
  /\ \E k \in 1..Len(frames) : frames[k] = e
  /\ \A k \in 1..Len(frames) : frames[k].key => frames[k] = e

(* A keyframe that is waited for leaves the buffer by being released.       *)
LEMMA PollRestarts ==
  ASSUME FastStart, NEW at \in Nat,
         NEW e \in Scheduled, e.key, at <= e.deadline + LateGrace,
         NEW v \in VideoState, v.required, OnlyKey(v.frames, e),
         NEW p, p = Poll(v, at)
  PROVE  \/ p.out = "Decode" /\ p.frame.id = e.id
         \/ p.state.required /\ OnlyKey(p.state.frames, e)
<1>0. /\ v.frames \in Seq(Scheduled) /\ Len(v.frames) \in Nat
      /\ e.deadline \in Nat /\ e.id \in Nat
  BY DEF VideoState, Scheduled
<1>1. PICK j \in 1..Len(v.frames) : v.frames[j] = e
  BY DEF OnlyKey
<1>2. CASE DropsLate(v, p, at)
  <2>1. /\ at > v.frames[1].deadline + LateGrace
        /\ p.state.frames = Tail(v.frames) /\ p.state.required
    BY <1>2 DEF DropsLate, FrontIsLate
  <2>2. j # 1
    BY <1>0, <1>1, <2>1, VideoConstants
  <2>3. v.frames # <<>>
    BY <1>1
  <2>4. /\ Len(Tail(v.frames)) = Len(v.frames) - 1
        /\ \A i \in 1..(Len(v.frames) - 1) : Tail(v.frames)[i] = v.frames[i + 1]
    BY <1>0, <2>3, HeadTailProperties
  <2>5. j - 1 \in 1..Len(Tail(v.frames)) /\ Tail(v.frames)[j - 1] = e
    <3>1. j - 1 \in 1..(Len(v.frames) - 1) /\ (j - 1) + 1 = j
      BY <1>0, <2>2
    <3>. QED  BY <1>1, <2>4, <3>1
  <2>6. \A i \in 1..Len(Tail(v.frames)) : Tail(v.frames)[i].key => Tail(v.frames)[i] = e
    <3>1. \A i \in 1..(Len(v.frames) - 1) : i + 1 \in 1..Len(v.frames)
      BY <1>0
    <3>. QED  BY <2>4, <3>1 DEF OnlyKey
  <2>. QED  BY <2>1, <2>5, <2>6 DEF OnlyKey
<1>3. ASSUME NEW k \in 1..Len(v.frames), Releases(v, p, at, k)
      PROVE  p.out = "Decode" /\ p.frame.id = e.id
  <2>1. IsDecodable(v, v.frames[k])
    BY <1>3 DEF Releases, Playable
  <2>2. v.frames[k].key
    BY <2>1 DEF IsDecodable
  <2>3. v.frames[k] = e
    BY <2>2 DEF OnlyKey
  <2>. QED  BY <1>3, <2>3 DEF Releases
<1>4. CASE Requests(v, p, at) \/ Waits(v, p, at)
  <2>1. p.state.frames = v.frames /\ p.state.required
    BY <1>4 DEF Requests, Waits
  <2>. QED  BY <2>1
<1>. QED  BY <1>2, <1>3, <1>4, PollCases

(* A drain releases a keyframe that is waited for. *)
LEMMA DrainRestarts ==
  ASSUME FastStart, NEW at \in Nat,
         NEW e \in Scheduled, e.key, at <= e.deadline + LateGrace,
         NEW v \in VideoState, v.required, OnlyKey(v.frames, e)
  PROVE  \E k \in 1..Len(DrainVideo(v, at).released) : DrainVideo(v, at).released[k].id = e.id
<1>. DEFINE Out(acc) == \E k \in 1..Len(acc.released) : acc.released[k].id = e.id
            In(acc) == acc.state.required /\ OnlyKey(acc.state.frames, e)
            J == {t \in Nat \X Drained : Out(t[2]) \/ In(t[2])}
            d == DrainVideo(v, at)
<1>0. Len(v.frames) \in Nat
  BY DEF VideoState
<1>1. <<0, NotDrained(v)>> \in J
  <2>1. NotDrained(v) \in Drained /\ NotDrained(v).state = v
    BY DEF NotDrained, Drained
  <2>2. In(NotDrained(v))
    BY <2>1
  <2>. HIDE DEF In, Out
  <2>. QED  BY <2>1, <2>2
<1>2. ASSUME NEW n \in 0..Len(v.frames), NEW acc \in Drained, <<n, acc>> \in J
      PROVE  <<n + 1, Polled(acc, at)>> \in J
  <2>. DEFINE p == Poll(acc.state, at)
              next == Polled(acc, at)
  <2>0. n + 1 \in Nat /\ next \in Drained /\ next.state = p.state
    BY PolledFields
  <2>1. acc.state \in VideoState /\ acc.released \in Seq(Decoded)
    BY DEF Drained
  <2>2. next.released = IF p.out = "Decode" THEN Append(acc.released, p.frame) ELSE acc.released
    BY PolledFields
  <2>3. p.out = "Decode" => next.released \in Seq(Decoded)
    BY <2>0 DEF Drained
  <2>. HIDE DEF p, next
  <2>4. CASE Out(acc)
    <3>1. PICK k \in 1..Len(acc.released) : acc.released[k].id = e.id
      BY <2>4
    <3>2. k \in 1..Len(next.released) /\ next.released[k] = acc.released[k]
      <4>1. CASE p.out = "Decode"
        <5>1. next.released = Append(acc.released, p.frame)
          BY <2>2, <4>1
        <5>. QED  BY <2>1, <5>1
      <4>2. CASE p.out # "Decode"
        BY <2>2, <4>2
      <4>. QED  BY <4>1, <4>2
    <3>3. Out(next)
      BY <3>1, <3>2
    <3>. HIDE DEF In, Out
    <3>. QED  BY <2>0, <3>3 DEF next
  <2>5. CASE In(acc)
    <3>1. \/ p.out = "Decode" /\ p.frame.id = e.id
          \/ p.state.required /\ OnlyKey(p.state.frames, e)
      BY <2>1, <2>5, PollRestarts DEF p
    <3>2. CASE p.out = "Decode" /\ p.frame.id = e.id
      <4>1. next.released = Append(acc.released, p.frame)
        BY <2>2, <3>2
      <4>2. Len(acc.released) + 1 \in 1..Len(next.released)
            /\ next.released[Len(acc.released) + 1] = p.frame
        BY <2>1, <4>1
      <4>3. Out(next)
        BY <3>2, <4>2
      <4>. HIDE DEF In, Out
      <4>. QED  BY <2>0, <4>3 DEF next
    <3>3. CASE p.state.required /\ OnlyKey(p.state.frames, e)
      <4>1. In(next)
        BY <2>0, <3>3
      <4>. HIDE DEF In, Out
      <4>. QED  BY <2>0, <4>1 DEF next
    <3>. QED  BY <3>1, <3>2, <3>3
  <2>6. Out(acc) \/ In(acc)
    <3>. HIDE DEF In, Out
    <3>. QED  BY <1>2
  <2>. HIDE DEF In, Out, J
  <2>. QED  BY <2>4, <2>5, <2>6
<1>3. d \in Drained /\ <<Len(v.frames) + 1, d>> \in J
  <2>. HIDE DEF J
  <2>. QED  BY <1>1, <1>2, DrainTurns
<1>4. ~In(d)
  <2>. SUFFICES ASSUME In(d)  PROVE FALSE
    OBVIOUS
  <2>1. PICK k \in 1..Len(d.state.frames) : d.state.frames[k] = e
    BY DEF OnlyKey
  <2>2. IsDecodable(d.state, d.state.frames[k]) /\ IsDue(d.state, d.state.frames[k], at)
    BY <2>1 DEF IsDecodable, IsDue
  <2>3. Playable(d.state, at) # {}
    BY <2>2 DEF Playable
  <2>. QED  BY <2>3, DrainRests DEF AtRest
<1>. QED  BY <1>3, <1>4

(* Before the wake-up no frame is due or late. *)
LEMMA NotBeforeWake ==
  ASSUME NEW v \in VideoState, NEW t \in Nat, NEW at \in (t + 1)..(VideoWake(v, t) - 1)
  PROVE  /\ at \in Nat /\ ~FrontIsLate(v, at) /\ Playable(v, at) = {}
<1>. DEFINE deadlines == {v.frames[k].deadline : k \in 1..Len(v.frames)}
            due == {v.frames[k].deadline - LateGrace : k \in 1..Len(v.frames)}
<1>1. v.frames \in Seq(Scheduled) /\ Len(v.frames) \in Nat
  BY DEF VideoState
<1>2. ASSUME NEW k \in 1..Len(v.frames)  PROVE v.frames[k].deadline \in Nat
  <2>1. v.frames[k] \in Scheduled
    BY <1>1, ElementOfSeq
  <2>. QED  BY <2>1 DEF Scheduled
<1>3. v.frames # <<>>
  <2>. SUFFICES ASSUME v.frames = <<>>  PROVE FALSE
    OBVIOUS
  <2>1. VideoWake(v, t) = -1
    BY DEF VideoWake, Never
  <2>2. at \in (t + 1)..(-1 - 1)
    BY <2>1
  <2>. QED  BY <2>2
<1>4. Min(due) \in Int /\ \A k \in 1..Len(v.frames) : Min(due) <= v.frames[k].deadline - LateGrace
  <2>1. deadlines \in SUBSET Nat
    BY <1>2
  <2>2. deadlines # {}
    <3>1. 1 \in 1..Len(v.frames)
      BY <1>1, <1>3
    <3>. QED  BY <3>1
  <2>3. PICK m \in deadlines : \A d \in deadlines : m <= d
    <3>. HIDE DEF deadlines
    <3>. QED  BY <2>1, <2>2, LeastNumber
  <2>4. m \in Nat
    BY <2>1
  <2>5. m - LateGrace \in due
    OBVIOUS
  <2>6. ASSUME NEW d \in due  PROVE m - LateGrace <= d
    <3>1. PICK k \in 1..Len(v.frames) : d = v.frames[k].deadline - LateGrace
      OBVIOUS
    <3>2. v.frames[k].deadline \in Nat /\ m <= v.frames[k].deadline
      BY <1>2, <2>3
    <3>3. LateGrace \in Int
      BY VideoConstants
    <3>. QED  BY ONLY <2>4, <3>1, <3>2, <3>3, SMTT(30)
  <2>7. \A d \in due : d \in Int
    BY <1>2, VideoConstants
  <2>8. Min(due) \in due /\ \A d \in due : Min(due) <= d
    <3>. HIDE DEF due
    <3>. QED  BY <2>5, <2>6 DEF Min
  <2>. HIDE DEF deadlines
  <2>9. \A k \in 1..Len(v.frames) : v.frames[k].deadline - LateGrace \in due
    OBVIOUS
  <2>. HIDE DEF due
  <2>. QED  BY <2>7, <2>8, <2>9
<1>5. ~(FastStart /\ v.required /\ \E k \in 1..Len(v.frames) : v.frames[k].key)
  <2>. SUFFICES ASSUME FastStart /\ v.required /\ \E k \in 1..Len(v.frames) : v.frames[k].key
                PROVE  FALSE
    OBVIOUS
  <2>1. VideoWake(v, t) = t
    BY <1>3 DEF VideoWake
  <2>2. at \in (t + 1)..(t - 1)
    BY <2>1
  <2>. QED  BY <2>2
<1>6. VideoWake(v, t) = Max({Min(due), t})
  BY <1>3, <1>5 DEF VideoWake
<1>. HIDE DEF due
<1>7. VideoWake(v, t) = IF Min(due) >= t THEN Min(due) ELSE t
  <2>1. Min(due) \in Int /\ t \in Int
    BY <1>4
  <2>2. Max({Min(due), t}) = IF Min(due) >= t THEN Min(due) ELSE t
    BY ONLY <2>1, OfTwo
  <2>. QED  BY <1>6, <2>2
<1>8. at \in Nat /\ at < Min(due)
  <2>. DEFINE wake == VideoWake(v, t)
  <2>1. at \in (t + 1)..(wake - 1) /\ wake \in Int
    BY <1>4, <1>7
  <2>2. at \in Nat /\ t < at /\ at < wake
    <3>. HIDE DEF wake
    <3>. QED  BY <2>1
  <2>. QED  BY <1>4, <1>7, <2>2
<1>9. \A k \in 1..Len(v.frames) : at + LateGrace < v.frames[k].deadline
  BY <1>2, <1>4, <1>8, VideoConstants
<1>10. ~FrontIsLate(v, at)
  <2>. SUFFICES ASSUME Len(v.frames) >= 2, at > v.frames[1].deadline + LateGrace
                PROVE  FALSE
    BY DEF FrontIsLate
  <2>1. 1 \in 1..Len(v.frames)
    BY <1>1
  <2>. QED  BY <1>2, <1>8, <1>9, <2>1, VideoConstants
<1>11. Playable(v, at) = {}
  <2>. SUFFICES ASSUME NEW k \in 1..Len(v.frames), IsDue(v, v.frames[k], at)
                PROVE  FALSE
    BY DEF Playable
  <2>1. ~(at + LateGrace >= v.frames[k].deadline)
    BY <1>2, <1>8, <1>9, VideoConstants
  <2>. QED  BY <1>5, <2>1 DEF IsDue
<1>. QED  BY <1>8, <1>10, <1>11

(* A drain before the wake-up releases nothing, but for what its own        *)
(* request lets start early.                                                *)
LEMMA DrainBeforeWake ==
  ASSUME NEW v \in VideoState, NEW t \in Nat, NEW at \in (t + 1)..(VideoWake(v, t) - 1)
  PROVE  DrainVideo(v, at).released = <<>> \/ DrainVideo(v, at).asked
<1>. DEFINE J == {n \in Nat \X Drained : n[2].asked \/ (n[2].state = v /\ n[2].released = <<>>)}
            d == DrainVideo(v, at)
<1>0. at \in Nat /\ ~FrontIsLate(v, at) /\ Playable(v, at) = {}
  BY NotBeforeWake
<1>1. <<0, NotDrained(v)>> \in J
  <2>1. /\ NotDrained(v) \in Drained
        /\ NotDrained(v).state = v /\ NotDrained(v).released = <<>>
    BY DEF NotDrained, Drained
  <2>. QED  BY <2>1
<1>2. ASSUME NEW n \in 0..Len(v.frames), NEW acc \in Drained, <<n, acc>> \in J
      PROVE  <<n + 1, Polled(acc, at)>> \in J
  <2>. DEFINE p == Poll(acc.state, at)
              next == Polled(acc, at)
  <2>1. /\ n + 1 \in Nat /\ next \in Drained /\ next.state = p.state
        /\ next.asked <=> acc.asked \/ p.out = "KeyframeReq"
        /\ next.released = IF p.out = "Decode" THEN Append(acc.released, p.frame) ELSE acc.released
    BY <1>0, PolledFields
  <2>2. CASE acc.asked
    BY <2>1, <2>2
  <2>3. CASE acc.state = v /\ acc.released = <<>>
    <3>1. ~DropsLate(v, p, at) /\ \A k \in 1..Len(v.frames) : ~Releases(v, p, at, k)
      BY <1>0 DEF DropsLate, Releases
    <3>2. Requests(v, p, at) \/ Waits(v, p, at)
      BY <1>0, <2>3, <3>1, PollCases
    <3>3. next.asked \/ (next.state = v /\ next.released = <<>>)
      <4>. HIDE DEF next
      <4>. QED  BY <2>1, <2>3, <3>2 DEF Requests, Waits
    <3>. QED  BY <2>1, <3>3
  <2>. QED  BY <1>2, <2>2, <2>3
<1>3. d \in Drained /\ <<Len(v.frames) + 1, d>> \in J
  <2>. HIDE DEF J
  <2>. QED  BY <1>0, <1>1, <1>2, DrainTurns
<1>. QED  BY <1>3

---------------------------------------------------------------------------
(* What a push into the video buffer does *)

(* What a buffer holds after a frame is put into it: that frame and the     *)
(* frames it held.                                                          *)
Joins(frames, old, e) ==
  \A k \in 1..Len(frames) : frames[k] = e \/ \E j \in 1..Len(old) : frames[k] = old[j]

(* The same, the frame named by what its sender gave it. *)
Buffers(frames, old, frame) ==
  \A k \in 1..Len(frames) :
    \/ frames[k].id = frame.id /\ frames[k].key = frame.key
    \/ \E j \in 1..Len(old) : frames[k] = old[j]

Holds(frames, e) == \E k \in 1..Len(frames) : frames[k] = e

(* No frame of the buffer has the id. *)
IsNew(frames, id) == \A k \in 1..Len(frames) : frames[k].id # id

(* A frame goes between the older and the newer ones. *)
LEMMA Inserted ==
  ASSUME NEW frames \in Seq(Scheduled), Ascending(frames), NEW e \in Scheduled,
         IsNew(frames, e.id), NEW more, more = InsertAt(frames, PlaceOf(frames, e.id), e)
  PROVE  /\ more \in Seq(Scheduled) /\ Len(more) = Len(frames) + 1 /\ Ascending(more)
         /\ Holds(more, e) /\ Joins(more, frames, e)
<1>. DEFINE newer == {k \in 1..Len(frames) : frames[k].id > e.id}
            places == newer \union {Len(frames) + 1}
            i == PlaceOf(frames, e.id)
<1>0. Len(frames) \in Nat /\ e.id \in Nat
  BY DEF Scheduled
<1>1. ASSUME NEW k \in 1..Len(frames)  PROVE frames[k].id \in Nat
  <2>1. frames[k] \in Scheduled
    BY ElementOfSeq
  <2>. QED  BY <2>1 DEF Scheduled
<1>2. places \in SUBSET Nat /\ Len(frames) + 1 \in places
  BY <1>0
<1>3. i = Min(places)
  BY DEF PlaceOf
<1>4. i \in places /\ \A k \in places : i <= k
  <2>. HIDE DEF places, i
  <2>. QED  BY <1>2, <1>3, MinOfSet
<1>5. i \in 1..(Len(frames) + 1) /\ i \in Nat
  BY <1>0, <1>4
<1>6. ASSUME NEW k \in 1..Len(frames), k < i  PROVE frames[k].id < e.id
  <2>1. ~(frames[k].id > e.id)
    BY <1>0, <1>4, <1>5, <1>6
  <2>. HIDE DEF newer, places, i
  <2>. QED  BY <1>0, <1>1, <2>1 DEF IsNew
<1>7. ASSUME NEW k \in 1..Len(frames), k >= i  PROVE e.id < frames[k].id
  <2>1. i \in 1..Len(frames) /\ i # Len(frames) + 1
    BY <1>0, <1>5, <1>7
  <2>2. i \in newer
    BY <1>4, <2>1
  <2>3. e.id < frames[i].id /\ frames[i].id \in Nat
    BY <1>0, <1>1, <2>1, <2>2
  <2>. HIDE DEF newer, places, i
  <2>4. k = i \/ frames[i].id < frames[k].id
    BY <1>5, <1>7, <2>1 DEF Ascending
  <2>5. frames[k].id \in Nat
    BY <1>1
  <2>. QED  BY ONLY <1>0, <2>3, <2>4, <2>5
<1>. HIDE DEF newer, places, i
<1>8. /\ more \in Seq(Scheduled) /\ Len(more) = Len(frames) + 1
      /\ \A j \in 1..(Len(frames) + 1) :
           more[j] = IF j < i THEN frames[j] ELSE IF j = i THEN e ELSE frames[j - 1]
  <2>1. more = InsertAt(frames, i, e)
    BY DEF i
  <2>2. /\ InsertAt(frames, i, e) \in Seq(Scheduled)
        /\ Len(InsertAt(frames, i, e)) = Len(frames) + 1
        /\ \A j \in 1..(Len(frames) + 1) :
             InsertAt(frames, i, e)[j] =
               IF j < i THEN frames[j] ELSE IF j = i THEN e ELSE frames[j - 1]
    BY ONLY frames \in Seq(Scheduled), e \in Scheduled, <1>5, InsertAtProperties
  <2>. QED  BY ONLY <2>1, <2>2
<1>9. /\ \A j \in 1..Len(more) : j < i => j \in 1..Len(frames) /\ more[j] = frames[j]
      /\ more[i] = e
      /\ \A j \in 1..Len(more) : j > i =>
           j - 1 \in 1..Len(frames) /\ j - 1 >= i /\ more[j] = frames[j - 1]
  BY ONLY <1>0, <1>5, <1>8
<1>10. ASSUME NEW a \in 1..Len(more), NEW b \in 1..Len(more), a < b
       PROVE  more[a].id < more[b].id
  <2>0. a \in Nat /\ b \in Nat
    OBVIOUS
  <2>1. CASE b < i
    <3>1. /\ more[a] = frames[a] /\ a \in 1..Len(frames)
          /\ more[b] = frames[b] /\ b \in 1..Len(frames)
      BY ONLY <1>5, <1>9, <1>10, <2>0, <2>1
    <3>. QED  BY <1>10, <3>1 DEF Ascending
  <2>2. CASE b = i
    <3>1. more[a] = frames[a] /\ a \in 1..Len(frames) /\ a < i /\ more[b] = e
      BY ONLY <1>5, <1>9, <1>10, <2>0, <2>2
    <3>. QED  BY <1>6, <3>1
  <2>3. CASE a < i /\ b > i
    <3>1. more[a] = frames[a] /\ a \in 1..Len(frames)
      BY ONLY <1>5, <1>9, <1>10, <2>0, <2>3
    <3>2. more[b] = frames[b - 1] /\ b - 1 \in 1..Len(frames) /\ b - 1 >= i
      BY ONLY <1>5, <1>9, <1>10, <2>0, <2>3
    <3>3. frames[a].id < e.id /\ e.id < frames[b - 1].id
      BY <1>6, <1>7, <2>3, <3>1, <3>2
    <3>4. frames[a].id \in Nat /\ frames[b - 1].id \in Nat
      BY <1>1, <3>1, <3>2
    <3>. QED  BY ONLY <1>0, <3>1, <3>2, <3>3, <3>4
  <2>4. CASE a = i /\ b > i
    <3>1. more[a] = e /\ more[b] = frames[b - 1] /\ b - 1 \in 1..Len(frames) /\ b - 1 >= i
      BY ONLY <1>5, <1>9, <1>10, <2>0, <2>4
    <3>. QED  BY <1>7, <3>1
  <2>5. CASE a > i
    <3>1. more[a] = frames[a - 1] /\ a - 1 \in 1..Len(frames)
      BY ONLY <1>5, <1>9, <1>10, <2>0, <2>5
    <3>2. more[b] = frames[b - 1] /\ b - 1 \in 1..Len(frames)
      BY ONLY <1>5, <1>9, <1>10, <2>0, <2>5
    <3>3. a - 1 < b - 1
      BY ONLY <1>10, <2>0
    <3>. QED  BY <3>1, <3>2, <3>3 DEF Ascending
  <2>. QED  BY ONLY <1>5, <1>10, <2>0, <2>1, <2>2, <2>3, <2>4, <2>5
<1>11. i \in 1..Len(more)
  BY ONLY <1>0, <1>5, <1>8
<1>12. ASSUME NEW k \in 1..Len(more), more[k] # e
       PROVE  \E j \in 1..Len(frames) : more[k] = frames[j]
  <2>1. k < i \/ k > i
    BY <1>5, <1>9, <1>12
  <2>2. CASE k < i
    BY ONLY <1>9, <2>2, k \in 1..Len(more)
  <2>3. CASE k > i
    BY ONLY <1>9, <2>3, k \in 1..Len(more)
  <2>. QED  BY <2>1, <2>2, <2>3
<1>13. Ascending(more)
  BY ONLY <1>10 DEF Ascending
<1>14. Holds(more, e)
  BY ONLY <1>9, <1>11 DEF Holds
<1>15. Joins(more, frames, e)
  BY ONLY <1>12 DEF Joins
<1>. QED  BY ONLY <1>8, <1>13, <1>14, <1>15

(* One frame too many leaves, and it is not the only keyframe. *)
LEMMA TrimmedProperties ==
  ASSUME NEW more \in Seq(Scheduled), Ascending(more), Len(more) <= MaxBuffered + 1
  PROVE  /\ Trimmed(more) \in Seq(Scheduled) /\ Len(Trimmed(more)) <= MaxBuffered
         /\ Ascending(Trimmed(more)) /\ Among(Trimmed(more), more)
         /\ \A e \in Scheduled : e.key /\ OnlyKey(more, e) => OnlyKey(Trimmed(more), e)
<1>0. Len(more) \in Nat /\ MaxBuffered \in Nat /\ MaxBuffered > 0
  BY VideoConstants
<1>1. CASE Len(more) <= MaxBuffered
  <2>1. Trimmed(more) = more
    BY <1>0, <1>1 DEF Trimmed
  <2>. QED  BY <1>0, <1>1, <2>1 DEF Among
<1>2. CASE Len(more) > MaxBuffered
  <2>. DEFINE deltas == {k \in 1..Len(more) : ~more[k].key}
              less == RemoveAt(more, Victim(more))
  <2>1. Trimmed(more) = less
    BY <1>0, <1>2 DEF Trimmed
  <2>2. deltas \in SUBSET Nat
    BY <1>0
  <2>3. Victim(more) = IF deltas = {} THEN 1 ELSE Min(deltas)
    BY DEF Victim
  <2>4. deltas # {} => Victim(more) \in deltas
    <3>. HIDE DEF deltas
    <3>. QED  BY <2>2, <2>3, MinOfSet
  <2>5. Victim(more) \in 1..Len(more)
    <3>1. CASE deltas = {}
      BY <1>0, <1>2, <2>3, <3>1
    <3>2. CASE deltas # {}
      BY <2>4, <3>2
    <3>. QED  BY <3>1, <3>2
  <2>. HIDE DEF less
  <2>6. /\ less \in Seq(Scheduled) /\ Len(less) = Len(more) - 1
        /\ \A j \in 1..(Len(more) - 1) :
             less[j] = IF j < Victim(more) THEN more[j] ELSE more[j + 1]
    BY <2>5, RemoveAtProperties DEF less
  <2>7. Ascending(less) /\ Among(less, more)
    BY <2>5, OneLess DEF less
  <2>8. ASSUME NEW e \in Scheduled, e.key, OnlyKey(more, e)  PROVE OnlyKey(less, e)
    <3>1. PICK j \in 1..Len(more) : more[j] = e
      BY <2>8 DEF OnlyKey
    <3>2. deltas # {}
      <4>1. PICK i \in 1..Len(more) : i # j
        <5>1. 1 \in 1..Len(more) /\ 2 \in 1..Len(more)
          BY <1>0, <1>2
        <5>. QED  BY <5>1
      <4>2. more[i].id # e.id
        <5>1. more[i] \in Scheduled /\ more[j] \in Scheduled
          BY ElementOfSeq
        <5>2. more[i].id < more[j].id \/ more[j].id < more[i].id
          BY <1>0, <4>1 DEF Ascending
        <5>. QED  BY <3>1, <5>1, <5>2 DEF Scheduled
      <4>3. ~more[i].key
        BY <2>8, <4>2 DEF OnlyKey
      <4>. QED  BY <4>3
    <3>3. j # Victim(more)
      BY <2>4, <2>8, <3>1, <3>2
    <3>4. \E k \in 1..Len(less) : less[k] = e
      <4>1. CASE j < Victim(more)
        <5>1. j \in 1..(Len(more) - 1) /\ less[j] = more[j]
          BY <1>0, <2>5, <2>6, <4>1
        <5>. QED  BY <2>6, <3>1, <5>1
      <4>2. CASE j > Victim(more)
        <5>1. j - 1 \in 1..(Len(more) - 1) /\ less[j - 1] = more[j]
          BY <1>0, <2>5, <2>6, <4>2
        <5>. QED  BY <2>6, <3>1, <5>1
      <4>. QED  BY <2>5, <3>3, <4>1, <4>2
    <3>5. \A k \in 1..Len(less) : less[k].key => less[k] = e
      BY <2>7, <2>8 DEF Among, OnlyKey
    <3>. QED  BY <3>4, <3>5 DEF OnlyKey
  <2>. QED  BY <1>0, <1>2, <2>1, <2>6, <2>7, <2>8
<1>. QED  BY <1>0, <1>1, <1>2

(* A push keeps the buffer sorted and within its limit; a frame that is     *)
(* buffered already changes nothing; a first keyframe is kept.              *)
LEMMA PushProperties ==
  ASSUME NEW v \in VideoState, Ascending(v.frames), Len(v.frames) <= MaxBuffered,
         NEW frame \in Frame, NEW at \in Nat, NEW w, w = Push(v, frame, at)
  PROVE  /\ w \in VideoState /\ Ascending(w.frames) /\ Len(w.frames) <= MaxBuffered
         /\ w.last = v.last /\ w.required = v.required /\ w.askedAt = v.askedAt
         /\ Buffers(w.frames, v.frames, frame)
         /\ (\E k \in 1..Len(v.frames) : v.frames[k].id = frame.id) => w = v
         /\ (frame.key /\ \A k \in 1..Len(v.frames) :
                            v.frames[k].id # frame.id /\ ~v.frames[k].key)
              => \E e \in Scheduled : /\ e.id = frame.id /\ e.key /\ at <= e.deadline
                                      /\ OnlyKey(w.frames, e)
<1>0. v.frames \in Seq(Scheduled) /\ Len(v.frames) \in Nat
  BY DEF VideoState
<1>1. CASE \E k \in 1..Len(v.frames) : v.frames[k].id = frame.id
  <2>1. w = v
    BY <1>1 DEF Push
  <2>. QED  BY <1>1, <2>1 DEF Buffers
<1>2. CASE \A k \in 1..Len(v.frames) : v.frames[k].id # frame.id
  <2>. DEFINE heard == [v EXCEPT !.jitter = Filtered(v, at), !.pushedAt = at]
              entry == [id |-> frame.id, key |-> frame.key, deadline |-> at + TargetDelay(heard)]
              more == InsertAt(v.frames, PlaceOf(v.frames, frame.id), entry)
  <2>1. Filtered(v, at) \in Int /\ at \in Int
    <3>. DEFINE mixed == (85 * v.jitter + 15 * (at - v.pushedAt)) \div 100
    <3>1. v.jitter \in Int /\ v.pushedAt \in Int
      BY DEF VideoState
    <3>2. mixed \in Int
      BY <3>1
    <3>. HIDE DEF mixed
    <3>3. Min({mixed, 1000}) = IF mixed <= 1000 THEN mixed ELSE 1000
      BY <3>2, OfTwo
    <3>4. Min({mixed, 1000}) \in Int
      BY <3>2, <3>3
    <3>5. Filtered(v, at) = v.jitter \/ Filtered(v, at) = Min({mixed, 1000})
      BY DEF Filtered, mixed
    <3>. QED  BY <3>1, <3>4, <3>5
  <2>2. /\ heard \in VideoState /\ heard.frames = v.frames /\ heard.last = v.last
        /\ heard.required = v.required /\ heard.askedAt = v.askedAt /\ heard.jitter \in Int
    BY <2>1 DEF VideoState
  <2>3. entry \in Scheduled /\ at <= entry.deadline
        /\ entry.id = frame.id /\ entry.key = frame.key
    <3>1. TargetDelay(heard) \in Nat
      BY <2>2, TargetDelayNat
    <3>. HIDE DEF heard
    <3>. QED  BY <3>1 DEF Frame, Scheduled
  <2>4. w = [heard EXCEPT !.frames = Trimmed(more)]
    BY <1>2, <2>2 DEF Push
  <2>. HIDE DEF heard, entry
  <2>5. /\ more \in Seq(Scheduled) /\ Len(more) = Len(v.frames) + 1 /\ Ascending(more)
        /\ Holds(more, entry) /\ Joins(more, v.frames, entry)
    <3>1. /\ more = InsertAt(v.frames, PlaceOf(v.frames, entry.id), entry)
          /\ IsNew(v.frames, entry.id)
      BY <1>2, <2>3 DEF IsNew
    <3>2. Ascending(v.frames)
      OBVIOUS
    <3>. HIDE DEF more
    <3>. QED  BY ONLY <1>0, <2>3, <3>1, <3>2, Inserted
  <2>. HIDE DEF more
  <2>6. Len(more) <= MaxBuffered + 1
    BY <1>0, <2>5, VideoConstants
  <2>7. /\ Trimmed(more) \in Seq(Scheduled) /\ Len(Trimmed(more)) <= MaxBuffered
        /\ Ascending(Trimmed(more)) /\ Among(Trimmed(more), more)
        /\ \A e \in Scheduled : e.key /\ OnlyKey(more, e) => OnlyKey(Trimmed(more), e)
    BY <2>5, <2>6, TrimmedProperties
  <2>8. w.frames = Trimmed(more)
    BY <2>2, <2>4 DEF VideoState
  <2>9. w.last = v.last /\ w.required = v.required /\ w.askedAt = v.askedAt
    BY <2>2, <2>4
  <2>10. w \in VideoState
    BY <2>2, <2>4, <2>7 DEF VideoState
  <2>11. Buffers(w.frames, v.frames, frame)
    <3>1. \A k \in 1..Len(w.frames) : \E i \in 1..Len(more) : w.frames[k] = more[i]
      BY <2>7, <2>8 DEF Among
    <3>2. Joins(w.frames, v.frames, entry)
      BY ONLY <2>5, <3>1 DEF Joins
    <3>. QED  BY ONLY <2>3, <3>2 DEF Joins, Buffers
  <2>12. ASSUME frame.key, \A k \in 1..Len(v.frames) : ~v.frames[k].key
         PROVE  \E e \in Scheduled : /\ e.id = frame.id /\ e.key /\ at <= e.deadline
                                     /\ OnlyKey(w.frames, e)
    <3>1. OnlyKey(more, entry)
      BY <2>5, <2>12 DEF OnlyKey, Holds, Joins
    <3>2. entry.key /\ OnlyKey(w.frames, entry)
      BY <2>3, <2>7, <2>8, <2>12, <3>1
    <3>. QED  BY <2>3, <3>2
  <2>. QED  BY <1>2, <2>7, <2>8, <2>9, <2>10, <2>11, <2>12
<1>. QED  BY <1>1, <1>2

---------------------------------------------------------------------------
(* Splitting a frame and joining its pieces *)

Sendable == {f \in Frame : Splits(f.len)}

(* The constants of the reassembly. *)
LEMMA ReassemblyConstants ==
  /\ MaxPacketSize \in Nat \ {0} /\ MaxFragments \in Nat \ {0}
  /\ MaxIncompleteFrames \in Nat \ {0} /\ RetiredHistory \in Nat \ {0}
BY ReassemblyAssumption

(* What a quotient is. *)
LEMMA Quotient ==
  ASSUME NEW a \in Nat, NEW b \in Nat \ {0}
  PROVE  /\ a \div b \in Nat /\ b * (a \div b) <= a /\ a < b * (a \div b) + b
         /\ a % b \in Nat /\ a % b < b /\ a = b * (a \div b) + (a % b)
<1>1. a \div b \in Nat /\ b * (a \div b) <= a /\ a < b * (a \div b) + b
  OBVIOUS
<1>2. a % b \in Nat /\ a % b < b
  OBVIOUS
<1>3. a = b * (a \div b) + (a % b)
  OBVIOUS
<1>. QED  BY <1>1, <1>2, <1>3

(* There are enough pieces for the frame, and no more than it has bytes. *)
LEMMA CountFits ==
  ASSUME NEW len \in Nat, Splits(len)
  PROVE  /\ Count(len) \in 1..MaxFragments /\ Count(len) <= len
         /\ len <= Count(len) * MaxPacketSize
<1>. DEFINE M == MaxPacketSize
            C == Count(len)
            N == len + M - 1
<1>1. M \in Nat \ {0} /\ MaxFragments \in Nat /\ len > 0 /\ C <= MaxFragments
  BY ReassemblyConstants DEF Splits
<1>2. C = N \div M /\ N \in Nat /\ N = len + M - 1
  BY <1>1 DEF Count
<1>. HIDE DEF M, C, N
<1>3. C \in Nat /\ M * C <= N /\ N < M * C + M
  BY <1>1, <1>2, Quotient
<1>4. M * C = C * M /\ C * M \in Nat
  BY <1>1, <1>3
<1>5. len <= C * M
  BY <1>1, <1>2, <1>3, <1>4
<1>6. C # 0
  BY <1>1, <1>5
<1>7. C <= len
  <2>. SUFFICES ASSUME len + 1 <= C  PROVE FALSE
    BY <1>1, <1>3
  <2>1. (len + 1) * M <= C * M
    BY <1>1, <1>3
  <2>2. (len + 1) * M = len * M + M /\ len * M >= len
    BY <1>1
  <2>. QED  BY <1>1, <1>2, <1>3, <1>4, <2>1, <2>2
<1>. QED  BY <1>1, <1>3, <1>5, <1>6, <1>7 DEF C, M

(* A piece is not empty and fits a packet. *)
LEMMA PieceFits ==
  ASSUME NEW len \in Nat, Splits(len), NEW idx \in 0..(Count(len) - 1)
  PROVE  PieceSize(len, idx) \in 1..MaxPacketSize
<1>. DEFINE M == MaxPacketSize
            C == Count(len)
            q == len \div C
            rem == len % C
<1>1. M \in Nat \ {0} /\ C \in Nat \ {0} /\ C <= len /\ len <= C * M
  BY ReassemblyConstants, CountFits
<1>. HIDE DEF M, C
<1>2. /\ q \in Nat /\ C * q <= len /\ len < C * q + C
      /\ rem \in Nat /\ rem < C /\ len = C * q + rem
  BY <1>1, Quotient
<1>3. PieceSize(len, idx) = q + (IF idx < C - rem THEN 0 ELSE 1)
  BY DEF PieceSize, C
<1>. HIDE DEF q, rem
<1>4. q >= 1
  <2>. SUFFICES ASSUME q = 0  PROVE FALSE
    BY <1>2
  <2>1. C * q = 0
    BY <1>1
  <2>. QED  BY <1>1, <1>2, <2>1
<1>5. q <= M
  <2>1. C * q <= C * M
    <3>1. C * q \in Nat /\ C * M \in Nat
      BY <1>1, <1>2
    <3>. QED  BY <1>1, <1>2, <3>1
  <2>. QED  BY <1>1, <1>2, <2>1
<1>6. rem # 0 => q + 1 <= M
  <2>. SUFFICES ASSUME rem # 0, M <= q  PROVE FALSE
    BY <1>1, <1>2
  <2>1. C * M <= C * q
    BY <1>1, <1>2
  <2>2. C * q \in Nat /\ C * M \in Nat
    BY <1>1, <1>2
  <2>. QED  BY <1>1, <1>2, <2>1, <2>2
<1>7. CASE idx < C - rem
  BY <1>1, <1>2, <1>3, <1>4, <1>5, <1>7 DEF M
<1>8. CASE ~(idx < C - rem)
  <2>1. rem # 0
    <3>1. idx \in 0..(C - 1)
      BY DEF C
    <3>. QED  BY <1>1, <1>2, <1>8, <3>1
  <2>. QED  BY <1>1, <1>2, <1>3, <1>4, <1>6, <1>8, <2>1 DEF M
<1>. QED  BY <1>7, <1>8

(* The pieces of a frame add up to it. *)
LEMMA PiecesAddUp ==
  ASSUME NEW len \in Nat, Splits(len), NEW slots, DOMAIN slots = 0..(Count(len) - 1),
         \A i \in 0..(Count(len) - 1) : slots[i] = PieceSize(len, i)
  PROVE  SumFunction(slots) = len
<1>. DEFINE C == Count(len)
            q == len \div C
            rem == len % C
            Extra(n) == IF n <= C - rem THEN 0 ELSE n - (C - rem)
            Sums == {n \in Nat : n <= C =>
                       SumFunctionOnSet(slots, 0..(n - 1)) = q * n + Extra(n)}
<1>1. C \in Nat \ {0}
  BY CountFits
<1>2. ASSUME NEW i \in 0..(C - 1)
      PROVE  slots[i] = q + (IF i < C - rem THEN 0 ELSE 1) /\ slots[i] \in Nat
  <2>1. PieceSize(len, i) \in 1..MaxPacketSize
    BY PieceFits
  <2>. QED  BY <2>1, ReassemblyConstants DEF PieceSize
<1>. HIDE DEF C
<1>3. q \in Nat /\ rem \in Nat /\ rem < C /\ len = C * q + rem
  BY <1>1, Quotient
<1>. HIDE DEF q, rem
<1>4. 0 \in Sums
  <2>1. 0..(0 - 1) = {} /\ IsFiniteSet({})
    BY FS_EmptySet
  <2>2. SumFunctionOnSet(slots, {}) = 0
    BY <2>1, SumProperties
  <2>3. Extra(0) = 0 /\ q * 0 = 0
    BY <1>1, <1>3
  <2>. QED  BY <2>1, <2>2, <2>3
<1>5. ASSUME NEW n \in Nat, n \in Sums  PROVE n + 1 \in Sums
  <2>. SUFFICES ASSUME n + 1 <= C
                PROVE  SumFunctionOnSet(slots, 0..n) = q * (n + 1) + Extra(n + 1)
    BY <1>1
  <2>1. IsFiniteSet(0..n) /\ (0..n) \ {n} = 0..(n - 1) /\ n \in 0..n
    <3>1. (0..n) \ {n} = 0..(n - 1) /\ n \in 0..n /\ 0 \in Int /\ n \in Int
      OBVIOUS
    <3>2. IsFiniteSet(0..n)
      BY ONLY <3>1, FS_Interval
    <3>. QED  BY <3>1, <3>2
  <2>2. \A i \in 0..n : slots[i] \in Nat
    BY <1>1, <1>2
  <2>3. SumFunctionOnSet(slots, 0..n) = slots[n] + SumFunctionOnSet(slots, 0..(n - 1))
    BY <2>1, <2>2, SumProperties
  <2>4. SumFunctionOnSet(slots, 0..(n - 1)) = q * n + Extra(n)
    BY <1>1, <1>5
  <2>5. slots[n] = q + (IF n < C - rem THEN 0 ELSE 1)
    BY <1>1, <1>2
  <2>6. q * (n + 1) = q * n + q /\ q * n \in Nat
    BY <1>3
  <2>7. Extra(n + 1) = Extra(n) + (IF n < C - rem THEN 0 ELSE 1) /\ Extra(n) \in Nat
    <3>1. CASE n < C - rem
      <4>1. Extra(n) = 0 /\ Extra(n + 1) = 0
        BY <1>1, <1>3, <3>1
      <4>. QED  BY <3>1, <4>1
    <3>2. CASE n = C - rem
      <4>1. Extra(n) = 0 /\ Extra(n + 1) = 1
        BY <1>1, <1>3, <3>2
      <4>2. ~(n < C - rem)
        BY <3>2
      <4>. QED  BY <4>1, <4>2
    <3>3. CASE n > C - rem
      <4>1. Extra(n) = n - (C - rem) /\ Extra(n + 1) = n + 1 - (C - rem) /\ ~(n < C - rem)
        BY <1>1, <1>3, <3>3
      <4>. QED  BY <1>1, <1>3, <3>3, <4>1
    <3>. QED  BY <1>1, <1>3, <3>1, <3>2, <3>3
  <2>. DEFINE more == IF n < C - rem THEN 0 ELSE 1
  <2>8. more \in Nat
    OBVIOUS
  <2>. HIDE DEF Extra, more
  <2>. QED  BY <1>3, <2>3, <2>4, <2>5, <2>6, <2>7, <2>8 DEF more
<1>6. C \in Sums
  <2>. HIDE DEF Sums
  <2>. QED  BY <1>1, <1>4, <1>5, NumberInduction
<1>7. SumFunctionOnSet(slots, 0..(C - 1)) = q * C + Extra(C)
  BY <1>1, <1>6
<1>8. Extra(C) = rem /\ q * C = C * q
  BY <1>1, <1>3
<1>. QED  BY <1>3, <1>7, <1>8 DEF SumFunction, C

(* What is there of a frame: its key and some of its pieces. *)
PartOf(part, frame) ==
  /\ part = [key |-> frame.key, slots |-> part.slots]
  /\ part.slots \in Slots(Count(frame.len))
  /\ \A i \in 0..(Count(frame.len) - 1) :
       part.slots[i] = 0 \/ part.slots[i] = PieceSize(frame.len, i)

(* Every incomplete frame is a part of the frame that was sent. *)
Joining(r, all) ==
  /\ r = [frames |-> r.frames, retired |-> r.retired]
  /\ DOMAIN r.frames \subseteq 1..Len(all)
  /\ Cardinality(DOMAIN r.frames) <= MaxIncompleteFrames
  /\ \A id \in DOMAIN r.frames : PartOf(r.frames[id], all[id])
  /\ r.retired \in Seq(Nat) /\ Len(r.retired) <= RetiredHistory

(* A part of a frame that can be sent is an incomplete frame. *)
LEMMA PartIsIncomplete ==
  ASSUME NEW frame \in Sendable, NEW part, PartOf(part, frame)
  PROVE  part \in Incomplete
<1>1. Count(frame.len) \in 1..MaxFragments /\ frame.key \in BOOLEAN
  BY CountFits DEF Sendable, Frame
<1>2. part.slots \in UNION {Slots(n) : n \in 1..MaxFragments}
  BY <1>1 DEF PartOf
<1>. QED  BY <1>1, <1>2 DEF PartOf, Incomplete

(* One more piece of a frame leaves a part of it, or all of it. *)
LEMMA OnePieceMore ==
  ASSUME NEW frame \in Sendable, NEW frag \in Split(frame), NEW part,
         part = Opened(frag) \/ PartOf(part, frame),
         NEW more, more = Filled(part, frag)
  PROVE  /\ PartOf(more, frame)
         /\ IsComplete(more) =>
              [id |-> frag.id, key |-> more.key, len |-> SumFunction(more.slots)] = frame
<1>. DEFINE C == Count(frame.len)
<1>1. frame.len \in Nat /\ Splits(frame.len) /\ frame.key \in BOOLEAN
      /\ frame = [id |-> frame.id, key |-> frame.key, len |-> frame.len]
  BY DEF Sendable, Frame
<1>2. PICK i \in 0..(C - 1) :
        frag = [id |-> frame.id, idx |-> i, count |-> C, key |-> frame.key,
                size |-> PieceSize(frame.len, i)]
  BY <1>1 DEF Split
<1>3. C \in Nat \ {0} /\ MaxPacketSize \in Nat
  BY <1>1, CountFits, ReassemblyConstants
<1>4. \A j \in 0..(C - 1) : PieceSize(frame.len, j) \in 1..MaxPacketSize
  BY <1>1, PieceFits
<1>5. PartOf(part, frame)
  <2>1. CASE part = Opened(frag)
    <3>1. part = [key |-> frame.key, slots |-> [j \in 0..(C - 1) |-> 0]]
      BY <1>2, <2>1 DEF Opened
    <3>2. part.slots = [j \in 0..(C - 1) |-> 0] /\ part = [key |-> frame.key, slots |-> part.slots]
      BY <3>1
    <3>. HIDE DEF C
    <3>3. part.slots \in Slots(C) /\ \A j \in 0..(C - 1) : part.slots[j] = 0
      BY <1>3, <3>2 DEF Slots
    <3>. QED  BY <3>2, <3>3 DEF PartOf, C
  <2>. QED  BY <2>1
<1>6. part.slots \in Slots(C)
  BY <1>5 DEF PartOf
<1>7. more = [key |-> frame.key, slots |-> [part.slots EXCEPT ![i] = PieceSize(frame.len, i)]]
  <2>1. part.key = frame.key
    BY <1>5 DEF PartOf
  <2>. QED  BY <1>2, <2>1 DEF Filled
<1>8. /\ more.slots = [part.slots EXCEPT ![i] = PieceSize(frame.len, i)]
      /\ more.key = frame.key /\ more = [key |-> frame.key, slots |-> more.slots]
  BY <1>7
<1>9. more.slots \in Slots(C)
  <2>. HIDE DEF C
  <2>. QED  BY <1>3, <1>4, <1>6, <1>8 DEF Slots
<1>10. ASSUME NEW j \in 0..(C - 1)
       PROVE  more.slots[j] = 0 \/ more.slots[j] = PieceSize(frame.len, j)
  <2>1. part.slots[j] = 0 \/ part.slots[j] = PieceSize(frame.len, j)
    BY <1>5 DEF PartOf
  <2>. HIDE DEF C
  <2>. QED  BY <1>6, <1>8, <2>1 DEF Slots
<1>11. PartOf(more, frame)
  BY <1>8, <1>9, <1>10 DEF PartOf
<1>12. ASSUME IsComplete(more)
       PROVE  [id |-> frag.id, key |-> more.key, len |-> SumFunction(more.slots)] = frame
  <2>1. DOMAIN more.slots = 0..(C - 1)
    BY <1>9 DEF Slots
  <2>2. ASSUME NEW j \in 0..(C - 1)  PROVE more.slots[j] = PieceSize(frame.len, j)
    <3>1. more.slots[j] > 0
      BY <1>12, <2>1 DEF IsComplete
    <3>2. more.slots[j] # 0
      BY <3>1
    <3>. QED  BY <1>10, <3>2
  <2>3. SumFunction(more.slots) = frame.len
    BY <1>1, <2>1, <2>2, PiecesAddUp
  <2>4. frag.id = frame.id
    BY <1>2
  <2>. QED  BY <1>1, <1>8, <2>3, <2>4
<1>. QED  BY <1>11, <1>12

(* A ring that is full forgets its oldest entry. *)
LEMMA RingProperties ==
  ASSUME NEW retired \in Seq(Nat), Len(retired) <= RetiredHistory, NEW id \in Nat
  PROVE  LET next == Remembered(retired, id) IN
         /\ next \in Seq(Nat) /\ Len(next) \in 1..RetiredHistory
         /\ Len(next) = IF Len(retired) = RetiredHistory THEN RetiredHistory ELSE Len(retired) + 1
         /\ next[Len(next)] = id
         /\ \A k \in 1..(Len(next) - 1) :
              next[k] = retired[IF Len(retired) = RetiredHistory THEN k + 1 ELSE k]
<1>. DEFINE next == Remembered(retired, id)
<1>0. RetiredHistory \in Nat \ {0} /\ Len(retired) \in Nat
  BY ReassemblyConstants
<1>1. CASE Len(retired) = RetiredHistory
  <2>. DEFINE rest == Tail(retired)
  <2>1. next = Append(rest, id)
    BY <1>1 DEF Remembered
  <2>2. retired # <<>>
    BY <1>0, <1>1
  <2>3. /\ rest \in Seq(Nat) /\ Len(rest) = Len(retired) - 1
        /\ \A k \in 1..Len(rest) : rest[k] = retired[k + 1]
    BY <1>0, <2>2, HeadTailProperties
  <2>. HIDE DEF rest
  <2>4. /\ next \in Seq(Nat) /\ Len(next) = Len(rest) + 1 /\ next[Len(rest) + 1] = id
        /\ \A k \in 1..Len(rest) : next[k] = rest[k]
    BY <2>1, <2>3, AppendProperties
  <2>. HIDE DEF next
  <2>. QED  BY <1>0, <1>1, <2>3, <2>4 DEF next
<1>2. CASE Len(retired) # RetiredHistory
  <2>1. next = Append(retired, id)
    BY <1>2 DEF Remembered
  <2>2. /\ next \in Seq(Nat) /\ Len(next) = Len(retired) + 1 /\ next[Len(retired) + 1] = id
        /\ \A k \in 1..Len(retired) : next[k] = retired[k]
    BY <2>1, AppendProperties
  <2>. HIDE DEF next
  <2>. QED  BY <1>0, <1>2, <2>2 DEF next
<1>. QED  BY <1>1, <1>2

(* A piece is ignored, joins its frame, or completes it. *)
LEMMA ForwardProperties ==
  ASSUME NEW all \in Seq(Sendable), \A k \in 1..Len(all) : all[k].id = k,
         NEW r, Joining(r, all), NEW id \in 1..Len(all), NEW frag \in Split(all[id]),
         NEW f, f = Forward(r, frag)
  PROVE  /\ Joining(f.state, all)
         /\ \/ f.done = <<>> /\ f.state.retired = r.retired
            \/ /\ f.done = <<all[id]>> /\ ~IsRetired(r, id)
               /\ f.state.retired = Remembered(r.retired, id)
<1>. DEFINE part == FrameOf(r, frag)
            more == Filled(part, frag)
<1>0. all[id] \in Sendable /\ Len(all) \in Nat /\ id \in Nat
  BY ElementOfSeq
<1>1. frag.id = id
  <2>1. Splits(all[id].len)
    BY <1>0 DEF Sendable
  <2>. QED  BY <2>1 DEF Split
<1>2. part = Opened(frag) \/ PartOf(part, all[id])
  BY <1>1 DEF FrameOf, Joining
<1>. HIDE DEF part
<1>3. /\ PartOf(more, all[id])
      /\ IsComplete(more) =>
           [id |-> frag.id, key |-> more.key, len |-> SumFunction(more.slots)] = all[id]
  BY <1>0, <1>2, OnePieceMore
<1>. HIDE DEF more
<1>4. IsFiniteSet(DOMAIN r.frames) /\ Cardinality(DOMAIN r.frames) \in Nat
  <2>1. IsFiniteSet(1..Len(all))
    <3>1. 1 \in Int /\ Len(all) \in Int
      BY <1>0
    <3>. QED  BY ONLY <3>1, FS_Interval
  <2>2. IsFiniteSet(DOMAIN r.frames)
    BY <2>1, FS_Subset DEF Joining
  <2>. QED  BY <2>2, FS_CardinalityType
<1>5. CASE ~Accepts(r, frag)
  <2>1. f = [state |-> r, done |-> <<>>]
    BY <1>5 DEF Forward
  <2>. QED  BY <2>1
<1>6. CASE Accepts(r, frag) /\ IsComplete(more)
  <2>. DEFINE kept == Restrict(r.frames, DOMAIN r.frames \ {frag.id})
              next == [frames |-> kept, retired |-> Remembered(r.retired, frag.id)]
  <2>1. f = [state |-> next,
             done |-> <<[id |-> frag.id, key |-> more.key, len |-> SumFunction(more.slots)]>>]
    BY <1>6 DEF Forward, more, part
  <2>2. f.state = next /\ f.done = <<all[id]>>
    BY <1>3, <1>6, <2>1
  <2>3. kept = [i \in DOMAIN r.frames \ {id} |-> r.frames[i]]
    BY <1>1 DEF Restrict
  <2>4. /\ DOMAIN kept = DOMAIN r.frames \ {id}
        /\ \A i \in DOMAIN kept : i \in DOMAIN r.frames /\ kept[i] = r.frames[i]
    BY <2>3
  <2>5. Cardinality(DOMAIN kept) <= Cardinality(DOMAIN r.frames)
    BY <1>4, <2>4, FS_Subset
  <2>6. /\ Remembered(r.retired, id) \in Seq(Nat)
        /\ Len(Remembered(r.retired, id)) <= RetiredHistory
    BY <1>0, RingProperties, ReassemblyConstants DEF Joining
  <2>7. next.frames = kept /\ next.retired = Remembered(r.retired, id)
        /\ next = [frames |-> next.frames, retired |-> next.retired]
    BY <1>1
  <2>8. Cardinality(DOMAIN kept) \in Nat
    BY <1>4, <2>4, FS_Subset, FS_CardinalityType
  <2>. HIDE DEF next, kept
  <2>9. Joining(next, all)
    <3>1. /\ DOMAIN r.frames \subseteq 1..Len(all)
          /\ Cardinality(DOMAIN r.frames) <= MaxIncompleteFrames
          /\ \A i \in DOMAIN r.frames : PartOf(r.frames[i], all[i])
      BY DEF Joining
    <3>2. DOMAIN next.frames \subseteq 1..Len(all)
          /\ \A i \in DOMAIN next.frames : PartOf(next.frames[i], all[i])
      BY <2>4, <2>7, <3>1
    <3>3. Cardinality(DOMAIN next.frames) <= MaxIncompleteFrames
      BY <1>4, <2>5, <2>7, <2>8, <3>1, ReassemblyConstants
    <3>. QED  BY <2>6, <2>7, <3>2, <3>3 DEF Joining
  <2>10. ~IsRetired(r, id)
    BY <1>1, <1>6 DEF Accepts
  <2>. QED  BY <2>2, <2>7, <2>9, <2>10
<1>7. CASE Accepts(r, frag) /\ ~IsComplete(more)
  <2>. DEFINE kept == With(r.frames, frag.id, more)
              next == [r EXCEPT !.frames = With(@, frag.id, more)]
  <2>1. f = [state |-> next, done |-> <<>>]
    BY <1>7 DEF Forward, more, part
  <2>2. r = [frames |-> r.frames, retired |-> r.retired]
    BY DEF Joining
  <2>3. next.frames = kept /\ next.retired = r.retired
        /\ next = [frames |-> next.frames, retired |-> next.retired]
    BY <2>2
  <2>4. /\ DOMAIN kept = DOMAIN r.frames \union {id}
        /\ \A i \in DOMAIN kept : kept[i] = IF i = id THEN more ELSE r.frames[i]
    BY <1>1 DEF With
  <2>. HIDE DEF next, kept
  <2>5. Cardinality(DOMAIN kept) <= MaxIncompleteFrames
    <3>1. Cardinality(DOMAIN r.frames) <= MaxIncompleteFrames
      BY DEF Joining
    <3>2. CASE id \in DOMAIN r.frames
      <4>1. DOMAIN kept = DOMAIN r.frames
        BY <2>4, <3>2
      <4>. QED  BY <3>1, <4>1
    <3>3. CASE id \notin DOMAIN r.frames
      <4>1. Cardinality(DOMAIN r.frames) < MaxIncompleteFrames
        BY <1>1, <1>7, <3>3 DEF Accepts
      <4>2. Cardinality(DOMAIN kept) = Cardinality(DOMAIN r.frames) + 1
        BY <1>4, <2>4, <3>3, FS_AddElement
      <4>. QED  BY <1>4, <4>1, <4>2, ReassemblyConstants
    <3>. QED  BY <3>2, <3>3
  <2>6. Joining(next, all)
    <3>1. /\ DOMAIN r.frames \subseteq 1..Len(all)
          /\ \A i \in DOMAIN r.frames : PartOf(r.frames[i], all[i])
          /\ r.retired \in Seq(Nat) /\ Len(r.retired) <= RetiredHistory
      BY DEF Joining
    <3>2. DOMAIN next.frames \subseteq 1..Len(all)
          /\ \A i \in DOMAIN next.frames : PartOf(next.frames[i], all[i])
      BY <1>3, <2>3, <2>4, <3>1
    <3>. QED  BY <2>3, <2>5, <3>1, <3>2 DEF Joining
  <2>7. f.state = next /\ f.done = <<>>
    BY <2>1
  <2>. QED  BY <2>3, <2>6, <2>7
<1>. QED  BY <1>5, <1>6, <1>7

---------------------------------------------------------------------------
(* What has come out of the reassembly *)

(* The ring holds the ids of the frames that were completed last. *)
HistoryOf(retired, done) ==
  /\ Len(retired) = IF Len(done) <= RetiredHistory THEN Len(done) ELSE RetiredHistory
  /\ \A k \in 1..Len(retired) : retired[k] = done[Len(done) - Len(retired) + k].id

AsSent(done, all) ==
  \A k \in 1..Len(done) : done[k].id \in 1..Len(all) /\ done[k] = all[done[k].id]

NoEarlyRepeat(done) ==
  \A j, k \in 1..Len(done) : j < k /\ done[j].id = done[k].id => k - j > RetiredHistory

(* A frame whose id is not in the ring was not completed lately. *)
LEMMA OneFrameMore ==
  ASSUME NEW done \in Seq(Frame), NEW retired \in Seq(Nat), HistoryOf(retired, done),
         NoEarlyRepeat(done), NEW frame \in Frame,
         \A k \in 1..Len(retired) : retired[k] # frame.id
  PROVE  /\ Append(done, frame) \in Seq(Frame)
         /\ HistoryOf(Remembered(retired, frame.id), Append(done, frame))
         /\ NoEarlyRepeat(Append(done, frame))
<1>. DEFINE more == Append(done, frame)
            next == Remembered(retired, frame.id)
            n == Len(done)
            h == Len(retired)
<1>0. RetiredHistory \in Nat \ {0} /\ n \in Nat /\ h \in Nat /\ frame.id \in Nat
  BY ReassemblyConstants DEF Frame
<1>1. /\ more \in Seq(Frame) /\ Len(more) = n + 1 /\ more[n + 1] = frame
      /\ \A k \in 1..n : more[k] = done[k]
  BY AppendProperties
<1>2. /\ h = IF n <= RetiredHistory THEN n ELSE RetiredHistory
      /\ \A k \in 1..h : retired[k] = done[n - h + k].id
  BY DEF HistoryOf
<1>3. /\ Len(next) = IF h = RetiredHistory THEN RetiredHistory ELSE h + 1
      /\ next[Len(next)] = frame.id
      /\ \A k \in 1..(Len(next) - 1) : next[k] = retired[IF h = RetiredHistory THEN k + 1 ELSE k]
  <2>1. h <= RetiredHistory
    BY <1>0, <1>2
  <2>. HIDE DEF n
  <2>. QED  BY <1>0, <2>1, RingProperties
<1>. HIDE DEF more, next, n, h
<1>4. /\ Len(next) = IF n + 1 <= RetiredHistory THEN n + 1 ELSE RetiredHistory
      /\ Len(next) \in Nat \ {0}
  BY <1>0, <1>2, <1>3
<1>5. ASSUME NEW k \in 1..Len(next)
      PROVE  next[k] = more[(n + 1) - Len(next) + k].id
  <2>1. CASE k = Len(next)
    <3>1. (n + 1) - Len(next) + k = n + 1
      BY <1>0, <1>4, <2>1
    <3>. QED  BY <1>1, <1>3, <2>1, <3>1
  <2>2. CASE k # Len(next) /\ h = RetiredHistory
    <3>1. /\ k \in 1..(Len(next) - 1) /\ k + 1 \in 1..h /\ Len(next) = h
          /\ n - h + (k + 1) \in 1..n /\ (n + 1) - Len(next) + k = n - h + (k + 1)
      BY <1>0, <1>2, <1>3, <1>4, <2>2
    <3>2. next[k] = retired[k + 1] /\ retired[k + 1] = done[n - h + (k + 1)].id
      BY <1>2, <1>3, <2>2, <3>1
    <3>. QED  BY <1>1, <3>1, <3>2
  <2>3. CASE k # Len(next) /\ h # RetiredHistory
    <3>1. /\ k \in 1..(Len(next) - 1) /\ k \in 1..h /\ Len(next) = h + 1
          /\ n - h + k \in 1..n /\ (n + 1) - Len(next) + k = n - h + k
      BY <1>0, <1>2, <1>3, <1>4, <2>3
    <3>2. next[k] = retired[k] /\ retired[k] = done[n - h + k].id
      BY <1>2, <1>3, <2>3, <3>1
    <3>. QED  BY <1>1, <3>1, <3>2
  <2>. QED  BY <2>1, <2>2, <2>3
<1>6. HistoryOf(next, more)
  BY <1>1, <1>4, <1>5 DEF HistoryOf
<1>7. ASSUME NEW j \in 1..Len(more), NEW k \in 1..Len(more), j < k, more[j].id = more[k].id
      PROVE  k - j > RetiredHistory
  <2>1. CASE k \in 1..n
    <3>1. j \in 1..n /\ done[j].id = done[k].id
      BY <1>0, <1>1, <1>7, <2>1
    <3>. QED  BY <1>7, <2>1, <3>1 DEF NoEarlyRepeat, n
  <2>2. CASE k = n + 1
    <3>. SUFFICES ASSUME k - j <= RetiredHistory  PROVE FALSE
      BY <1>0, <2>2
    <3>1. j \in 1..n /\ done[j].id = frame.id
      BY <1>0, <1>1, <1>7, <2>2
    <3>2. j - (n - h) \in 1..h /\ n - h + (j - (n - h)) = j
      BY <1>0, <1>2, <2>2, <3>1
    <3>3. retired[j - (n - h)] = done[j].id
      BY <1>2, <3>2
    <3>. QED  BY <3>1, <3>2, <3>3 DEF h
  <2>. QED  BY <1>0, <1>1, <2>1, <2>2
<1>8. NoEarlyRepeat(more)
  BY <1>7 DEF NoEarlyRepeat
<1>. QED  BY <1>1, <1>6, <1>8 DEF more, next

---------------------------------------------------------------------------
(* The audio buffer *)

Packet == [id : Nat, ts : Nat, at : Nat]

AudioState ==
  [packets : Seq(Packet), target : Int, ewma : Int, heardAt : Int, playAt : Int]

(* The constants of the audio buffer. *)
LEMMA AudioConstants ==
  /\ AudioTarget \in Nat /\ AudioMinDelay \in Nat /\ AudioMaxDelay \in Nat
  /\ PlayoutTick \in Nat \ {0} /\ MaxPackets \in Nat \ {0}
  /\ TimestampSpace \in Nat \ {0}
BY AudioAssumption

(* A delay within its limits is a number. *)
LEMMA ClampedInt ==
  ASSUME NEW delay \in Int
  PROVE  Clamped(delay) \in Int
<1>. DEFINE least == Max({delay, AudioMinDelay})
<1>1. AudioMinDelay \in Int /\ AudioMaxDelay \in Int
  BY AudioConstants
<1>2. least = IF delay >= AudioMinDelay THEN delay ELSE AudioMinDelay
  BY <1>1, OfTwo
<1>3. least \in Int
  BY <1>1, <1>2
<1>. HIDE DEF least
<1>4. Min({least, AudioMaxDelay}) = IF least <= AudioMaxDelay THEN least ELSE AudioMaxDelay
  BY <1>1, <1>3, OfTwo
<1>. QED  BY <1>1, <1>3, <1>4 DEF Clamped, least

(* A packet takes the place of its copy, or one of its own. *)
LEMMA PlacedProperties ==
  ASSUME NEW packets \in Seq(Packet), NEW p \in Packet
  PROVE  /\ Placed(packets, p) \in Seq(Packet)
         /\ Len(Placed(packets, p)) \in {Len(packets), Len(packets) + 1}
<1>. DEFINE places == {k \in 1..Len(packets) : IsNewer(p.ts, packets[k].ts)}
                        \union {Len(packets) + 1}
            i == Position(packets, p.ts)
            swapped == [k \in 1..Len(packets) |-> IF packets[k].ts = p.ts THEN p ELSE packets[k]]
<1>0. Len(packets) \in Nat
  OBVIOUS
<1>1. CASE \E k \in 1..Len(packets) : packets[k].ts = p.ts
  <2>1. Placed(packets, p) = swapped
    BY <1>1 DEF Placed
  <2>2. \A k \in 1..Len(packets) : packets[k] \in Packet
    BY ElementOfSeq
  <2>3. swapped \in [1..Len(packets) -> Packet]
    BY <2>2
  <2>. HIDE DEF swapped
  <2>4. swapped \in Seq(Packet) /\ Len(swapped) = Len(packets)
    BY <1>0, <2>3
  <2>. QED  BY <2>1, <2>4
<1>2. CASE ~ \E k \in 1..Len(packets) : packets[k].ts = p.ts
  <2>1. Placed(packets, p) = InsertAt(packets, i, p)
    BY <1>2 DEF Placed
  <2>2. places \in SUBSET Nat /\ places # {} /\ places \subseteq 1..(Len(packets) + 1)
    BY <1>0
  <2>3. i = Min(places)
    BY DEF Position
  <2>4. i \in 1..(Len(packets) + 1)
    <3>. HIDE DEF places, i
    <3>. QED  BY <2>2, <2>3, MinOfSet
  <2>. HIDE DEF i
  <2>5. /\ InsertAt(packets, i, p) \in Seq(Packet)
        /\ Len(InsertAt(packets, i, p)) = Len(packets) + 1
    BY <2>4, InsertAtProperties
  <2>. QED  BY <2>1, <2>5
<1>. QED  BY <1>1, <1>2

(* A push keeps the packets within their limit. *)
LEMMA PushAudioProperties ==
  ASSUME NEW a \in AudioState, Len(a.packets) <= MaxPackets, NEW p \in Packet
  PROVE  PushAudio(a, p) \in AudioState /\ Len(PushAudio(a, p).packets) <= MaxPackets
<1>. DEFINE packets == Placed(a.packets, p)
            kept == IF Len(packets) > MaxPackets THEN Tail(packets) ELSE packets
            ewma == Smoothed(a, p.at)
            target == IF a.heardAt = Unset THEN a.target ELSE Clamped(ewma)
<1>0. /\ a.packets \in Seq(Packet) /\ a.target \in Int /\ a.ewma \in Int /\ a.heardAt \in Int
      /\ p.at \in Int /\ Len(a.packets) \in Nat /\ MaxPackets \in Nat \ {0}
  BY AudioConstants DEF AudioState, Packet
<1>1. /\ packets \in Seq(Packet) /\ Len(packets) \in {Len(a.packets), Len(a.packets) + 1}
  BY <1>0, PlacedProperties
<1>. HIDE DEF packets
<1>2. kept \in Seq(Packet) /\ Len(kept) <= MaxPackets
  <2>1. CASE Len(packets) > MaxPackets
    <3>1. packets # <<>> /\ kept = Tail(packets)
      BY <1>0, <1>1, <2>1
    <3>2. Tail(packets) \in Seq(Packet) /\ Len(Tail(packets)) = Len(packets) - 1
      BY <1>1, <3>1, HeadTailProperties
    <3>3. Len(Tail(packets)) <= MaxPackets
      <4>1. Len(packets) \in Nat /\ Len(packets) - 1 <= MaxPackets
        BY <1>0, <1>1
      <4>. QED  BY <3>2, <4>1
    <3>. HIDE DEF kept
    <3>. QED  BY <3>1, <3>2, <3>3
  <2>2. CASE ~(Len(packets) > MaxPackets)
    BY <1>0, <1>1, <2>2
  <2>. QED  BY <2>1, <2>2
<1>3. ewma \in Int
  <2>. DEFINE gap == p.at - a.heardAt
              mixed == (9 * a.ewma + Max({gap, a.ewma})) \div 10
  <2>1. Max({gap, a.ewma}) = IF gap >= a.ewma THEN gap ELSE a.ewma
    <3>1. gap \in Int /\ a.ewma \in Int
      BY <1>0
    <3>. HIDE DEF gap
    <3>. QED  BY ONLY <3>1, OfTwo
  <2>2. mixed \in Int
    BY <1>0, <2>1
  <2>. HIDE DEF mixed
  <2>3. Min({mixed, 500}) = IF mixed <= 500 THEN mixed ELSE 500
    BY <2>2, OfTwo
  <2>4. Min({mixed, 500}) \in Int
    BY <2>2, <2>3
  <2>5. ewma = a.ewma \/ ewma = Min({mixed, 500})
    BY DEF Smoothed, mixed
  <2>. HIDE DEF ewma
  <2>. QED  BY <1>0, <2>4, <2>5
<1>. HIDE DEF ewma
<1>4. target \in Int
  BY <1>0, <1>3, ClampedInt
<1>5. PushAudio(a, p) = [a EXCEPT !.packets = kept, !.ewma = ewma, !.heardAt = p.at,
                                  !.target = target]
  BY DEF PushAudio, packets, ewma
<1>. HIDE DEF kept, target
<1>. QED  BY <1>0, <1>2, <1>3, <1>4, <1>5 DEF AudioState

(* A call plays at most one packet, and the next tick is not due yet. *)
LEMMA DrainAudioProperties ==
  ASSUME NEW a \in AudioState, Len(a.packets) <= MaxPackets, NEW at \in Nat,
         NEW b, b = DrainAudio(a, at).state
  PROVE  b \in AudioState /\ Len(b.packets) <= MaxPackets /\ ~TickIsDue(b, at)
<1>0. a.packets \in Seq(Packet) /\ at \in Int /\ PlayoutTick \in Nat \ {0} /\ MaxPackets \in Nat
  BY AudioConstants DEF AudioState
<1>1. CASE ~TickIsDue(a, at)
  <2>1. b = a
    BY <1>1 DEF DrainAudio
  <2>. QED  BY <1>1, <2>1
<1>2. CASE TickIsDue(a, at)
  <2>. DEFINE kept == IF a.packets = <<>> THEN a.packets ELSE Tail(a.packets)
  <2>1. b = [a EXCEPT !.playAt = at + PlayoutTick, !.packets = kept]
    BY <1>2 DEF DrainAudio
  <2>2. kept \in Seq(Packet) /\ Len(kept) <= MaxPackets
    <3>1. CASE a.packets # <<>>
      <4>1. Tail(a.packets) \in Seq(Packet) /\ Len(Tail(a.packets)) = Len(a.packets) - 1
        BY <1>0, <3>1, HeadTailProperties
      <4>. QED  BY <1>0, <3>1, <4>1
    <3>. QED  BY <1>0, <3>1
  <2>. HIDE DEF kept
  <2>. DEFINE next == at + PlayoutTick
  <2>3. next \in Int /\ at < next /\ next # Unset
    BY <1>0 DEF Unset
  <2>. HIDE DEF next
  <2>4. /\ b = [a EXCEPT !.playAt = next, !.packets = kept]
        /\ b \in AudioState /\ b.packets = kept /\ b.playAt = next
    <3>1. b = [a EXCEPT !.playAt = next, !.packets = kept]
      BY <2>1 DEF next
    <3>2. b \in AudioState
      BY <2>2, <2>3, <3>1 DEF AudioState
    <3>3. b.packets = kept /\ b.playAt = next
      BY <3>1 DEF AudioState
    <3>. QED  BY <3>1, <3>2, <3>3
  <2>5. ~TickIsDue(b, at)
    BY <1>0, <2>3, <2>4 DEF TickIsDue
  <2>. QED  BY <2>2, <2>4, <2>5
<1>. QED  BY <1>1, <1>2

(* When nothing is due now, nothing is due before the wake-up. *)
LEMMA AudioBeforeWake ==
  ASSUME NEW a \in AudioState, NEW t \in Nat, ~TickIsDue(a, t),
         NEW at \in (t + 1)..(AudioWake(a) - 1)
  PROVE  ~TickIsDue(a, at)
<1>0. a.packets \in Seq(Packet) /\ a.target \in Int /\ a.playAt \in Int
  BY DEF AudioState
<1>1. CASE a.playAt # Unset
  <2>1. AudioWake(a) = a.playAt
    BY <1>1 DEF AudioWake
  <2>2. at < a.playAt /\ at \in Int
    BY <1>0, <2>1
  <2>. QED  BY <1>0, <1>1, <2>2 DEF TickIsDue
<1>2. CASE a.playAt = Unset /\ a.packets = <<>>
  BY <1>2 DEF TickIsDue
<1>3. CASE a.playAt = Unset /\ a.packets # <<>>
  <2>. DEFINE first == a.packets[1].at
              goal == Clamped(a.target)
  <2>1. a.packets[1] \in Packet
    <3>1. 1 \in 1..Len(a.packets)
      BY <1>0, <1>3
    <3>. QED  BY <1>0, <3>1, ElementOfSeq
  <2>2. first \in Int /\ goal \in Int
    <3>1. first \in Int
      BY <2>1 DEF Packet
    <3>2. goal \in Int
      BY <1>0, ClampedInt
    <3>. QED  BY <3>1, <3>2
  <2>3. AudioWake(a) = first + goal
    BY <1>3 DEF AudioWake
  <2>4. ~(BufferDelay(a) >= goal)
    BY <1>3 DEF TickIsDue
  <2>5. TickIsDue(a, at) => BufferDelay(a) >= goal \/ at - first >= goal
    BY <1>3 DEF TickIsDue
  <2>. HIDE DEF first, goal
  <2>6. ~(at - first >= goal)
    BY <2>2, <2>3
  <2>. QED  BY <2>4, <2>5, <2>6
<1>. QED  BY <1>1, <1>2, <1>3

---------------------------------------------------------------------------
(* The inductive invariant *)

BufferedAsSent(frames, all) ==
  \A k \in 1..Len(frames) : /\ frames[k].id \in 1..Len(all)
                            /\ frames[k].key = all[frames[k].id].key

NoKeyIn(frames) == \A k \in 1..Len(frames) : ~frames[k].key

SentInv ==
  /\ kind \in Kinds /\ now \in 0..MaxTime
  /\ sent \in Seq(Sendable) /\ Len(sent) <= MaxFrames
  /\ \A k \in 1..Len(sent) : sent[k].id = k

JoinedInv ==
  /\ Joining(reassembly, sent)
  /\ assembled \in Seq(Frame) /\ AsSent(assembled, sent) /\ NoEarlyRepeat(assembled)
  /\ HistoryOf(reassembly.retired, assembled)

BufferInv ==
  /\ video \in VideoState /\ Ascending(video.frames) /\ Len(video.frames) <= MaxBuffered
  /\ BufferedAsSent(video.frames, sent)
  /\ audio \in AudioState /\ Len(audio.packets) <= MaxPackets

(* What the decoder was given, and what is still to be decided. *)
PlayoutInv ==
  /\ kind = "Video" =>
       /\ released \in Seq(Decoded) /\ ChainOf(released) /\ video.last = LastOf(released)
       /\ FastStart /\ video.required => NoKeyIn(video.frames)
  /\ outcome.drained =>
       /\ kind = "Video" => AtRest(video, now)
       /\ kind = "Audio" => ~TickIsDue(audio, now)

TrackInv == SentInv /\ JoinedInv /\ BufferInv /\ PlayoutInv

(* What the assumption on the track says. *)
LEMMA TrackConstants ==
  /\ Kinds \subseteq {"Video", "Audio"} /\ Lens \subseteq Nat /\ TimeSteps \subseteq Nat
  /\ FirstTimestamp \in Nat /\ MaxFrames \in Nat /\ MaxReopened \in Nat /\ MaxTime \in Nat
BY TrackAssumption

(* It holds when the track is added. *)
LEMMA TrackInit == Init => TrackInv
<1>. SUFFICES ASSUME Init  PROVE TrackInv
  OBVIOUS
<1>1. SentInv
  BY TrackConstants DEF Init, SentInv
<1>2. JoinedInv
  <2>1. /\ NoFrames.frames = [id \in {} |-> {}] /\ NoFrames.retired = <<>>
        /\ NoFrames = [frames |-> NoFrames.frames, retired |-> NoFrames.retired]
    BY DEF NoFrames
  <2>2. DOMAIN NoFrames.frames = {}
    BY <2>1
  <2>3. Cardinality({}) <= MaxIncompleteFrames
    <3>1. Cardinality({}) = 0
      BY FS_EmptySet
    <3>. QED  BY <3>1, ReassemblyConstants
  <2>. HIDE DEF NoFrames
  <2>4. Joining(reassembly, sent)
    BY <2>1, <2>2, <2>3, ReassemblyConstants DEF Init, Joining
  <2>5. HistoryOf(reassembly.retired, assembled)
    BY <2>1, ReassemblyConstants DEF Init, HistoryOf
  <2>. QED  BY <2>4, <2>5 DEF Init, JoinedInv, AsSent, NoEarlyRepeat
<1>3. BufferInv
  <2>1. video = EmptyVideo /\ audio = EmptyAudio
    BY DEF Init
  <2>2. video \in VideoState /\ video.frames = <<>>
    BY <2>1, VideoConstants DEF EmptyVideo, VideoState, Never
  <2>3. audio \in AudioState /\ audio.packets = <<>>
    BY <2>1, AudioConstants DEF EmptyAudio, AudioState, Unset
  <2>. QED  BY <2>2, <2>3, VideoConstants, AudioConstants DEF BufferInv, Ascending, BufferedAsSent
<1>4. PlayoutInv
  <2>1. /\ video.frames = <<>> /\ video.last = Never /\ released = <<>>
        /\ outcome.drained = FALSE
    BY DEF Init, EmptyVideo, Quiet
  <2>. QED  BY <2>1 DEF PlayoutInv, ChainOf, LastOf, NoKeyIn
<1>. QED  BY <1>1, <1>2, <1>3, <1>4 DEF TrackInv

(* Frames that are sent later change nothing of those that are on their way. *)
LEMMA SentGrows ==
  ASSUME NEW all \in Seq(Sendable), NEW frame \in Sendable, NEW r, Joining(r, all),
         NEW done, AsSent(done, all), NEW frames, BufferedAsSent(frames, all)
  PROVE  /\ Joining(r, Append(all, frame)) /\ AsSent(done, Append(all, frame))
         /\ BufferedAsSent(frames, Append(all, frame))
<1>. DEFINE more == Append(all, frame)
<1>1. Len(all) \in Nat /\ Len(more) = Len(all) + 1 /\ \A k \in 1..Len(all) : more[k] = all[k]
  BY AppendProperties
<1>. HIDE DEF more
<1>2. \A k \in 1..Len(all) : k \in 1..Len(more)
  BY <1>1
<1>3. Joining(r, more)
  <2>1. DOMAIN r.frames \subseteq 1..Len(more)
    BY <1>2 DEF Joining
  <2>2. \A id \in DOMAIN r.frames : PartOf(r.frames[id], more[id])
    BY <1>1 DEF Joining
  <2>. QED  BY <2>1, <2>2 DEF Joining
<1>4. AsSent(done, more)
  BY <1>1, <1>2 DEF AsSent
<1>5. BufferedAsSent(frames, more)
  BY <1>1, <1>2 DEF BufferedAsSent
<1>. QED  BY <1>3, <1>4, <1>5 DEF more

(* A drain leaves the buffers in order and the decoder with its chain.      *)
LEMMA DrainKeeps ==
  ASSUME TrackInv, NEW v \in VideoState, NEW a \in AudioState,
         Ascending(v.frames), Len(v.frames) <= MaxBuffered, BufferedAsSent(v.frames, sent),
         v.last = video.last, Len(a.packets) <= MaxPackets,
         DrainPlayout(v, a), kind' = kind, sent' = sent, now' = now
  PROVE  BufferInv' /\ PlayoutInv'
<1>. DEFINE dv == DrainVideo(v, now)
            da == DrainAudio(a, now)
<1>0. now \in Nat /\ MaxBuffered \in Nat
  BY TrackConstants, VideoConstants DEF TrackInv, SentInv
<1>1. CASE kind = "Video"
  <2>1. video' = dv.state /\ audio' = a /\ released' = released \o dv.released
    BY <1>1 DEF DrainPlayout
  <2>2. dv \in Drained /\ Ascending(dv.state.frames) /\ Among(dv.state.frames, v.frames)
    BY <1>0, DrainTakes
  <2>3. AtRest(dv.state, now)
    BY <1>0, DrainRests
  <2>4. released \in Seq(Decoded) /\ ChainOf(released) /\ v.last = LastOf(released)
    BY <1>1 DEF TrackInv, PlayoutInv
  <2>5. /\ released' \in Seq(Decoded) /\ ChainOf(released')
        /\ dv.state.last = LastOf(released')
    BY <1>0, <2>1, <2>4, DrainChain
  <2>. HIDE DEF dv, da
  <2>6. dv.state \in VideoState
    BY <2>2 DEF Drained
  <2>7. Len(dv.state.frames) <= MaxBuffered
    <3>1. Len(dv.state.frames) <= Len(v.frames) /\ Len(dv.state.frames) \in Nat
          /\ Len(v.frames) \in Nat
      BY <2>2, <2>6 DEF Among, VideoState
    <3>. QED  BY <1>0, <3>1
  <2>8. BufferedAsSent(dv.state.frames, sent)
    BY <2>2 DEF Among, BufferedAsSent
  <2>9. BufferInv'
    BY <2>1, <2>2, <2>6, <2>7, <2>8 DEF BufferInv
  <2>10. FastStart /\ dv.state.required => NoKeyIn(dv.state.frames)
    <3>. SUFFICES ASSUME FastStart, dv.state.required,
                         NEW k \in 1..Len(dv.state.frames), dv.state.frames[k].key
                  PROVE  FALSE
      BY DEF NoKeyIn
    <3>1. IsDecodable(dv.state, dv.state.frames[k]) /\ IsDue(dv.state, dv.state.frames[k], now)
      BY DEF IsDecodable, IsDue
    <3>2. k \in Playable(dv.state, now)
      BY <3>1 DEF Playable
    <3>. QED  BY <2>3, <3>2 DEF AtRest
  <2>11. kind' # "Audio"
    BY <1>1
  <2>12. AtRest(video', now')
    BY <2>1, <2>3
  <2>13. ChainOf(released') /\ video'.last = LastOf(released')
         /\ (FastStart /\ video'.required => NoKeyIn(video'.frames))
    BY <2>1, <2>5, <2>10
  <2>. QED  BY <2>5, <2>9, <2>11, <2>12, <2>13 DEF PlayoutInv
<1>2. CASE kind = "Audio"
  <2>1. video' = v /\ audio' = da.state
    BY <1>2 DEF DrainPlayout
  <2>2. da.state \in AudioState /\ Len(da.state.packets) <= MaxPackets
        /\ ~TickIsDue(da.state, now)
    BY <1>0, DrainAudioProperties
  <2>. HIDE DEF da
  <2>3. BufferInv'
    BY <2>1, <2>2 DEF BufferInv
  <2>4. ~TickIsDue(audio', now') /\ kind' # "Video"
    BY <1>2, <2>1, <2>2
  <2>. QED  BY <2>3, <2>4 DEF PlayoutInv
<1>3. kind \in {"Video", "Audio"}
  BY TrackConstants DEF TrackInv, SentInv
<1>. QED  BY <1>1, <1>2, <1>3

(* fragment *)
LEMMA SendFrameKeeps == TrackInv /\ SendFrame => TrackInv'
<1>. SUFFICES ASSUME TrackInv, SendFrame  PROVE TrackInv'
  OBVIOUS
<1>1. PICK len \in Lens, key \in BOOLEAN :
        /\ Len(sent) < MaxFrames
        /\ Split([id |-> Len(sent) + 1, key |-> key, len |-> len]) # {}
        /\ sent' = Append(sent, [id |-> Len(sent) + 1, key |-> key, len |-> len])
        /\ outcome' = Quiet
        /\ UNCHANGED <<kind, bufferVars, assembled, released, now>>
  BY DEF SendFrame
<1>. DEFINE frame == [id |-> Len(sent) + 1, key |-> key, len |-> len]
<1>2. /\ sent \in Seq(Sendable) /\ Len(sent) \in Nat /\ kind \in Kinds /\ now \in 0..MaxTime
      /\ \A k \in 1..Len(sent) : sent[k].id = k
  BY DEF TrackInv, SentInv
<1>3. frame \in Sendable /\ frame.id = Len(sent) + 1
  <2>1. Splits(frame.len)
    BY <1>1 DEF Split
  <2>2. len \in Nat
    BY TrackConstants
  <2>. QED  BY <1>2, <2>1, <2>2 DEF Sendable, Frame
<1>4. sent' = Append(sent, frame)
  BY <1>1
<1>5. /\ reassembly' = reassembly /\ video' = video /\ audio' = audio /\ kind' = kind
      /\ assembled' = assembled /\ released' = released /\ now' = now
      /\ outcome'.drained = FALSE /\ Len(sent) < MaxFrames
  BY <1>1 DEF bufferVars, Quiet
<1>. HIDE DEF frame
<1>6. /\ sent' \in Seq(Sendable) /\ Len(sent') = Len(sent) + 1 /\ sent'[Len(sent) + 1] = frame
      /\ \A k \in 1..Len(sent) : sent'[k] = sent[k]
  BY <1>2, <1>3, <1>4, AppendProperties
<1>7. SentInv'
  <2>1. \A k \in 1..Len(sent') : sent'[k].id = k
    BY <1>2, <1>3, <1>6
  <2>2. Len(sent') <= MaxFrames
    BY <1>2, <1>5, <1>6, TrackConstants
  <2>. QED  BY <1>2, <1>5, <1>6, <2>1, <2>2 DEF SentInv
<1>8. /\ Joining(reassembly, sent') /\ AsSent(assembled, sent')
      /\ BufferedAsSent(video.frames, sent')
  <2>1. /\ Joining(reassembly, sent) /\ AsSent(assembled, sent)
        /\ BufferedAsSent(video.frames, sent)
    BY DEF TrackInv, JoinedInv, BufferInv
  <2>. QED  BY <1>2, <1>3, <1>4, <2>1, SentGrows
<1>9. JoinedInv' /\ BufferInv'
  BY <1>5, <1>8 DEF TrackInv, JoinedInv, BufferInv
<1>10. PlayoutInv'
  BY <1>5 DEF TrackInv, PlayoutInv
<1>. QED  BY <1>7, <1>9, <1>10 DEF TrackInv

(* on_fragment, when the piece completes no frame or one. *)
LEMMA OnFragmentCases ==
  ASSUME TrackInv, OnFragment
  PROVE  /\ JoinedInv' /\ kind' = kind /\ sent' = sent /\ now' = now
         /\ \/ assembled' = assembled /\ DrainPlayout(video, audio)
            \/ \E id \in 1..Len(sent) :
                 LET p == [id |-> id, ts |-> TimestampOf(id), at |-> now] IN
                 /\ assembled' = Append(assembled, sent[id])
                 /\ DrainPlayout(IF kind = "Video" THEN Push(video, sent[id], now) ELSE video,
                                 IF kind = "Audio" THEN PushAudio(audio, p) ELSE audio)
<1>1. PICK frag \in OnTheWire :
        /\ reassembly' = Forward(reassembly, frag).state
        /\ assembled' = assembled \o Forward(reassembly, frag).done
        /\ DrainPlayout(
             IF Forward(reassembly, frag).done # <<>> /\ kind = "Video"
               THEN Push(video, Forward(reassembly, frag).done[1], now) ELSE video,
             IF Forward(reassembly, frag).done # <<>> /\ kind = "Audio"
               THEN PushAudio(audio, [id |-> frag.id, ts |-> TimestampOf(frag.id), at |-> now])
               ELSE audio)
        /\ UNCHANGED <<kind, sent, now>>
  BY DEF OnFragment
<1>2. PICK id \in 1..Len(sent) : frag \in Split(sent[id])
  BY DEF OnTheWire
<1>. DEFINE f == Forward(reassembly, frag)
<1>3. /\ sent \in Seq(Sendable) /\ \A k \in 1..Len(sent) : sent[k].id = k
      /\ Joining(reassembly, sent) /\ assembled \in Seq(Frame) /\ AsSent(assembled, sent)
      /\ NoEarlyRepeat(assembled) /\ HistoryOf(reassembly.retired, assembled)
  BY DEF TrackInv, SentInv, JoinedInv
<1>4. /\ Joining(f.state, sent)
      /\ \/ f.done = <<>> /\ f.state.retired = reassembly.retired
         \/ /\ f.done = <<sent[id]>> /\ ~IsRetired(reassembly, id)
            /\ f.state.retired = Remembered(reassembly.retired, id)
  BY <1>2, <1>3, ForwardProperties
<1>5. /\ reassembly' = f.state /\ assembled' = assembled \o f.done
      /\ kind' = kind /\ sent' = sent /\ now' = now
  BY <1>1
<1>6. CASE f.done = <<>> /\ f.state.retired = reassembly.retired
  <2>1. assembled' = assembled
    BY <1>3, <1>5, <1>6, ConcatEmptySeq
  <2>2. DrainPlayout(video, audio)
    BY <1>1, <1>6
  <2>. HIDE DEF f
  <2>3. JoinedInv'
    BY <1>3, <1>4, <1>5, <1>6, <2>1 DEF JoinedInv
  <2>. QED  BY <1>5, <2>1, <2>2, <2>3
<1>7. CASE /\ f.done = <<sent[id]>> /\ ~IsRetired(reassembly, id)
           /\ f.state.retired = Remembered(reassembly.retired, id)
  <2>1. sent[id] \in Frame /\ sent[id].id = id
    BY <1>3, ElementOfSeq DEF Sendable
  <2>2. assembled' = Append(assembled, sent[id])
    BY <1>3, <1>5, <1>7, <2>1, AppendIsConcat
  <2>3. f.done # <<>> /\ f.done[1] = sent[id]
    BY <1>7
  <2>4. frag.id = id
    <3>1. Splits(sent[id].len)
      BY <1>3, ElementOfSeq DEF Sendable
    <3>. QED  BY <1>2, <2>1, <3>1 DEF Split
  <2>5. LET p == [id |-> id, ts |-> TimestampOf(id), at |-> now] IN
        DrainPlayout(IF kind = "Video" THEN Push(video, sent[id], now) ELSE video,
                     IF kind = "Audio" THEN PushAudio(audio, p) ELSE audio)
    BY <1>1, <2>3, <2>4
  <2>. HIDE DEF f
  <2>6. /\ assembled' \in Seq(Frame) /\ NoEarlyRepeat(assembled')
        /\ HistoryOf(f.state.retired, assembled')
    <3>1. reassembly.retired \in Seq(Nat)
      BY <1>3 DEF Joining
    <3>2. \A k \in 1..Len(reassembly.retired) : reassembly.retired[k] # sent[id].id
      BY <1>7, <2>1 DEF IsRetired
    <3>. QED  BY <1>3, <1>7, <2>1, <2>2, <3>1, <3>2, OneFrameMore
  <2>7. AsSent(assembled', sent)
    <3>1. /\ Len(assembled) \in Nat /\ Len(assembled') = Len(assembled) + 1
          /\ assembled'[Len(assembled) + 1] = sent[id]
          /\ \A k \in 1..Len(assembled) : assembled'[k] = assembled[k]
      BY <1>3, <2>1, <2>2, AppendProperties
    <3>2. ASSUME NEW k \in 1..Len(assembled')
          PROVE  assembled'[k].id \in 1..Len(sent) /\ assembled'[k] = sent[assembled'[k].id]
      <4>1. CASE k \in 1..Len(assembled)
        BY <1>3, <3>1, <4>1 DEF AsSent
      <4>2. CASE k = Len(assembled) + 1
        BY <2>1, <3>1, <4>2
      <4>. QED  BY <3>1, <4>1, <4>2
    <3>. QED  BY <3>2 DEF AsSent
  <2>8. JoinedInv'
    BY <1>4, <1>5, <2>6, <2>7 DEF JoinedInv
  <2>. QED  BY <1>5, <2>2, <2>5, <2>8
<1>. QED  BY <1>4, <1>6, <1>7

(* What a buffer that took a complete frame hands to the drain. *)
LEMMA PushKeeps ==
  ASSUME TrackInv, NEW id \in 1..Len(sent)
  PROVE  LET w == Push(video, sent[id], now)
             b == PushAudio(audio, [id |-> id, ts |-> TimestampOf(id), at |-> now])
         IN /\ w \in VideoState /\ Ascending(w.frames) /\ Len(w.frames) <= MaxBuffered
            /\ BufferedAsSent(w.frames, sent) /\ w.last = video.last
            /\ b \in AudioState /\ Len(b.packets) <= MaxPackets
<1>. DEFINE w == Push(video, sent[id], now)
            p == [id |-> id, ts |-> TimestampOf(id), at |-> now]
<1>1. /\ sent[id] \in Frame /\ sent[id].id = id /\ now \in Nat /\ id \in Nat
  <2>1. sent[id] \in Sendable
    BY ElementOfSeq DEF TrackInv, SentInv
  <2>2. now \in Nat /\ sent[id].id = id
    BY DEF TrackInv, SentInv
  <2>. QED  BY <2>1, <2>2 DEF Sendable
<1>2. /\ video \in VideoState /\ Ascending(video.frames) /\ Len(video.frames) <= MaxBuffered
      /\ BufferedAsSent(video.frames, sent)
      /\ audio \in AudioState /\ Len(audio.packets) <= MaxPackets
  BY DEF TrackInv, BufferInv
<1>3. /\ w \in VideoState /\ Ascending(w.frames) /\ Len(w.frames) <= MaxBuffered
      /\ w.last = video.last
      /\ Buffers(w.frames, video.frames, sent[id])
  <2>1. w = Push(video, sent[id], now)
    OBVIOUS
  <2>. HIDE DEF w
  <2>. QED  BY ONLY <1>1, <1>2, <2>1, PushProperties
<1>4. BufferedAsSent(w.frames, sent)
  BY <1>1, <1>2, <1>3 DEF BufferedAsSent, Buffers
<1>5. p \in Packet
  <2>1. TimestampOf(id) \in Nat
    <3>1. FirstTimestamp + id \in Nat /\ TimestampSpace \in Nat \ {0}
      BY <1>1, TrackConstants, AudioConstants
    <3>. QED  BY <3>1, Quotient DEF TimestampOf
  <2>. QED  BY <1>1, <2>1 DEF Packet
<1>6. PushAudio(audio, p) \in AudioState /\ Len(PushAudio(audio, p).packets) <= MaxPackets
  BY <1>2, <1>5, PushAudioProperties
<1>. QED  BY <1>3, <1>4, <1>6

(* on_fragment *)
LEMMA OnFragmentKeeps == TrackInv /\ OnFragment => TrackInv'
<1>. SUFFICES ASSUME TrackInv, OnFragment  PROVE TrackInv'
  OBVIOUS
<1>1. JoinedInv' /\ kind' = kind /\ sent' = sent /\ now' = now
  BY OnFragmentCases
<1>2. SentInv'
  BY <1>1 DEF TrackInv, SentInv
<1>3. /\ video \in VideoState /\ Ascending(video.frames) /\ Len(video.frames) <= MaxBuffered
      /\ BufferedAsSent(video.frames, sent)
      /\ audio \in AudioState /\ Len(audio.packets) <= MaxPackets
  BY DEF TrackInv, BufferInv
<1>4. CASE DrainPlayout(video, audio)
  <2>1. BufferInv' /\ PlayoutInv'
    BY <1>1, <1>3, <1>4, DrainKeeps
  <2>. QED  BY <1>1, <1>2, <2>1 DEF TrackInv
<1>5. ASSUME NEW id \in 1..Len(sent),
             DrainPlayout(IF kind = "Video" THEN Push(video, sent[id], now) ELSE video,
                          IF kind = "Audio"
                            THEN PushAudio(audio, [id |-> id, ts |-> TimestampOf(id), at |-> now])
                            ELSE audio)
      PROVE  TrackInv'
  <2>. DEFINE v == IF kind = "Video" THEN Push(video, sent[id], now) ELSE video
              p == [id |-> id, ts |-> TimestampOf(id), at |-> now]
              a == IF kind = "Audio" THEN PushAudio(audio, p) ELSE audio
  <2>1. /\ v \in VideoState /\ Ascending(v.frames) /\ Len(v.frames) <= MaxBuffered
        /\ BufferedAsSent(v.frames, sent) /\ v.last = video.last
    BY <1>3, PushKeeps
  <2>2. a \in AudioState /\ Len(a.packets) <= MaxPackets
    BY <1>3, PushKeeps
  <2>3. DrainPlayout(v, a)
    BY <1>5
  <2>. HIDE DEF v, a
  <2>4. BufferInv' /\ PlayoutInv'
    BY <1>1, <2>1, <2>2, <2>3, DrainKeeps
  <2>. QED  BY <1>1, <1>2, <2>4 DEF TrackInv
<1>. QED  BY <1>4, <1>5, OnFragmentCases

(* tick *)
LEMMA TickKeeps == TrackInv /\ Tick => TrackInv'
<1>. SUFFICES ASSUME TrackInv, Tick  PROVE TrackInv'
  OBVIOUS
<1>1. /\ DrainPlayout(video, audio) /\ kind' = kind /\ sent' = sent /\ now' = now
      /\ reassembly' = reassembly /\ assembled' = assembled
  BY DEF Tick
<1>2. /\ video \in VideoState /\ Ascending(video.frames) /\ Len(video.frames) <= MaxBuffered
      /\ BufferedAsSent(video.frames, sent)
      /\ audio \in AudioState /\ Len(audio.packets) <= MaxPackets
  BY DEF TrackInv, BufferInv
<1>3. BufferInv' /\ PlayoutInv'
  BY <1>1, <1>2, DrainKeeps
<1>4. SentInv' /\ JoinedInv'
  BY <1>1 DEF TrackInv, SentInv, JoinedInv
<1>. QED  BY <1>3, <1>4 DEF TrackInv

(* Time passes. *)
LEMMA PassKeeps == TrackInv /\ Pass => TrackInv'
<1>. SUFFICES ASSUME TrackInv, Pass  PROVE TrackInv'
  OBVIOUS
<1>1. PICK step \in TimeSteps :
        /\ now + step <= MaxTime /\ now' = now + step /\ outcome' = Quiet
        /\ UNCHANGED <<kind, sent, bufferVars, assembled, released>>
  BY DEF Pass
<1>2. /\ reassembly' = reassembly /\ video' = video /\ audio' = audio /\ kind' = kind
      /\ sent' = sent /\ assembled' = assembled /\ released' = released
      /\ outcome'.drained = FALSE
  BY <1>1 DEF bufferVars, Quiet
<1>3. now' \in 0..MaxTime
  <2>1. now \in Nat /\ step \in Nat
    BY TrackConstants DEF TrackInv, SentInv
  <2>. QED  BY <1>1, <2>1, TrackConstants
<1>4. SentInv' /\ JoinedInv' /\ BufferInv'
  BY <1>2, <1>3 DEF TrackInv, SentInv, JoinedInv, BufferInv
<1>5. PlayoutInv'
  BY <1>2 DEF TrackInv, PlayoutInv
<1>. QED  BY <1>4, <1>5 DEF TrackInv

(* Every step keeps it. *)
LEMMA TrackStep == TrackInv /\ [Next]_vars => TrackInv'
<1>. SUFFICES ASSUME TrackInv, [Next]_vars  PROVE TrackInv'
  OBVIOUS
<1>1. CASE SendFrame  BY <1>1, SendFrameKeeps
<1>2. CASE OnFragment  BY <1>2, OnFragmentKeeps
<1>3. CASE Tick  BY <1>3, TickKeeps
<1>4. CASE Pass  BY <1>4, PassKeeps
<1>5. CASE UNCHANGED vars
  BY <1>5 DEF vars, bufferVars, TrackInv, SentInv, JoinedInv, BufferInv, PlayoutInv
<1>. QED  BY <1>1, <1>2, <1>3, <1>4, <1>5 DEF Next

---------------------------------------------------------------------------
(* What follows *)

(* Every reachable state satisfies the invariant. *)
THEOREM TrackSafe == Spec => []TrackInv
<1>. QED  BY TrackInit, TrackStep, PTL DEF Spec

(* The reassembly table, the ring of retired ids and both buffers stay      *)
(* within their limits, whatever arrives (src/core/fragment.rs, jitter.rs). *)
THEOREM TrackTypes == Spec => []TypeOK
<1>1. ASSUME TrackInv  PROVE TypeOK
  <2>1. kind \in Kinds /\ now \in 0..MaxTime /\ Len(sent) <= MaxFrames
    BY <1>1 DEF TrackInv, SentInv
  <2>2. /\ Cardinality(DOMAIN reassembly.frames) <= MaxIncompleteFrames
        /\ Len(reassembly.retired) <= RetiredHistory
    BY <1>1 DEF TrackInv, JoinedInv, Joining
  <2>3. ASSUME NEW id \in DOMAIN reassembly.frames  PROVE reassembly.frames[id] \in Incomplete
    <3>1. id \in 1..Len(sent) /\ PartOf(reassembly.frames[id], sent[id])
      BY <1>1 DEF TrackInv, JoinedInv, Joining
    <3>2. sent[id] \in Sendable
      BY <1>1, <3>1, ElementOfSeq DEF TrackInv, SentInv
    <3>. QED  BY <3>1, <3>2, PartIsIncomplete
  <2>4. /\ Ascending(video.frames) /\ Len(video.frames) <= MaxBuffered
        /\ Len(audio.packets) <= MaxPackets /\ Len(video.frames) \in Nat
    BY <1>1 DEF TrackInv, BufferInv, VideoState
  <2>5. ASSUME NEW k \in 1..(Len(video.frames) - 1)
        PROVE  video.frames[k].id < video.frames[k + 1].id
    <3>1. k \in 1..Len(video.frames) /\ k + 1 \in 1..Len(video.frames) /\ k < k + 1
      BY <2>4
    <3>. QED  BY <2>4, <3>1 DEF Ascending
  <2>. QED  BY <2>1, <2>2, <2>3, <2>4, <2>5 DEF TypeOK
<1>. QED  BY <1>1, TrackSafe, PTL

(* What comes out of the reassembly is what went into split, and nothing    *)
(* comes out again before RetiredHistory others have                        *)
(* (src/core/fragment.rs).                                                  *)
THEOREM FramesExact == Spec => []AssembledExact
<1>1. ASSUME TrackInv  PROVE AssembledExact
  BY <1>1 DEF TrackInv, JoinedInv, AsSent, NoEarlyRepeat, AssembledExact
<1>. QED  BY <1>1, TrackSafe, PTL

(* The decoder is given no delta without the frame before it                *)
(* (src/core/jitter.rs, is_decodable).                                      *)
THEOREM ChainUnbroken == Spec => []DecodeChain
<1>1. ASSUME TrackInv  PROVE DecodeChain
  BY <1>1 DEF TrackInv, PlayoutInv, ChainOf, DecodeChain
<1>. QED  BY <1>1, TrackSafe, PTL

(* After a drain, whoever waits for a keyframe that is not there has asked  *)
(* for one lately (src/core/jitter.rs, keyframe_due).                       *)
THEOREM WaitersHaveAsked == Spec => []KeyframeAskedFor
<1>1. ASSUME TrackInv  PROVE KeyframeAskedFor
  <2>. SUFFICES ASSUME outcome.drained, kind = "Video", video.required,
                       \A k \in 1..Len(video.frames) : ~video.frames[k].key
                PROVE  video.askedAt # Never /\ now - video.askedAt < KeyframeInterval
    BY DEF KeyframeAskedFor
  <2>1. AtRest(video, now)
    BY <1>1 DEF TrackInv, PlayoutInv
  <2>2. NothingDecodable(video)
    BY DEF NothingDecodable, IsDecodable
  <2>3. ~MayAsk(video, now)
    BY <2>1, <2>2 DEF AtRest, WantsKeyframe
  <2>4. video.askedAt \in Int /\ now \in Int
    BY <1>1, TrackConstants DEF TrackInv, BufferInv, SentInv, VideoState
  <2>. QED  BY <2>3, <2>4, VideoConstants DEF MayAsk
<1>. QED  BY <1>1, TrackSafe, PTL

(* The engine may sleep until the wake-up of its buffer: nothing is due     *)
(* before it (src/core/jitter.rs, next_wake_at and next_playout_at).        *)
THEOREM WakesInTime == Spec => []WakeNotLate
<1>1. ASSUME TrackInv  PROVE WakeNotLate
  <2>. SUFFICES ASSUME outcome.drained, NEW at \in (now + 1)..(WakeAt - 1)
                PROVE  IF kind = "Video"
                       THEN DrainVideo(video, at).released = <<>> \/ DrainVideo(video, at).asked
                       ELSE ~TickIsDue(audio, at)
    BY DEF WakeNotLate
  <2>1. now \in Nat /\ video \in VideoState /\ audio \in AudioState
        /\ kind \in {"Video", "Audio"}
    BY <1>1, TrackConstants DEF TrackInv, BufferInv, SentInv
  <2>2. CASE kind = "Video"
    <3>1. at \in (now + 1)..(VideoWake(video, now) - 1)
      BY <2>2 DEF WakeAt
    <3>. QED  BY <2>1, <2>2, <3>1, DrainBeforeWake
  <2>3. CASE kind = "Audio"
    <3>1. at \in (now + 1)..(AudioWake(audio) - 1)
      BY <2>3 DEF WakeAt
    <3>2. ~TickIsDue(audio, now)
      BY <1>1, <2>3 DEF TrackInv, PlayoutInv
    <3>. QED  BY <2>1, <2>3, <3>1, <3>2, AudioBeforeWake
  <2>. QED  BY <2>1, <2>2, <2>3
<1>. QED  BY <1>1, TrackSafe, PTL

(* A keyframe that is waited for is released by the call that completes it, *)
(* or was released before (src/core/jitter.rs, fast_start).                 *)
THEOREM RestartsAtOnce == Spec => KeyframeRestarts
<1>. DEFINE Restarts ==
       (kind = "Video" /\ FastStart /\ assembled' # assembled /\ Last(assembled').key
          /\ video.required)
       => \E k \in 1..Len(released') : released'[k].id = Last(assembled').id
<1>1. ASSUME TrackInv, [Next]_vars
      PROVE  [Restarts]_vars
  <2>. SUFFICES ASSUME kind = "Video", FastStart, assembled' # assembled,
                       Last(assembled').key, video.required
                PROVE  \E k \in 1..Len(released') : released'[k].id = Last(assembled').id
    OBVIOUS
  <2>1. OnFragment
    BY <1>1 DEF Next, SendFrame, Tick, Pass, vars
  <2>2. PICK id \in 1..Len(sent) :
          /\ assembled' = Append(assembled, sent[id])
          /\ DrainPlayout(Push(video, sent[id], now), audio)
    BY <1>1, <2>1, OnFragmentCases
  <2>. DEFINE w == Push(video, sent[id], now)
              d == DrainVideo(w, now)
  <2>3. /\ sent[id] \in Frame /\ sent[id].id = id /\ now \in Nat
        /\ assembled \in Seq(Frame) /\ video \in VideoState /\ Ascending(video.frames)
        /\ Len(video.frames) <= MaxBuffered /\ BufferedAsSent(video.frames, sent)
        /\ NoKeyIn(video.frames) /\ released \in Seq(Decoded)
    <3>1. sent[id] \in Sendable
      BY <1>1, ElementOfSeq DEF TrackInv, SentInv
    <3>. QED  BY <1>1, <3>1 DEF TrackInv, SentInv, JoinedInv, BufferInv, PlayoutInv, Sendable
  <2>4. Last(assembled') = sent[id] /\ sent[id].key
    <3>1. Last(assembled') = sent[id]
      BY <2>2, <2>3, AppendProperties DEF Last
    <3>. QED  BY <3>1
  <2>5. \A k \in 1..Len(video.frames) : video.frames[k].id # sent[id].id /\ ~video.frames[k].key
    BY <2>3, <2>4 DEF BufferedAsSent, NoKeyIn
  <2>6. PICK e \in Scheduled : /\ e.id = sent[id].id /\ e.key /\ now <= e.deadline
                               /\ OnlyKey(w.frames, e)
    <3>. DEFINE frame == sent[id]
    <3>1. /\ frame \in Frame /\ frame.key /\ w = Push(video, frame, now)
          /\ \A k \in 1..Len(video.frames) : video.frames[k].id # frame.id /\ ~video.frames[k].key
      BY <2>3, <2>4, <2>5
    <3>. HIDE DEF w, frame
    <3>2. \E e \in Scheduled : /\ e.id = frame.id /\ e.key /\ now <= e.deadline
                               /\ OnlyKey(w.frames, e)
      BY <2>3, <3>1, PushProperties
    <3>. QED  BY <3>2 DEF frame
  <2>7. w \in VideoState /\ w.required
    BY <2>3, PushProperties
  <2>8. now <= e.deadline + LateGrace
    BY <2>3, <2>6, VideoConstants DEF Scheduled
  <2>. HIDE DEF w
  <2>9. PICK k \in 1..Len(d.released) : d.released[k].id = e.id
    BY <2>3, <2>6, <2>7, <2>8, DrainRestarts
  <2>10. released' = released \o d.released /\ d.released \in Seq(Decoded)
    <3>1. d \in Drained
      <4>1. Ascending(w.frames)
        BY <2>3, PushProperties DEF w
      <4>. QED  BY <2>3, <2>7, <4>1, DrainTakes
    <3>2. released' = released \o d.released
      BY <2>2 DEF DrainPlayout, w
    <3>. QED  BY <3>1, <3>2 DEF Drained
  <2>. HIDE DEF d
  <2>11. /\ Len(released') = Len(released) + Len(d.released)
         /\ released'[Len(released) + k] = d.released[k]
    BY <2>3, <2>9, <2>10, ConcatProperties
  <2>12. Len(released) + k \in 1..Len(released')
    BY <2>3, <2>10, <2>11
  <2>. QED  BY <2>4, <2>6, <2>9, <2>11, <2>12
<1>. HIDE DEF Restarts
<1>2. TrackInv /\ [Next]_vars => [Restarts]_vars
  BY <1>1
<1>3. Spec => [][Restarts]_vars
  BY <1>2, TrackSafe, PTL DEF Spec
<1>. QED  BY <1>3 DEF KeyframeRestarts, Restarts
=============================================================================
