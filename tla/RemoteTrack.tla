---------------------------- MODULE RemoteTrack ----------------------------
(***************************************************************************)
(* One media stream from LocalTrack::fragment to the frames RemoteTrack    *)
(* (src/engine/track.rs) hands the host: the sender splits frames, the     *)
(* network loses, repeats and reorders the pieces, the receiver joins them *)
(* and a video or an audio buffer decides when each frame is released.     *)
(* Every entry of the engine that names this track ends in finish, which   *)
(* drains the buffer.  The NACK list of the track reads only media         *)
(* sequences and changes neither buffer: it is module Nack.                *)
(***************************************************************************)
EXTENDS Reassembly, VideoJitter, AudioJitter

CONSTANTS
  Kinds,          \* subset of {"Video", "Audio"}
  Lens,           \* payload lengths the application sends
  FirstTimestamp, \* timestamp of the first audio frame
  MaxFrames,      \* bound: frames sent
  MaxReopened,    \* bound: frames assembled beyond the first MaxFrames
  TimeSteps,      \* amounts by which time passes
  MaxTime         \* bound: milliseconds

ASSUME TrackAssumption ==
  /\ Kinds \subseteq {"Video", "Audio"} /\ Lens \subseteq Nat /\ TimeSteps \subseteq Nat
  /\ {FirstTimestamp, MaxFrames, MaxReopened, MaxTime} \subseteq Nat

VARIABLES
  kind,        \* which of the two buffers the track has
  sent,        \* frames the application pushed, by id
  reassembly, video, audio,
  assembled,   \* history: frames completed, in order
  released,    \* history: frames handed to the host, in order
  outcome,     \* whether the last step drained, asked for a keyframe, released how many
  now

bufferVars == <<reassembly, video, audio>>
vars == <<kind, sent, bufferVars, assembled, released, outcome, now>>

Quiet == [drained |-> FALSE, asked |-> FALSE, released |-> 0]

Init ==
  /\ kind \in Kinds
  /\ sent = <<>>
  /\ reassembly = NoFrames /\ video = EmptyVideo /\ audio = EmptyAudio
  /\ assembled = <<>> /\ released = <<>>
  /\ outcome = Quiet
  /\ now = 0

(* LocalTrack::fragment: a frame that does not split consumes no frame id. *)
SendFrame ==
  \E len \in Lens, key \in BOOLEAN :
    LET frame == [id |-> Len(sent) + 1, key |-> key, len |-> len] IN
    /\ Len(sent) < MaxFrames
    /\ kind = "Audio" => ~key
    /\ Split(frame) # {}
    /\ sent' = Append(sent, frame)
    /\ outcome' = Quiet
    /\ UNCHANGED <<kind, bufferVars, assembled, released, now>>

(* Whatever was sent may arrive, at any time and any number of times. *)
OnTheWire == UNION {Split(sent[id]) : id \in 1..Len(sent)}

TimestampOf(id) == (FirstTimestamp + id) % TimestampSpace

(* drain_playout: the buffer of the track's kind is polled. *)
DrainPlayout(v, a) ==
  LET dv == DrainVideo(v, now)
      da == DrainAudio(a, now)
      out == IF kind = "Video" THEN dv.released ELSE da.released
  IN /\ video' = IF kind = "Video" THEN dv.state ELSE v
     /\ audio' = IF kind = "Audio" THEN da.state ELSE a
     /\ released' = released \o out
     /\ outcome' = [drained |-> TRUE, asked |-> kind = "Video" /\ dv.asked,
                    released |-> Len(out)]

(* on_fragment and the finish that follows: a frame that is now complete    *)
(* goes into the buffer with the time and the timestamp of its last piece.  *)
OnFragment ==
  \E frag \in OnTheWire :
    LET f == Forward(reassembly, frag) IN
    /\ Len(assembled) + Len(f.done) <= MaxFrames + MaxReopened
    /\ reassembly' = f.state
    /\ assembled' = assembled \o f.done
    /\ DrainPlayout(
         IF f.done # <<>> /\ kind = "Video" THEN Push(video, f.done[1], now) ELSE video,
         IF f.done # <<>> /\ kind = "Audio"
           THEN PushAudio(audio, [id |-> frag.id, ts |-> TimestampOf(frag.id), at |-> now])
           ELSE audio)
    /\ UNCHANGED <<kind, sent, now>>

(* A tick, or an entry of the engine that is about another track. *)
Tick ==
  /\ DrainPlayout(video, audio)
  /\ UNCHANGED <<kind, sent, reassembly, assembled, now>>

Pass ==
  \E step \in TimeSteps :
    /\ now + step <= MaxTime
    /\ now' = now + step
    /\ outcome' = Quiet
    /\ UNCHANGED <<kind, sent, bufferVars, assembled, released>>

Next == SendFrame \/ OnFragment \/ Tick \/ Pass

Spec == Init /\ [][Next]_vars

---------------------------------------------------------------------------
TypeOK ==
  /\ kind \in Kinds
  /\ Len(sent) <= MaxFrames
  /\ \A id \in DOMAIN reassembly.frames : reassembly.frames[id] \in Incomplete
  /\ Cardinality(DOMAIN reassembly.frames) <= MaxIncompleteFrames
  /\ Len(reassembly.retired) <= RetiredHistory
  /\ \A k \in 1..(Len(video.frames) - 1) : video.frames[k].id < video.frames[k + 1].id
  /\ Len(video.frames) <= MaxBuffered /\ Len(audio.packets) <= MaxPackets
  /\ now \in 0..MaxTime

(* A frame that comes out of reassembly is the frame that went into split:  *)
(* whatever pieces were repeated, overtaken or left over from an earlier    *)
(* life of the table, none is missing and none is counted twice.  And "a    *)
(* late fragment cannot reopen the frame": it comes out again only after    *)
(* RetiredHistory others have.                                              *)
AssembledExact ==
  /\ \A k \in 1..Len(assembled) : assembled[k] = sent[assembled[k].id]
  /\ \A j, k \in 1..Len(assembled) :
       j < k /\ assembled[j].id = assembled[k].id => k - j > RetiredHistory

(* What the decoder is given: a delta is always preceded by the frame it    *)
(* refers to, through late drops, overflow, keyframe requests and frames    *)
(* that come back.                                                          *)
DecodeChain ==
  kind = "Video" => \A k \in 1..Len(released) :
    released[k].key \/ (k > 1 /\ released[k - 1].id + 1 = released[k].id)

(* A receiver that waits for a keyframe and has none asked for one within   *)
(* the last KeyframeInterval, whichever of its branches put it there.       *)
KeyframeAskedFor ==
  (outcome.drained /\ kind = "Video" /\ video.required
     /\ \A k \in 1..Len(video.frames) : ~video.frames[k].key)
  => video.askedAt # Never /\ now - video.askedAt < KeyframeInterval

(* The engine's wake-up is early enough: at no instant before it would a    *)
(* drain release anything, but for the keyframe that a request of the same  *)
(* drain lets start early (src/core/jitter.rs: "Earliest playout wake time  *)
(* while frames are buffered").                                             *)
WakeAt == IF kind = "Video" THEN VideoWake(video, now) ELSE AudioWake(audio)

WakeNotLate ==
  outcome.drained => \A at \in (now + 1)..(WakeAt - 1) :
    IF kind = "Video"
    THEN DrainVideo(video, at).released = <<>> \/ DrainVideo(video, at).asked
    ELSE ~TickIsDue(audio, at)

(* A waiting decoder starts at once: the call that completes a keyframe     *)
(* while one is required also releases it, unless it is released already.   *)
KeyframeRestarts ==
  [][(kind = "Video" /\ FastStart /\ assembled' # assembled /\ Last(assembled').key
        /\ video.required)
     => \E k \in 1..Len(released') : released'[k].id = Last(assembled').id]_vars

---------------------------------------------------------------------------
(* src/core/fragment.rs, of MAX_INCOMPLETE_FRAMES: a new id past the cap is *)
(* ignored "until the host removes a stale frame"; the host removes none,   *)
(* so frames that lost a piece for good end up refusing every new one.      *)
RoomForNewFrame ==
  \A id \in 1..Len(sent) :
    (id = MaxFrames /\ \A k \in 1..Len(assembled) : assembled[k].id # id)
      => \E frag \in Split(sent[id]) : Accepts(reassembly, frag)

(* src/core/jitter.rs, of AudioNetEq::push: "Inserts one encoded audio      *)
(* packet (ordered by `timestamp`)": what is handed out is not newer than   *)
(* what stays behind.                                                       *)
OldestFirst ==
  (kind = "Audio" /\ outcome.released > 0) =>
    \A k \in 1..Len(audio.packets) : ~IsNewer(Last(released).ts, audio.packets[k].ts)

(* src/core/jitter.rs, of VideoPoll::DroppedLate: "Frame was too late and a *)
(* newer decodable frame exists": a frame the decoder could take is dropped *)
(* only for a newer one that it can take.                                   *)
LateDropHasSuccessor ==
  (kind = "Video" /\ FrontIsLate(video, now) /\ IsDecodable(video, video.frames[1])) =>
    \E k \in 2..Len(video.frames) : IsDecodable(video, video.frames[k])
============================================================================
