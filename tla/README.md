# QRT in TLA+

QRT (`mycrl/qrt`, Rust) carries live audio and video between two peers. Media
and its feedback travel over UDP; the life of tracks is agreed on a TCP signal
connection. This directory models the parts of it whose correctness depends on
the order of things: the session task and the handles the application holds,
the handshake and the encryption of payloads, the receive inbox, the path a
packet takes out of one engine and a frame takes out of the other, the reports
by which the receiver steers the sender, and the repair of losses. TLC checks
the models on small instances; TLAPS proves the central invariants for
all values of the constants.

Paths such as `src/lib.rs` are relative to the repository's root.

## 1. Inventory of the system

| component | state it keeps | operations |
|---|---|---|
| **Session task** `src/lib.rs` (`drive`, `spawn_session`, `emit`) | next id, `opening` (pending opens and their deadlines), `outgoing` (encoder control senders), `incoming` (inboxes), the engine | one `select!` over commands, signals, UDP, a timer; ends every session resource when it returns |
| **Handles** `src/lib.rs` (`Session`, `SendTrack`, `RecvTrack`) | a sender of the bounded command channel each; a receiver of accepted tracks | `open`, `accept`, `send`, `close`, `info`, `Drop` |
| **Receive inbox** `src/lib.rs` (`FrameInbox`) | a bounded queue under a mutex, an atomic `closed`, a `Notify` | `push`, `close`, `recv` |
| **Reader task** `src/lib.rs` | the read half of the TCP connection | reads signals into a bounded channel |
| **Signal codec and handshake** `src/signal.rs`, `src/lib.rs` | none | `read`, `write`, `complete_handshake` |
| **Payload encryption** `src/crypto.rs` | nonce counter, 64-entry replay window | `seal`, `open` |
| **Engine** `src/engine/mod.rs` | track tables, paths, event queue, rates | `add_local_track`, `accept_local_track`, `remove_track`, `push_frame`, `push_packet`, `tick`, `poll_*` |
| **Path** `src/engine/path.rs` | pacer, estimator, history, feedback | `enqueue_packet`, `drain`, `on_arrival_feedback` |
| **Remote track** `src/engine/track.rs` | NACK requester, reassembler, jitter buffer | `on_fragment`, `poll_nacks`, `drain_playout`, `next_wake` |
| **Send queue** `src/core/send_queue.rs` | one FIFO per priority | `enqueue`, `pop` |
| **Pacer** `src/core/pacer.rs` | media debt, last update, rate | `poll`, `next_send_time`, `set_rates` |
| **Packet history** `src/core/history.rs` | stored packets, their order, retransmission limiter | `put`, `get_retransmission`, `mark_sent`, `cull` |
| **NACK requester** `src/core/nack.rs` | newest sequence number, missing ones with retries | `on_received`, `process` |
| **Arrival feedback** `src/core/feedback.rs` | recorder of arrivals; sender's table of packets in flight | `on_packet`, `poll`, `on_sent`, `on_feedback` |
| **Bandwidth estimator** `src/core/bwe.rs` | trendline, AIMD, loss and probe state | `on_feedback`, `poll_probes` |
| **Jitter buffers** `src/core/jitter.rs` | waiting frames, decodability, target delay | `push`, `poll`, `get_decision`, `next_wake_at` |
| **Fragmentation** `src/core/fragment.rs` | incomplete frames, retired ids | `split`, `forward` |
| **FEC** `src/core/fec.rs` | a block of datagrams; the receiver's datagrams and rows | `push`, `flush`, `insert_media`, `insert_fec`; nothing in the engine uses it |
| **Packet codec** `src/core/packet.rs` | none | byte layout, NACK bit masks |

How they interact. Application tasks talk to the session task through a channel
of 32 commands; `Drop` uses `try_send` on it because it cannot wait. The reader
task forwards signals through a channel of 32. `drive` is the only task that
touches the engine, so the engine is sequential: its inputs are frames, packets
and ticks, each of which ends in `Engine::finish`, which queues what is due and
drains the pacer. Frames for the application go from the engine's event queue
into a `FrameInbox`, the only memory two tasks share directly.

Hard behaviours, and what correctness means for each component:

* *Session layer.* Signals and commands cross; opens time out while their
  answer travels; handles and futures are dropped anywhere; `drive` is
  suspended in a TCP write; either side ends at any moment. Correct means: the
  routes of a session and the engine's track table name the same tracks; ids of
  the two sides never collide and never come back; no media before the peer can
  route it; no half-open track; every open ends; dropping the handles ends both
  sessions.
* *Receive inbox.* Two threads, no lock over the whole of `recv`, cancelled
  futures. Correct means: no lost wake-up, order kept, newest keyframe kept.
* *Send path.* Packets expire in the queue and in the history, reports change
  the rate under an existing debt, a NACK may name anything. Correct means: voice
  never waits, the rest is paced, no packet that may still be asked for is blocked,
  the history's two collections agree.
* *Retransmission limiter.* Windows and their boundaries. Correct means: a
  bounded number of bytes in any stretch of time.
* *NACK requester.* Sequence numbers that wrap, late and repeated packets, a changing
  round trip. Correct means: it lists what is missing and nothing else, forgets no hole
  without a reason, and its requests are bounded and spaced.
* *Reassembly and jitter buffers.* Pieces lost, repeated and overtaken; tables with
  limits; deadlines, late drops and keyframe requests that interact. Correct means: a
  frame comes out as it went in, and once; the decoder gets unbroken chains, restarts as
  soon as it can, and whoever waits for a keyframe has asked; the wake-up is not late.
* *Arrival feedback and rates.* Reports lost, repeated and out of order; tracks that come
  and go between them. Correct means: no arrival falls between two windows, a round trip is
  a real one, the encoders together keep to the target and the pacer keeps up with it.
* *Handshake and encryption.* Two sides that may be set up differently, one window for all
  tracks of a session. Correct means: both end and agree, nonces are used once, a frame
  is opened once and not refused without cause.
* *FEC.* Rows and datagrams in any order. Correct means: every datagram of a block is
  protected, and what can be repaired is.

`PROJECT.json` lists every component with its status under `components`, and
under `hazards` what is hard to test in this code, line by line, with the
property that watches it.

## 2. Modules

```
TrackLifecycle          abstract: the life of a track seen from both ends
      ^ implemented by
SessionPair             two sessions and the TCP connection between them
SessionAnyPeer          one session, any signal in any order
      | both extend
Session                 drive, the handles, their channels
SessionProofs           what one step of Session preserves
  SessionAnyPeerProofs    the theorems about one session
  SessionPairProofs       about two: what they say to each other, the refinement,
                          every open is answered, no track stays half open

RemoteTrack             one stream: split, the network, join, play out
  RemoteTrackProofs       its theorems
      | extends the operators of
Reassembly, VideoJitter, AudioJitter
Nack                    the missing-sequence table of a remote track
FrameInbox              the inbox and its callers
SecureSession           the handshake, sealing and opening
      | extends the operators of
Cipher                  nonces and the replay window
Fec                     generator and receiver of parity rows
MCReceiveParts          Nack, FrameInbox, SecureSession and Fec side by side
  ReceivePartsProofs      the theorems about the inbox and the session

SendPath                queue, pacer, history, drain
  SendPathProofs          its theorems
RetransBudget           the retransmission limiter over time
      | both extend the operators of
RetransLimiter
ArrivalFeedback         recorder, network, adapter
RateControl             estimator, pacer rate, shares of the encoders
MCPathParts             the last two and RetransBudget side by side
  PathPartsProofs         their theorems
Induction               induction on numbers and finite sets, recursion over
                        subsets, sums, sequences with one element less or
                        more: lemmas the proofs share
```

`MCPathParts` and `MCReceiveParts` put several of these modules side by side (the second
extends `SecureSession` and `FrameInbox` and instantiates `Nack` and `Fec`) and run one of them
at a time, chosen in the initial state. They share no variable, so a
state of the product says nothing that its parts do not, and leaving the others where they
start loses nothing. The other `MC` modules add nothing but the values a `.cfg` cannot
write.

**Variants.** Some definitions stand before the one they belong to and carry
a comment that begins with "Variant". They are deliberately wrong forms of that
definition: a dropped guard, an off-by-one, a forgotten signal. No specification
uses them. Each property has one that breaks it, listed under `mutants` in
`PROJECT.json`, so that no property passes merely because nothing could violate it.

### Session

One peer's `drive` (`src/lib.rs:982`), in the state drive itself keeps:
`opening`, `outgoing`, `incoming`, `nextId`, and the part of the engine that
drive edits, `tracks`, where `"local"` is a local track whose gate is shut,
`"ready"` one that may send, and `"remote"` a receive track. The application is
`session`, `sendTracks`, `recvTracks` and `backlog` (tracks nobody accepted yet):
which handles exist, which decides who holds a sender of the command channel.
`expired` is what the timer arm has collected and not ended yet. `commands` and `signals` are the two bounded channels, `tcp` what has been
written and not been read.

Each arm of `select!` is an action that runs its handler to the end, because
the handler is one task and what it shares with others are the channels and
handles only; where two outcomes of a handler differ in kind they are two
actions (`AdmitOpen`, `RefuseOpen`, `AdmitOpenOrphan`). The timer arm is the one
that may write more than once, so it has two actions: `CollectExpired` takes the
opens that are due, any number of them from the oldest on, since the deadlines
grow with the id, and `ExpireOpen` ends one of them, in any order as the code's
hash map yields them. Between two of these the peer may leave `drive` suspended in
the write, handles are dropped and callers give up, the session may fail, but no
other arm runs (`Selecting`). `media` remembers which
tracks ever put a packet on the network, since a UDP packet may arrive at any
later time. `MaxId` stands for 255; the allocator refuses beyond it, as the code
does. `Frame` commands carry no payload. Not modelled: `Command::Info` and
delivery of `SendControl`, which change no track.

`SessionPair` joins two of them: TCP keeps order and delivers once, the reader
task forwards while its channel has room, a task that returned is seen by the
other side when the stream is drained (`ConnectionClosed`), or the connection
breaks and what was unread is lost (`ConnectionBroken`). A session may `Fail` at
any moment (a socket error, or the protocol violation `drive` ends on).

`SessionAnyPeer` closes one session with a peer that sends any decodable signal
in any order, and may leave `drive` suspended in `write_all` by not reading
(`Selecting`): no arm is taken then, while the application goes on and the
connection may fail. `SendBuffer` is what the socket takes before that happens; in
the runs of `SessionPair` it is larger than all that two conforming peers write, as
the socket buffers of a real connection are.

### TrackLifecycle

The abstract specification: a send side (idle, opening, sending, closed) and a
receive side (idle, receiving, closed) per id, with the safety rules (sending
begins only after the receive side was set up, closed is final) and two liveness
rules (each end follows the other when it closes). `SessionPair` implements it
under the mapping `SendSide` / `ReceiveSide`: the states of the two engines'
track tables, with the allocator and the presence of an `Open` on the wire telling
a track that is over from one that never was.

### FrameInbox

One step per lock, atomic and `Notify` operation. `recv` is a small program
counter per caller: `popping`, `checking`, `polling`, `parked`, `woken` (by
`notify_one`), `released` (by `notify_waiters`). `permit` is the permit
`notify_one` stores; `swept` says that `notify_waiters` ran after the caller
created its future. A caller may be cancelled where it is suspended, and a
`notify_one` it had not used is handed on, as tokio documents.

### RetransLimiter, RetransBudget, SendPath

Instants are relative to now (a deadline is the time left, a past instant an
age), so the state space is finite without an absolute clock; `Pass` lets one
tick go by. `Scale` is the number of bit-per-second ticks that make a byte
(8,000,000 with microseconds).

`SendPath` has one action per engine entry point that reaches the send path:
`PushFrame`, `OnNack`, `OnReport`, `OnRttSample` and `Tick`. Each includes
`Finish`: reports and NACKs that are due, probing, the cull of the history, a
keyframe request. The drain loop is `Poll`, repeated until `PollNothing`; nothing
else can happen in between. When a report, a NACK or a probe is due belongs to other
components and is nondeterministic here.

### Nack

One remote track's `NackRequester` behind the 20 ms gate of `poll_nacks`. The code's
state holds wrapped sequence numbers; the history variables `top` and `holes`
hold what really happened, named by distance from the newest arrival, so that the
model runs round the sequence space for ever without an absolute counter.
`Ahead` and `Behind` are `on_received` for a packet newer than all that arrived, and
for one that was overtaken, repeated or retransmitted; any packet may be lost. One
bound is in a guard: no listed packet falls half the sequence space behind, which
would take 2^31 packets between two runs of a 20 ms timer. `Pack` and
`SequencesOf` are the NACK packet's two directions.

### Reassembly, VideoJitter, AudioJitter, RemoteTrack

The first three are operators on values, one per method: `Split` and `Forward`
(`src/core/fragment.rs`), `Push`, `Poll` and `VideoWake` of `VideoFrameBuffer`,
`PushAudio`, `DrainAudio` and `AudioWake` of `AudioNetEq` (`src/core/jitter.rs`). A payload
is its length. Instants are whole milliseconds; the arrival filters round down to
one, where the code filters in floating point. `DrainVideo` is the loop of
`drain_playout`, a recursive function of the turn: every poll but the last drops a frame, releases
one or asks for a keyframe, so the buffer's length and one more turns are enough
(`DrainRests` of section 5 proves it).

`RemoteTrack` joins a sender and a receiver of one stream. `OnFragment` delivers any piece
ever sent, so that loss is never delivering it and duplication is delivering it again;
like every entry of the engine it ends in a drain of the buffer, and so does `Tick`.
`assembled` and `released` are histories, `outcome` is what the last drain did.

### ArrivalFeedback

`Send` and `OnReport` are the adapter, `Arrive` and `Tick` the recorder (`on_packet` and
the `poll` of `Engine::finish`), `Lose` the network, and any report may be delivered at any
later time and again. `Culled` keeps the two ages at which the code forgets. Receive times and sizes
only feed the estimator's filters and are left out.

### RateControl

`OnReport` is the way of a report from `BandwidthEstimator::on_feedback` through
`Path::on_arrival_feedback` to the `RateChange` events of `Engine::push_packet`. A report is what
its datagrams add up to: a share of losses, a sample of the acknowledged rate, a trend.
`inter_arrival` and `trendline` choose the trend and are left to chance. Rates are whole
kilobits per second and loss thousandths. `ConsiderProbe`, `AddTrack` and `RemoveTrack` happen
between reports; a track added since the last `RateChange` has been told 0. The code's
`send_side_pushback` is called without a congestion window and with no queue time, so it
changes nothing and has no operator here.

### Cipher, SecureSession

`Cipher` is `src/crypto.rs` as operators: a sealed frame is the record of key, direction and
counter, and opens under the same and nothing else; the 64-bit mask is the set of its bits.
`SecureSession` is `complete_handshake` on both sides, one action up to each read that waits,
with every combination of encryption set up or not; then `SealFrame` is the `Frame` arm of
drive (a frame the engine refuses has used a counter) and `OpenFrame` is `emit` for a
frame the engine reassembled: any frame, any number of times, in any order. TLS, which stands
in front of the handshake, is external.

### Fec

A datagram is its sequence, the XOR of datagrams the set of sequences it contains an odd
number of times. `Push`, `Flush` and `SetParams` are the generator, `InsertMedia` and `InsertFec`
the receiver of one stream, and rows and datagrams may be lost, repeated and overtaken.
`Protected` lies within half the sequence space of a first sequence: the eviction of
`src/core/fec.rs:661` sorts by wrapped distance, which is an order only there. The code has 2^32
sequences and holds a few of them at a time.

## 3. What is checked

| run | shows | bounds |
|---|---|---|
| `session_any_peer` | `TypeOK`; `RoutesMatchEngine`: the maps of drive and the engine's table agree, whatever arrives; `LocalIdsNotReused`: no stale `Ready` brings back a send track; `OpenEnds`: every open ends, awaited or given up, though the peer never answers | ids 0..2 (two opens, one remote id), channels of 1 |
| `session_pair` | `NoConflictingOpen`, `MediaAfterRoute`, `NoHalfOpenTrack`, `OpenIsAnswered` | two opens by peer 0, channels of 1, writes that never suspend |
| `session_pair_live` | `ImplementsLifecycle`: safety and liveness of `TrackLifecycle`; `HandlesGoneEndsBoth` | one open |
| `send_path` | `TypeOK` with the bound on the debt, `HistoryConsistent`, `PendingIsQueued`, `AudioNeverWaits`, `PacedWithinBudget` | three media packets, history of 2, time to live of 3 ticks |
| `remote_track` | `TypeOK`; `AssembledExact`: frames come out as they went in and not again while their id is remembered; `DecodeChain`: a delta follows the frame it needs; `KeyframeAskedFor`; `WakeNotLate`; `KeyframeRestarts`: the call that completes an awaited keyframe releases it | three frames of one or two pieces, tables of 2, one retired id, two steps of 25 ms |
| `path_parts` | `PathTypeOK`; `ArrivalAccounted`: an arrival waits, is reported or is too old; `RoundTripReal`; `RatesOrdered`: shares within the target, target within the pacing rate; `AtMostTwoBudgets` | feedback: three datagrams across the wrap, masks of 2, three ticks; rates: three reports, one video and two audio tracks; limiter: window of 3 ticks, two targets |
| `receive_parts` | `ReceiveTypeOK`; handshake and cipher: `AgreeOnCipher`, `NoncesUnique`, `ReplayExact`, `EveryHandshakeEnds`; inbox: `NoLostWakeup`, `InOrder`, `NewestKeyframeKept`, `RecvReturns`; NACK: `ListIsExact`, `RequestsSpaced`, `RequestsExact`; FEC: `BlockProtected`, `RepairedAtOnce` | a window of 2 and three frames per side; queue of 3, 5 frames, two callers; a space of 10, table of 2, age limit 3, 2 retries, masks of one bit; blocks of 3, four pushes, stores of 2 |
| `remote_track_full` | counterexample to "ignored until the host removes a stale frame" | as `remote_track` |
| `remote_track_order` | counterexample to "ordered by `timestamp`" | as `remote_track` |
| `remote_track_late` | counterexample to "a newer decodable frame exists" | as `remote_track` |
| `feedback_lost` | counterexample to "`None` = lost" | as the feedback part |
| `frame_inbox_close` | counterexample to "Queued receive frames are delivered before `RecvTrack::recv` returns `Closed`." | one caller, 2 frames |

Why the bounds are enough. In the session layer tracks meet only through the
shared channels, the allocator and the order of deadlines; two ids of one side
exercise those, and a third id of the other side the remote branches. A
channel of one already makes every full-channel case happen, and a second
place would only allow orders of commands that a capacity of one produces over time;
the theorems of section 5 hold for every capacity. The inbox with three places and five frames
overflows twice, once with only keyframes; two callers are what it takes for a
wake-up to go to the wrong one. A window of three ticks has an interior; a history of two with three
packets evicts; a time to live of three lets packets expire behind a debt.
A space of ten has
jumps above the table's size, entries beyond the age limit and arrivals on both sides of the
wrap; a lifetime of nine ticks lets an entry run out of retries or out of time.

In `remote_track`, three frames fill a table of two and a buffer of two; with one retired id
the first frame can come back after the second (`MaxReopened` bounds only how many more
frames than were sent may come out). The times are chosen so that a step of 25 ms passes the late
grace, the stall time-out and a playout tick, and two steps pass the interval of keyframe
requests; audio timestamps cross the wrap. In the feedback part, the three sequences cross
the wrap and a window of two splits them; the retention is short enough to pass. The rates
reach the floor and the ceiling of the target and both limits of the audio budget (two audio
tracks at a floor of 16 against a minimum target of 30); audio tracks are symmetric. A replay
window of two is left by the third counter. The parity blocks lie across the wrap
(`Protected` is 7, 0, 1 of a space of 8) and both rates give more than one row for some
block and the floor of one row for another. Every bound that is not the code's own is named `Max...`, or
is marked "bound".

`CHECK_DEADLOCK FALSE` where the system may really stop: both sessions
ended and all handles gone; the inbox closed; the bounded sequence numbers used up.

**Properties worth explaining.** `OpenIsAnswered` says that between conforming peers
an announced open always has its `Open` or the `Ready` that answers it under way, ahead
of any `Close`; so the branch "peer closed track before ready" (`src/lib.rs:1210`) is
for non-conforming peers only, and is exercised in `session_any_peer`.
`NoConflictingOpen` likewise: `Reject` never occurs between conforming peers.
`PendingIsQueued` matters because nothing in the engine calls `clear_pending`: an entry
whose copy was dropped would never be retransmitted again. `PacedWithinBudget` rests on
voice never expiring in the queue: the audio fast path of `Pacer::poll` pops without
looking at the debt, and `pop` goes on to other priorities when the audio has expired.
`AudioNeverWaits` is why that does not happen.

`KeyframeAskedFor` is what makes a refusal of deltas bearable: whichever branch of `poll` made
the buffer wait for a keyframe (a late drop, a stall, a request that was not due to a loss), one
has been asked for within the request interval. `KeyframeRestarts` needs the overflow to
remove deltas first. `WakeNotLate` has one exception, written into it: the request of a drain
may itself let a buffered keyframe start early. A wake-up that is early or past is not ruled out:
with a keyframe buffered and required, `next_wake_at` answers now.

`ListIsExact` has three parts: the newest packet is known across the wrap, what is listed is
missing, and what is missing is listed unless there is a reason. `RatesOrdered` is not a
property of one report: shares told by different reports to different sets of tracks add up,
and a probe changes the pacing rate alone. `AgreeOnCipher` speaks of sides that have settled;
a listener may have settled and learn of the mismatch as a closed connection.
`RepairedAtOnce` excepts what was given to the application before and evicted since.

## 4. Fairness

* `SessionPair`: weak fairness of each arm of `drive`'s `select!`, of the reader task
  and of dropping the unaccepted tracks with their receiver. `select!` without
  `biased` polls its arms in random order, so an arm that stays ready is taken.
* `SessionAnyPeer`: strong fairness of the timer arm's `CollectExpired` while `drive` is not
  suspended in a write, because the arm is ready again and again, between writes, and each
  `select!` draws at random; weak fairness of `ExpireOpen`, since the loop of the arm goes on
  as soon as its write is through; weak fairness of the peer's reading. Without the latter `OpenEnds`
  is false: `drive` writes in its own loop and a peer that stops reading stops its
  timers (listed as a hazard).
* `FrameInbox`, in `receive_parts`: weak fairness of the second half of `push` and `close` and of
  each caller's next step, which tokio polls once it is woken.
* `SecureSession`, in `receive_parts`: weak fairness of the handshake's steps: the futures of
  `connect` and `accept` are polled, and TCP delivers or closes. Nothing is assumed of sealing
  and opening.

The application promises nothing: it may never accept, send, close or drop.

## 5. What is proved

| module | theorems | for all |
|---|---|---|
| `SessionAnyPeerProofs` | `TypeCorrect`, `RoutesCorrect`, `RetiredIdsCorrect` | numbers of ids, channel capacities, signals of the peer |
| `SessionPairProofs` | `PairRoutesCorrect`, `PairRetiredIdsCorrect` | numbers of ids, channel capacities |
| | `NoConflictingOpenCorrect`, `MediaAfterRouteCorrect`, `LifecycleSafe` | the same |
| | `NoHalfOpenTrackCorrect`, `OpenIsAnsweredCorrect` | the same |
| `RemoteTrackProofs` | `TrackTypes`, `FramesExact`, `ChainUnbroken`, `WaitersHaveAsked`, `WakesInTime`, `RestartsAtOnce` | frame and packet sizes, numbers of pieces, tables, delays, intervals, time-outs, buffer sizes, timestamp spaces |
| `ReceivePartsProofs` | `InboxInOrder`, `InboxNoLostWakeup`, `InboxKeepsKeyframe` | capacities, numbers of frames and of concurrent callers |
| | `AgreementCorrect`, `NoncesCorrect`, `ReplayCorrect` | sets of keys, numbers of frames, sizes of the replay window |
| | `ListExact`, `SpacedRequests`, `ExactRequests` | even sequence spaces, table sizes, ages, tries, lifetimes, delays, intervals, finite sets of round trips, mask widths below half the space |
| | `BlocksProtected`, `RepairsAtOnce` | block sizes, rates, capacities, sequence spaces and sets of sequences within half of one |
| | `ReceiveTyped` | all of the above together |
| `SendPathProofs` | `SendTyped`, `HistoryCorrect`, `PendingCorrect`, `AudioCorrect`, `PacingCorrect` | packets, sizes, rates, times to live, capacities of the history, budgets |
| `PathPartsProofs` | `PathTyped`, `ArrivalsCorrect`, `RoundTripCorrect`, `RatesCorrect`, `RetransmissionsCorrect` | sequence spaces, windows and retentions; sets of tracks, bounds on rates; windows and budgets |

**One session.** `SessionInv == TypeOK /\ RoutesMatchEngine /\ NextIdLocal` is inductive.
`RoutesMatchEngine` alone is not: `HandleOpen` installs a local track under
`nextId`, and that the track is local needs the parity of `nextId`; and the other
conjuncts need the types of the channel contents, since the ids in the handlers
come out of signals. `SessionProofs` proves, for one step of one session and one
lemma per group of actions, that it keeps the types (`StepTyped`), the agreement
(`StepRoutes`), the parity (`StepNextIdLocal`), and what it can do to the track table
(`StepTracks`), from which a retired id never comes back (`StepKeepsRetired`).
None of this uses what the peer does, which is why the same lemmas serve both closures.
Assumed: peers among 0 and 1, channel capacities of at least one; `MaxId` is arbitrary.

**Two sessions.** `WireInv` says of every id of one side: an `Open` on the wire is the only one,
and while it is there nothing has happened under its id on either side (`Unused`); an id the
allocator has not reached is unused as well; and no `Reject` is on the wire. It is what keeps
`RefuseOpen` from ever being enabled, so the two properties and the absence of `Reject` have to
be proved together. The proof has three layers. `PathParts` to `HeadOfPath` are about sequences:
what is between two drive loops only loses signals in front or behind, or gains one at its end.
`Effects` sums up what any step of one side can do, in terms of which signals the two paths hold;
`StepEffects`, `ReadEffects` and `BrokenEffects` prove it for each action. `EffectsWire` and
`NextLifecycle` then need neither sequences nor actions: the first keeps the invariant, the second maps
each step to a step of `TrackLifecycle`. Assumed in addition: the two peers are 0 and 1.

**Answers.** `AnswerInv` holds while both sessions run. For each id it says where its opener and its
receiver stand and what is on the two paths between them, and in which order: a `Close` is always
behind its `Open` (`OpenFirst`), and a `Ready` for an open that waits has no `Close` ahead of it
(`ReadyFirst`). `Happens` lists what one step can do to one id; `OwnerAnswers` and
`PeerAnswers` keep the invariant from that alone, and one lemma per action shows that the action
is one of the cases. `WireInv` is needed throughout, since an `Open` that were refused would leave its opener
without a `Ready`. That both sessions still run after the step excludes the steps that end one.

**Inbox.** `InboxInv` adds to `InOrder` (what callers took and what is queued are numbered upwards,
the queue behind what was taken) the invariant `WakeInv`: frames nobody was told of have a permit
stored or a caller on its way to them; a permit is stored only while nobody sleeps; and once
`notify_waiters` has run nobody sleeps or will. Cancelling a woken caller is the step it turns on: its
`notify_one` must become a permit or wake another. Assumed: a capacity of at least one and at
least one caller; `InboxKeepsKeyframe` assumes a capacity of at least two (`VIDEO_RECV_CAP` is 8).

**Handshake and cipher.** `SecureInv` has three parts beside the types: `HelloInv`, what each
side has concluded follows from the two Hellos that were written; `SealInv`, what is on the network was
sealed by its sender under the agreed key, its direction and the counter of its frame; and
`WindowInv`, the mask and the top of the replay window are exactly the frames opened that the window
still reaches. `ReplayWindow >= 1` is assumed, and that "no key" is none of the keys.

**NACK requester.** `NackInv` says that the newest number is that of the newest packet and that the table and the
holes behind it belong together (`ListsMissing`): every listed number is a hole of the same age that was asked for as
often, and every hole is listed or was given up for one of the three reasons. `RequestsSpaced` needs one thing more,
in `Matches`: the age of an entry and the wait it has left add up to a least round trip for every
request, which stops being exact when the age is capped, and by then the entry is too old to be asked for. `Distance`,
`Ago` and `Later` are the arithmetic of the wrap; `MovedHoles` and `AheadTracks` move every hole and every entry by the
steps to a newer packet, `BehindTracks` takes the one hole and the one entry of a late packet. The guard of `Ahead`
is needed for it: no packet leaves an entry of the table half the space behind. `PackExact` (the packets name every number they are given, no other, and each once) is by
induction on the numbers left; `MeasuredRecursion` gives `pack` its equation, since each turn leaves fewer.

**Parity repair.** `ParityInv` says that every row on the way is `Sound` (its payload is what its mask
names, and that was pushed), that the last flush dealt out its block, that the block a flush will find
has a base from which one mask reaches all of it, and `RepairedAtOnce`. `RowsExact` is the half of the
generator: a bit of the block stands for one sequence, across the wrap (`ParityDistance`), and is dealt to the row of
its turn and no other. The half of the receiver is `RecoverProperties`: `recover_all` ends, because each
pass but the last stores more of a finite sequence space, and where it ends no row is left that repairs something; a
row that lacks one datagram would (`RowsLeftAlone` uses that the row is sound). `SettleRepairs` adds the eviction:
what it removes was known before, so that a row which lacks only that is the exception
`RepairedAtOnce` makes. `EvictedKeeps` needs the sequences within half of the space, without which there may be no
set of newest ones to keep.

**The parts together.** A step of `MCReceiveParts` is a step of one part or leaves it alone (`PartsRunInbox` and
its like), so that the invariants above hold side by side, and `ReceiveTyped` reads the types from them.

**Send path.** `SendInv` adds to `HistoryConsistent` and `AudioNeverWaits` what relates the three
collections: `QueueAgrees` says that a copy in the queue stands for the packet the history holds under
its sequence, with the pending mark set, and that every sequence in sight has been given out; `AudioLive`
that a voice packet in the queue has its whole time to live left, which is why `pop` never
passes over one. The difficult operator is `Picked`, one call of `pop` with all that it drops on its
way. `PopPlaces` says which places of the queue leave, and `JoinsAgree` what a packet that enters has to
bring; from there each of `PushFrame`, `OnNack`, `Poll` and the rest is a matter of what it lets in and out.
`Answers` handles the sequences of a NACK one after the other; `RecursionOnSubsets` gives it
an equation, and an invariant of the answers given so far (limiter, marks and
copies) follows by `SubsetInduction`. `PacedWithinBudget` is an action property and uses `AudioNeverWaits` of the
state before the step.

**Path parts.** `FeedbackInv` follows an arrival from the recorder to a report: `PollAccounts` shows that each
call of `poll` reports or culls whatever its window leaves behind, and that the
window moves only over what has been accounted for. The sequences in flight must
be less than half a sequence space apart, which the bounds of the model give. `RateInv` has to speak of the sum of
the shares, hence of `SumOfShares`, by induction on the set of tracks; that every quotient rounds down
is what lets the sum stay within the target. `RetransInv` keeps, for every window that is still open, a count of what
was answered in it and in the one before.

**One stream.** `TrackInv` has four parts. `SentInv` numbers what was sent. `JoinedInv` says that every
incomplete frame is a part of the frame that was sent under its id (`PartOf`), and that the ring of
retired ids is exactly the last of the assembled ones (`HistoryOf`), from which "not again before
RetiredHistory others" follows. `PieceFits` and `PiecesAddUp` are the arithmetic of `split`: no
piece is empty, none is larger than a packet, and together they are the frame. `BufferInv` keeps the buffers
sorted, within their limits and filled with what was sent. `PlayoutInv` ties `last` to what was released,
and says that a drain ends at rest (`AtRest`: nothing late, nothing playable, nothing to ask for) and
that no keyframe waits while one is required and `FastStart` is set. `PollCases` are the four outcomes of
a poll; `DrainTurns` lets a claim about the loop be proved turn by turn, and from it come `DrainRests`
(the loop ends), `DrainChain` (what is released continues the chain), `DrainTakes` (the buffer only
loses frames), `DrainRestarts` (an awaited keyframe leaves by being released) and `DrainBeforeWake`.
`KeyframeRestarts` is an action property: it uses that a frame that is already buffered carries the key it was
sent with, that `Push` inserts it in order, and that overflow takes a delta first. Assumed of the constants: times
and lengths are natural numbers, the limits, the keyframe interval and the tick at least one.

**Induction.** The library's induction theorems take an operator, so `Induction` restates what is needed
with sets in its place: a set of numbers that holds 0 and is closed under successor holds all
(by the least number it would lack), and likewise for finite sets, for functions defined by recursion
over the subsets of a finite set or along a measure, and for `SumFunction`. A proof by induction then names the set of
numbers, or of subsets, for which its claim holds.

Definitions were recast where a proof could not reach the form they had: `Picked`, `Answers`
and `Bytes` of `SendPath`, the limiter's `Roll`, and the shares of `RateControl` are sets, recursive functions and
sums where they were folds and filters of sequences. They denote the same values, and
the runs check them as before. So are `DrainVideo`, a recursive function instead of a fold, and `Push`,
which inserts where it sorted, and `OnePass` and `WindowBase` of `Fec`, a recursive function and a least
place where a fold and a search were.

Every invariant and every action property of a passing run is a theorem. Liveness stays with TLC (`OpenEnds`,
`HandlesGoneEndsBoth`, `EveryHandshakeEnds`, `RecvReturns`, the liveness half of `ImplementsLifecycle`): fairness
and ENABLED are beyond the prover.

## 6. Where the code and its documentation differ

Each has a run that ends in a counterexample:

1. `remote_track_full`: the engine never removes an incomplete frame, so when the table
   (64 in the code) is full of frames that lost a piece for good, no further frame is
   reassembled (`src/core/fragment.rs:412`); `src/core/fragment.rs:56` has a new id "ignored until
   the host [`Reassembly::remove`]s a stale frame".
2. `remote_track_order`: an audio packet goes in front of the ones it is newer than, and playout and
   overflow take the front (`src/core/jitter.rs:831`); `:801` says "ordered by `timestamp`", `:803`
   "Drops oldest packets when over capacity".
3. `remote_track_late`: a late front frame is dropped, and a keyframe required, whenever any second
   frame is buffered, also one that needs it (`src/core/jitter.rs:417`); `:176` says "a newer
   decodable frame exists".
4. `feedback_lost`: a report's window reaches past the newest arrival, and all of it that did not
   arrive yet counts as lost, to be received in a later report (`src/core/feedback.rs:446`); `:315`
   says "`None` = lost".
5. `frame_inbox_close`: `recv` can return `Closed` with a frame queued, when the push and the close
   fall between its two looks (`src/lib.rs:651-657`); `DESIGN.md:458` says "Queued receive frames
   are delivered before `RecvTrack::recv` returns `Closed`".

Seen while modelling, and not stated as a property of a run:

* `Drop for SendTrack` loses its `Close` when the command channel is full (`src/lib.rs:606`);
  `src/lib.rs:542` says "Dropping the track closes it.", `DESIGN.md` is more careful.
* The retransmission budget is per fixed window, not sliding (`src/core/history.rs:383` against
  `:453`); `AtMostTwoBudgets` states what holds. Every report that moves the target installs a new
  limiter (`src/engine/path.rs:317`), where `src/core/history.rs:386` advises `set_budget`.
* `Pacer::next_send_time` can be early by two roundings (`src/core/pacer.rs:239`, against the
  example at `:77-79`); the engine polls once more.
* A probe leaves the pacing rate at twice the target until a report moves the target.
* A track that is added is told no rate until the target moves.
* A gap is given up before it is asked for while the track has the default round trip: twice 100 ms
  is the lifetime (`src/core/nack.rs:378`).
* A poll of a video buffer that is empty, after a drain that released everything, asks for a
  keyframe once the request interval allows (`src/core/jitter.rs:449`), and the buffer then
  refuses the contiguous deltas that follow, though nothing was lost. `KeyframeAskedFor` shows
  that such a buffer has asked, not that it had to. Nothing in the code says when it may.
* The wake-up of a frame that is due and cannot be decoded is now, each time it is asked for
  (`src/core/jitter.rs:490`): the session task then polls without sleeping (a hazard without a
  property).
* A report in which nothing matches still runs the estimator, where the comment in
  `src/engine/path.rs` says "Returns `None`" of it; and the pushback for bytes on the wire it announces
  has no effect without a congestion window.

## 7. Plan

Done: all of sections 2 to 5. What is left, in this order:

1. `MediaPath`: `SendPath` and `RemoteTrack` joined by a lossy network and the NACK loop, against an
   abstract "each frame at most once while it is remembered, in chains that decode".
2. The TLS halves of a connection, where a reader task keeps the stream open.

## 8. Not modelled

* Connection set-up, TLS and socket calls are library calls; their failures appear as `Fail`,
  `ConnectionClosed` and `ConnectionBroken`. With TLS the two halves of the stream share the
  connection, so that a session that returned leaves it open while its reader task is parked;
  `ConnectionClosed` describes the plaintext halves.
* AES-GCM and `random_key` are external: a sealed frame opens under its key, direction and counter
  and under nothing else. Only frames that a side has sealed are on the network of
  `SecureSession`; no property says anything of other datagrams.
* The filters of the estimator (inter-arrival groups, trendline, acknowledged rate) are floating
  point; `RateControl` takes what they say as a choice, so it shows what holds whatever they say.
* Byte layouts of packets and signals, queue statistics, `Command::Info`, the delivery of
  `SendControl`.
* Parity rows are modelled though the engine uses none: `Fec` is checked as the library part it is,
  for one stream.
* What the engine never calls: `set_budget`, `clear_pending`, `SendQueue::clear`, `set_config`,
  `reset`, `remove`, `force_build`, `on_probe_result` and the rate observer.
* The example programs.
