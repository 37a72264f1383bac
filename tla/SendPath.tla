------------------------------- MODULE SendPath -------------------------------
(***************************************************************************)
(* The sending half of one engine: SendQueue, Pacer, PacketHistory and     *)
(* Path::drain, driven by the engine's three entry points.  A handler      *)
(* queues packets and then drains the pacer; the drain is a loop, so the   *)
(* handler leaves phase = "draining" and Poll runs that loop to its end    *)
(* before anything else can happen.                                        *)
(*                                                                         *)
(* Instants are kept relative to now: a deadline is the time left, a past  *)
(* instant is an age, and Pass lets one tick go by.                        *)
(***************************************************************************)
EXTENDS RetransLimiter, Sequences, FiniteSets, Functions

CONSTANTS
  MaxSeq,          \* bound: media packets fragmented
  MaxControl,      \* bound: control packets queued at once
  Ttl,             \* time to live of a packet, 200 ms in the code
  Capacity,        \* history_capacity, 600 in the code
  Rtts,            \* round trip times a report may measure
  Sizes,           \* sizes of media packets
  ControlSize,     \* size of a NACK, a keyframe request or an arrival report
  Targets,         \* bandwidth targets the estimator may choose
  PacingFactor,    \* pacing rate per target
  Burst,           \* burst_interval, 40 ms in the code
  MaxDebt,         \* max_debt, 500 ms in the code
  QueueLimit,      \* queue_time_limit, 2 s in the code
  AccountForAudio, \* account_for_audio, FALSE in the code
  MaxIdle          \* bound: time between two handlers

ASSUME SendPathAssumption ==
  /\ {MaxSeq, MaxControl, Ttl, Capacity, ControlSize, PacingFactor, Burst,
      MaxDebt, QueueLimit, MaxIdle} \subseteq Nat \ {0}
  /\ Rtts \subseteq Nat \ {0} /\ Sizes \subseteq Nat \ {0} /\ Targets \subseteq Nat \ {0}
  /\ Targets # {} /\ \E longest \in Rtts : \A sample \in Rtts : sample <= longest
  /\ AccountForAudio \in BOOLEAN

(* Priority, highest first; nothing ever queues Padding. *)
Audio == 0
Retransmission == 1
Feedback == 2
Video == 3
Priority == Audio..Video

Seqs == 1..MaxSeq
NoSeq == 0      \* a packet that is not media

Packet == [seq : 0..MaxSeq, priority : Priority, size : Nat, ttl : 0..Ttl,
           retransmit : BOOLEAN]

VARIABLES
  queue,       \* SendQueue::buckets
  debt,        \* Pacer::media_debt_bytes
  idle,        \* time since Pacer::last_update
  rate,        \* PacerConfig::pacing_rate_bps
  target,      \* the estimator's target, which probes double
  history,     \* PacketHistory::entries: the stored ones, by media sequence
  order,       \* PacketHistory::order
  limiter,     \* PacketHistory::limiter
  rtt,         \* Path::rtt and PacketHistory::rtt
  nextSeq,     \* the next media sequence number
  phase        \* draining while a handler is inside Path::drain

pacerVars   == <<debt, idle, rate>>
historyVars == <<history, order, limiter, rtt>>
vars == <<queue, pacerVars, target, historyVars, nextSeq, phase>>

Least(numbers) == CHOOSE n \in numbers : \A other \in numbers : n <= other
Greatest(numbers) == CHOOSE n \in numbers : \A other \in numbers : other <= n

MaxRtt == Greatest(Rtts)
Entry == [audio : BOOLEAN, size : Nat, ttl : 0..Ttl, age : 0..MaxRtt, pending : BOOLEAN]

AtLeast(a, b) == IF a >= b THEN a ELSE b
AtMost(a, b)  == IF a <= b THEN a ELSE b

(* The elements of a sequence at some of its places, in order. *)
Picked(s, places) ==
  LET picked[ks \in SUBSET places] ==
        IF ks = {} THEN <<>>
        ELSE Append(picked[ks \ {Greatest(ks)}], s[Greatest(ks)])
  IN picked[places]

---------------------------------------------------------------------------
(* SendQueue *)

IsLive(packet) == packet.ttl > 0

PlacesOf(packets, b) == {k \in 1..Len(packets) : packets[k].priority = b}

Enqueue(q, packets) == [b \in Priority |-> q[b] \o Picked(packets, PlacesOf(packets, b))]

Bytes(packets) == SumFunction([k \in DOMAIN packets |-> packets[k].size])

QueuedBytes(q) == Bytes(q[0]) + Bytes(q[1]) + Bytes(q[2]) + Bytes(q[3])

IsEmpty(q) == \A b \in Priority : q[b] = <<>>

LiveAt(q, b) == {k \in 1..Len(q[b]) : IsLive(q[b][k])}

(* pop: the first packet in priority order that has not expired, and the    *)
(* queue without it and without the expired packets pop went past.          *)
CanPop(q) == \E b \in Priority : LiveAt(q, b) # {}

PopBucket(q) ==
  CHOOSE b \in Priority : LiveAt(q, b) # {} /\ \A c \in Priority : c < b => LiveAt(q, c) = {}

PopIndex(q) == Least(LiveAt(q, PopBucket(q)))

Popped(q) == q[PopBucket(q)][PopIndex(q)]

AfterPop(q) ==
  [b \in Priority |->
     IF ~CanPop(q) \/ b < PopBucket(q) THEN <<>>
     ELSE IF b = PopBucket(q) THEN SubSeq(q[b], PopIndex(q) + 1, Len(q[b]))
     ELSE q[b]]

---------------------------------------------------------------------------
(* Pacer *)

(* effective_rate_bps: a backlog past the queue-time limit raises the rate. *)
EffectiveRate ==
  LET bytes == QueuedBytes(queue) IN
  IF (bytes * Scale) \div rate > QueueLimit
  THEN AtLeast((bytes * Scale) \div QueueLimit, rate) ELSE rate

BurstBudget == BytesFor(EffectiveRate, Burst)
DebtCap(r)  == BytesFor(r, MaxDebt)

(* advance_time *)
Drained == AtLeast(debt - BytesFor(EffectiveRate, idle), 0)

CanSendPaced == Drained <= BurstBudget

(* Variant: the debt grows with every packet. *)
ChargedUnclamped(bytes) == Drained + bytes

(* A paced packet is paid for, up to max_debt. *)
Charged(bytes) == AtMost(Drained + bytes, DebtCap(rate))

---------------------------------------------------------------------------
(* PacketHistory *)

Stored == DOMAIN history

Without(seq) == [s \in Stored \ {seq} |-> history[s]]

(* Variant: room is made one packet too late. *)
PutLate(packet) ==
  LET entry == [audio |-> packet.priority = Audio, size |-> packet.size,
                ttl |-> packet.ttl, age |-> 0, pending |-> FALSE]
      full == Len(order) > Capacity
      kept == IF full THEN Without(Head(order)) ELSE history
  IN  /\ history' = [s \in DOMAIN kept \union {packet.seq} |->
                       IF s = packet.seq THEN entry ELSE kept[s]]
      /\ order' = Append(IF full THEN Tail(order) ELSE order, packet.seq)

(* put: a stored packet keeps its place, a new one takes the oldest's. *)
Put(packet) ==
  LET full == Len(order) >= Capacity
      kept == IF full THEN Without(Head(order)) ELSE history
      entry == [audio |-> packet.priority = Audio, size |-> packet.size,
                ttl |-> packet.ttl, age |-> 0, pending |-> FALSE]
  IN  IF packet.seq \in Stored
      THEN history' = [history EXCEPT ![packet.seq] = entry] /\ UNCHANGED order
      ELSE /\ history' = [s \in DOMAIN kept \union {packet.seq} |->
                            IF s = packet.seq THEN entry ELSE kept[s]]
           /\ order' = Append(IF full THEN Tail(order) ELSE order, packet.seq)

(* mark_sent *)
MarkSent(seq) ==
  history' = [s \in Stored |->
                IF s = seq THEN [history[s] EXCEPT !.pending = FALSE, !.age = 0]
                ELSE history[s]]

(* Variant: a copy that waits to leave does not count. *)
EligibleAgain(entries, seq) ==
  seq \in DOMAIN entries /\ entries[seq].ttl > 0 /\ entries[seq].age >= rtt

(* The gates of get_retransmission, before the limiter. *)
Eligible(entries, seq) ==
  /\ seq \in DOMAIN entries
  /\ entries[seq].ttl > 0 /\ ~entries[seq].pending /\ entries[seq].age >= rtt

Copy(entry, seq) ==
  [seq |-> seq, priority |-> IF entry.audio THEN Audio ELSE Retransmission,
   size |-> entry.size, ttl |-> entry.ttl, retransmit |-> TRUE]

(* One sequence number of a NACK; so is what the previous ones left behind. *)
Answer(so, seq) ==
  IF ~Eligible(so.entries, seq) THEN so
  ELSE LET entry == so.entries[seq]
           fits  == Fits(so.limiter, entry.size)
       IN [limiter |-> Consume(so.limiter, entry.size),
           entries |-> IF fits THEN [so.entries EXCEPT ![seq].pending = TRUE] ELSE so.entries,
           copies  |-> IF fits THEN Append(so.copies, Copy(entry, seq)) ELSE so.copies]

(* The numbers of a NACK are answered in ascending order. *)
Answers(nack) ==
  LET answered[seqs \in SUBSET nack] ==
        IF seqs = {} THEN [limiter |-> limiter, entries |-> history, copies |-> <<>>]
        ELSE Answer(answered[seqs \ {Greatest(seqs)}], Greatest(seqs))
  IN answered[nack]

---------------------------------------------------------------------------
(* Engine::finish up to the drain: a report or a NACK that is due, a probe  *)
(* when nothing is queued, the cull of expired history, and a keyframe      *)
(* request.  The arguments are what the handler has made of the queue, the  *)
(* history, the target, the rate and the debt.  When reports, NACKs and     *)
(* probes are due is other components' choice.                              *)

Control == [seq |-> NoSeq, priority |-> Feedback, size |-> ControlSize, ttl |-> Ttl,
            retransmit |-> FALSE]

Finish(q, entries, t, r, d) ==
  /\ phase = "ready" /\ phase' = "draining"
  /\ \E early, late \in {<<>>, <<Control>>} :
       /\ Len(q[Feedback] \o early \o late) <= MaxControl
       /\ queue' = Enqueue(q, early \o late)
       /\ \/ rate' = r /\ debt' = d
          \/ /\ IsEmpty(Enqueue(q, early))
             /\ rate' = AtLeast(2 * t, r)
             /\ debt' = AtMost(d, DebtCap(rate'))
  /\ history' = [s \in {s \in DOMAIN entries : entries[s].ttl > 0} |-> entries[s]]
  /\ order' = Picked(order, {k \in 1..Len(order) : entries[order[k]].ttl > 0})
  /\ UNCHANGED idle

(* push_frame: count equal fragments of one audio or video frame. *)
PushFrame ==
  \E priority \in {Audio, Video}, size \in Sizes, count \in 1..2 :
    /\ nextSeq + count - 1 <= MaxSeq
    /\ nextSeq' = nextSeq + count
    /\ Finish(Enqueue(queue, [k \in 1..count |->
                [seq |-> nextSeq + k - 1, priority |-> priority, size |-> size,
                 ttl |-> Ttl, retransmit |-> FALSE]]), history, target, rate, debt)
    /\ UNCHANGED <<target, limiter, rtt>>

(* push_packet with a NACK.  It may name what was never sent. *)
OnNack ==
  \E nack \in SUBSET Seqs \ {{}} :
    LET answers == Answers(nack) IN
    /\ Finish(Enqueue(queue, answers.copies), answers.entries, target, rate, debt)
    /\ limiter' = answers.limiter
    /\ UNCHANGED <<target, rtt, nextSeq>>

(* push_packet with an arrival report that moves the target: a new rate for *)
(* the pacer, a new limiter for retransmissions.                            *)
OnReport ==
  \E next \in Targets \ {target}, sample \in Rtts :
    LET paced == next * PacingFactor IN
    /\ Finish(queue, history, next, paced, AtMost(debt, DebtCap(paced)))
    /\ target' = next /\ rtt' = sample /\ limiter' = FromTarget(next)
    /\ UNCHANGED nextSeq

(* push_packet with a report that only measures the round trip. *)
OnRttSample ==
  \E sample \in Rtts \ {rtt} :
    /\ Finish(queue, history, target, rate, debt)
    /\ rtt' = sample
    /\ UNCHANGED <<target, limiter, nextSeq>>

(* tick, and push_packet with anything that leaves the send path alone. *)
Tick ==
  /\ Finish(queue, history, target, rate, debt)
  /\ UNCHANGED <<target, limiter, rtt, nextSeq>>

---------------------------------------------------------------------------
(* Path::drain *)

Departs(packet) ==
  IF packet.seq = NoSeq THEN UNCHANGED <<history, order>>
  ELSE IF packet.retransmit THEN MarkSent(packet.seq) /\ UNCHANGED order
  ELSE Put(packet)

(* Variants: voice pays like the rest; retransmissions overtake like voice. *)
UnpacedWithinBudget == ~AccountForAudio /\ queue[Audio] # <<>> /\ CanSendPaced
UnpacedRetransmissions ==
  ~AccountForAudio /\ (queue[Audio] # <<>> \/ queue[Retransmission] # <<>>)

Unpaced == ~AccountForAudio /\ queue[Audio] # <<>>

(* One turn: the audio fast path, or a packet the leaky bucket pays for. *)
Poll ==
  /\ phase = "draining" /\ CanPop(queue)
  /\ Unpaced \/ CanSendPaced
  /\ queue' = AfterPop(queue)
  /\ Departs(Popped(queue))
  /\ debt' = IF ~Unpaced /\ (AccountForAudio \/ Popped(queue).priority # Audio)
             THEN Charged(Popped(queue).size) ELSE Drained
  /\ idle' = 0
  /\ UNCHANGED <<rate, target, limiter, rtt, nextSeq, phase>>

(* The last turn: nothing to pop, or the bucket says wait. *)
PollNothing ==
  /\ phase = "draining" /\ phase' = "ready"
  /\ IF Unpaced \/ CanSendPaced
     THEN ~CanPop(queue) /\ queue' = AfterPop(queue)
     ELSE UNCHANGED queue
  /\ debt' = Drained /\ idle' = 0
  /\ UNCHANGED <<rate, target, historyVars, nextSeq>>

---------------------------------------------------------------------------
Aged(packets) ==
  [k \in DOMAIN packets |-> [packets[k] EXCEPT !.ttl = AtLeast(@ - 1, 0)]]

Pass ==
  /\ phase = "ready" /\ idle < MaxIdle
  /\ idle' = idle + 1
  /\ queue' = [b \in Priority |-> Aged(queue[b])]
  /\ history' = [s \in Stored |-> [history[s] EXCEPT
                   !.ttl = AtLeast(@ - 1, 0), !.age = AtMost(@ + 1, MaxRtt)]]
  /\ limiter' = Older(limiter)
  /\ UNCHANGED <<debt, rate, target, order, rtt, nextSeq, phase>>

Init ==
  /\ queue = [b \in Priority |-> <<>>]
  /\ debt = 0 /\ idle = 0
  /\ target \in Targets /\ rate = target * PacingFactor
  /\ history = << >> /\ order = <<>> /\ limiter = FromTarget(target)
  /\ rtt \in Rtts
  /\ nextSeq = 1 /\ phase = "ready"

Next == PushFrame \/ OnNack \/ OnReport \/ OnRttSample \/ Tick \/ Poll \/ PollNothing \/ Pass

Spec == Init /\ [][Next]_vars

---------------------------------------------------------------------------
(* The state keeps its types; the debt never exceeds max_debt at the rate   *)
(* in force, whatever probes and reports do to the rate.                    *)
TypeOK ==
  /\ queue \in [Priority -> Seq(Packet)]
  /\ \A b \in Priority : \A k \in 1..Len(queue[b]) : queue[b][k].priority = b
  /\ debt \in 0..DebtCap(rate) /\ idle \in 0..MaxIdle /\ rate \in Nat \ {0}
  /\ target \in Targets /\ rtt \in Rtts
  /\ Stored \subseteq Seqs /\ \A s \in Stored : history[s] \in Entry
  /\ order \in Seq(Seqs) /\ limiter \in Limiter
  /\ nextSeq \in 1..(MaxSeq + 1) /\ phase \in {"ready", "draining"}

(* history.entries and history.order hold the same packets, each once, and  *)
(* never more than the capacity, through refreshes, evictions and culls.    *)
HistoryConsistent ==
  /\ Len(order) <= Capacity
  /\ Stored = {order[k] : k \in 1..Len(order)}
  /\ \A j, k \in 1..Len(order) : order[j] = order[k] => j = k

(* The pending mark of an entry is a promise that a copy is waiting to      *)
(* leave: the engine never calls clear_pending, so a copy that was dropped  *)
(* while its entry can still be NACKed would block that packet for good.    *)
(* No entry has two copies waiting.                                         *)
PendingIsQueued ==
  LET places == UNION {{b} \X (1..Len(queue[b])) : b \in Priority}
      copies(s) == {bk \in places : /\ queue[bk[1]][bk[2]].retransmit
                                    /\ queue[bk[1]][bk[2]].seq = s
                                    /\ IsLive(queue[bk[1]][bk[2]])}
  IN \A s \in Stored : history[s].ttl > 0 =>
       /\ history[s].pending <=> copies(s) # {}
       /\ \A c, d \in copies(s) : c = d

(* Outside a handler no voice packet waits: the drain that ends every       *)
(* handler empties the audio bucket, audio retransmissions included,        *)
(* however deep the media debt is.                                          *)
AudioNeverWaits == ~AccountForAudio /\ phase = "ready" => queue[Audio] = <<>>

(* The leaky bucket: video, retransmissions and control leave only while    *)
(* the debt is within the burst budget.  The audio fast path pops without   *)
(* looking at the debt and pop goes on to the next bucket when the audio it *)
(* finds has expired, so this rests on no audio ever expiring in the queue. *)
PacedWithinBudget ==
  [][\A b \in Priority \ {Audio} :
       Cardinality(LiveAt(queue', b)) < Cardinality(LiveAt(queue, b)) /\ phase = "draining"
         => CanSendPaced]_vars
===============================================================================
