------------------------------- MODULE Nack -------------------------------
(***************************************************************************)
(* The missing-sequence table of one remote track: NackRequester of        *)
(* src/core/nack.rs, the 20 ms gate of RemoteTrack::poll_nacks around it,  *)
(* and the NACK packets that carry its requests (src/core/packet.rs).      *)
(*                                                                         *)
(* Sequence numbers wrap at Space, 2^32 in the code, which sees only the   *)
(* wrapped numbers; top and holes say what really happened: top is the     *)
(* newest packet that arrived, and holes those between the first arrival   *)
(* and top that never did, named by how far behind top they are.  Instants *)
(* are ages and times left, as everywhere in these modules, so that        *)
(* nothing in the state grows without a bound.                             *)
(***************************************************************************)
EXTENDS Integers, FiniteSets, FiniteSetsExt

CONSTANTS
  Space,       \* size of the sequence space
  MaxList,     \* max_list_size, 1000 in the code
  MaxAge,      \* max_age_seqs, 10,000 in the code
  MaxRetries,  \* max_retries, 100 in the code
  Lifetime,    \* packet_lifetime, 200 ms in the code
  Delay,       \* nack_delay, 0 in the code
  Interval,    \* DEFAULT_PROCESS_INTERVAL, 20 ms
  Rtts,        \* round trips the track may be told
  MaskBits     \* width of NackPacket::blp, 16 in the code

Half == Space \div 2

NackAssumption ==
  /\ Space \in Nat /\ Space = 2 * Half /\ Half > 1
  /\ {MaxList, MaxAge, MaxRetries, Lifetime, Interval, MaskBits} \subseteq Nat \ {0}
  /\ MaxAge < Half /\ MaskBits < Half
  /\ Delay \in Nat
  /\ Rtts \subseteq Nat \ {0} /\ Rtts # {} /\ IsFiniteSet(Rtts)

Seqs == 0..(Space - 1)
None == Space      \* newest before the first packet

VARIABLES
  newest,     \* NackRequester::newest
  pending,    \* NackRequester::pending
  rtt,        \* NackRequester::rtt
  sinceNack,  \* time since RemoteTrack::last_nack_at
  nacks,      \* the NACK packets the last process returned
  top,        \* history: the newest packet that arrived
  holes       \* history: the packets behind top that never arrived

vars == <<newest, pending, rtt, sinceNack, nacks, top, holes>>

MaxRtt == Max(Rtts)
MinRtt == Min(Rtts)

Info == [age : 0..Lifetime, wait : 0..Max({MaxRtt, Delay}), retries : 0..MaxRetries]
Hole == [age : 0..Lifetime, asked : 0..(MaxRetries + 1), excused : BOOLEAN]

Wrap(n) == n % Space

AtMost(a, b)  == IF a <= b THEN a ELSE b
AtLeast(a, b) == IF a >= b THEN a ELSE b

---------------------------------------------------------------------------
(* NackRequester *)

(* seq_ahead *)
SeqAhead(a, b) == Wrap(a - b) # 0 /\ Wrap(a - b) < Half

NewGap == [age |-> 0, wait |-> Delay, retries |-> 0]

(* Variant: the walk begins one too late. *)
GapLate(from, to) == {Wrap(from + k) : k \in 2..(Wrap(to - from) - 1)}

(* The sequence numbers strictly between the newest and the one that came. *)
Gap(from, to) == {Wrap(from + k) : k \in 1..(Wrap(to - from) - 1)}

(* pending with new entries; one that is there keeps its times. *)
WithGaps(entries, seqs) ==
  [s \in DOMAIN entries \union seqs |-> IF s \in DOMAIN entries THEN entries[s] ELSE NewGap]

Without(entries, seqs) == [s \in DOMAIN entries \ seqs |-> entries[s]]

(* The entry of a packet that arrived goes first. *)
Cleared(seq) == Without(pending, {seq})

IsAhead(seq) == newest # None /\ SeqAhead(seq, newest)

(* A hole larger than the table or the age limit is not walked. *)
IsHuge(seq) ==
  IsAhead(seq) /\ (\/ Wrap(seq - newest) - 1 > MaxList
                   \/ Wrap(seq - newest) - 1 > MaxAge)

Listed(seq) ==
  IF IsAhead(seq) THEN WithGaps(Cleared(seq), Gap(newest, seq)) ELSE Cleared(seq)

(* on_received asks for a keyframe when it gives the table up. *)
Overflows(seq) == IsHuge(seq) \/ Cardinality(DOMAIN Listed(seq)) > MaxList

OnReceived(seq) ==
  /\ newest' = IF newest = None \/ IsAhead(seq) THEN seq ELSE newest
  /\ pending' = IF Overflows(seq) THEN << >> ELSE Listed(seq)

(* What process does with an entry, in the order it asks. *)
TooFar(seq)  == Wrap(newest - seq) > MaxAge
TooLate(seq) == pending[seq].age + 2 * rtt >= Lifetime

(* The only reason process asks for a keyframe. *)
OutOfTries(seq) == pending[seq].retries >= MaxRetries

Pruned == {s \in DOMAIN pending : TooFar(s) \/ TooLate(s) \/ OutOfTries(s)}

AsksKeyframe ==
  \E s \in DOMAIN pending : ~TooFar(s) /\ ~TooLate(s) /\ OutOfTries(s)

Due == {s \in DOMAIN pending \ Pruned : pending[s].wait = 0}

(* Variant: the next request is not put off. *)
AskAtOnce(info) == [info EXCEPT !.retries = @ + 1]

Ask(info) == [info EXCEPT !.retries = @ + 1, !.wait = rtt]

---------------------------------------------------------------------------
(* NackPacket *)

(* sequences: the base and one more for each bit of the mask. *)
SequencesOf(nack) == {nack.base} \union {Wrap(nack.base + i + 1) : i \in nack.mask}

(* Variant: the mask holds one more. *)
ReachWide(seqs, base) == {s \in seqs : s > base /\ s - base <= MaskBits + 1}

(* The numbers that share a packet with base: later ones the mask reaches.  *)
(* The input is sorted as plain numbers, so a packet never wraps.           *)
Reach(seqs, base) == {s \in seqs : s > base /\ s - base <= MaskBits}

(* pack: the least number left is the base of the next packet. *)
Pack(seqs) ==
  LET packed[left \in SUBSET seqs] ==
        IF left = {} THEN {}
        ELSE LET base == Min(left)
                 reach == Reach(left, base)
                 mask == {s - base - 1 : s \in reach} \intersect 0..(MaskBits - 1)
             IN {[base |-> base, mask |-> mask]} \union packed[left \ ({base} \union reach)]
  IN packed[seqs]

---------------------------------------------------------------------------
(* What really happened *)

NewHole == [age |-> 0, asked |-> 0, excused |-> FALSE]

(* The holes after a packet ahead of top by steps: the old ones are further *)
(* behind, the packets passed over are new.  What is half the space behind  *)
(* is forgotten.                                                            *)
Moved(steps) ==
  LET old == {d \in DOMAIN holes : d + steps < Half} IN
  [d \in {e + steps : e \in old} \union 1..(steps - 1) |->
     IF d < steps THEN NewHole ELSE holes[d - steps]]

Excuse(some) == [d \in DOMAIN some |-> [some[d] EXCEPT !.excused = TRUE]]

Told(some, keyframe) == IF keyframe THEN Excuse(some) ELSE some

---------------------------------------------------------------------------
(* The first packet of the track, anywhere in the space. *)
First ==
  /\ newest = None
  /\ \E seq \in Seqs : OnReceived(seq) /\ top' = seq
  /\ nacks' = {}
  /\ UNCHANGED <<rtt, sinceNack, holes>>

(* A packet newer than all that arrived.  No packet the table still lists   *)
(* falls half the space behind: the code would have to lose or leave        *)
(* unprocessed 2^31 packets.                                                *)
Ahead ==
  \E steps \in 1..(Half - 1) :
    LET seq == Wrap(top + steps) IN
    /\ newest # None
    /\ \A s \in DOMAIN pending : Wrap(top - s) + steps < Half
    /\ OnReceived(seq)
    /\ top' = seq
    /\ holes' = Told(Moved(steps), Overflows(seq))
    /\ nacks' = {}
    /\ UNCHANGED <<rtt, sinceNack>>

(* A packet that was overtaken, repeated or retransmitted, or that was sent *)
(* before the first one that arrived.                                       *)
Behind ==
  \E back \in 0..(Half - 1) :
    LET seq == Wrap(top - back) IN
    /\ newest # None
    /\ OnReceived(seq)
    /\ holes' = Told(Without(holes, {back}), Overflows(seq))
    /\ nacks' = {}
    /\ UNCHANGED <<rtt, sinceNack, top>>

(* poll_nacks, when the interval is over. *)
PollNacks ==
  /\ sinceNack = Interval /\ sinceNack' = 0
  /\ pending' = [s \in DOMAIN pending \ Pruned |->
                   IF s \in Due THEN Ask(pending[s]) ELSE pending[s]]
  /\ nacks' = Pack(Due)
  /\ holes' = Told([d \in DOMAIN holes |->
                      IF \E nack \in nacks' : Wrap(top - d) \in SequencesOf(nack)
                      THEN [holes[d] EXCEPT !.asked = AtMost(@ + 1, MaxRetries + 1)]
                      ELSE holes[d]], AsksKeyframe)
  /\ UNCHANGED <<newest, rtt, top>>

(* Engine::set_rtt, from an arrival report. *)
SetRtt ==
  /\ rtt' \in Rtts \ {rtt}
  /\ nacks' = {}
  /\ UNCHANGED <<newest, pending, sinceNack, top, holes>>

Pass ==
  /\ pending' = [s \in DOMAIN pending |->
                   [pending[s] EXCEPT !.age = AtMost(@ + 1, Lifetime), !.wait = AtLeast(@ - 1, 0)]]
  /\ holes' = [d \in DOMAIN holes |-> [holes[d] EXCEPT !.age = AtMost(@ + 1, Lifetime)]]
  /\ sinceNack' = AtMost(sinceNack + 1, Interval)
  /\ nacks' = {}
  /\ UNCHANGED <<newest, rtt, top>>

Init ==
  /\ newest = None /\ pending = << >> /\ rtt \in Rtts
  /\ sinceNack = Interval /\ nacks = {}
  /\ top = 0 /\ holes = << >>

Next == First \/ Ahead \/ Behind \/ PollNacks \/ SetRtt \/ Pass

Spec == Init /\ [][Next]_vars

---------------------------------------------------------------------------
(* The state keeps its types; the table never outgrows max_list_size, and   *)
(* no entry is asked for more than max_retries times.                       *)
TypeOK ==
  /\ newest \in Seqs \union {None} /\ top \in Seqs
  /\ DOMAIN pending \subseteq Seqs /\ \A s \in DOMAIN pending : pending[s] \in Info
  /\ Cardinality(DOMAIN pending) <= MaxList
  /\ rtt \in Rtts /\ sinceNack \in 0..Interval
  /\ nacks \subseteq [base : Seqs, mask : SUBSET (0..(MaskBits - 1))]
  /\ DOMAIN holes \subseteq 1..(Half - 1) /\ \A d \in DOMAIN holes : holes[d] \in Hole

(* Across the wrap, and whatever the order and the number of the arrivals,  *)
(* newest is the newest packet that arrived.                                *)
NewestIsTop == newest # None => newest = top

(* The table lists no packet that arrived and none that was not yet sent:   *)
(* what it asks for is missing.                                             *)
PendingIsMissing == \A s \in DOMAIN pending : Wrap(top - s) \in DOMAIN holes

(* No hole is forgotten: one that is not listed any more was given up to a  *)
(* keyframe request, is too far behind to be of use, or is so old that its  *)
(* retransmission would have come too late under some round trip the track  *)
(* was told.                                                                *)
HolesAreListed ==
  \A d \in DOMAIN holes :
    \/ Wrap(top - d) \in DOMAIN pending
    \/ holes[d].excused \/ d > MaxAge \/ holes[d].age + 2 * MaxRtt >= Lifetime

(* The requester knows what is missing: the newest packet, that what it     *)
(* lists is missing, and that it lists what is.                             *)
ListIsExact == NewestIsTop /\ PendingIsMissing /\ HolesAreListed

(* The NACK packets name what the table has just marked as asked for, each  *)
(* number in one packet: pack and sequences are inverse to each other.      *)
NamesMarked ==
  /\ UNION {SequencesOf(nack) : nack \in nacks'} =
       {s \in DOMAIN pending' \intersect DOMAIN pending :
          pending'[s].retries > pending[s].retries}
  /\ \A a, b \in nacks' : SequencesOf(a) \intersect SequencesOf(b) # {} => a = b

RequestsExact == [][NamesMarked]_vars

(* Requests for one packet are a round trip apart and end with max_retries. *)
RequestsSpaced ==
  \A d \in DOMAIN holes :
    /\ holes[d].asked <= MaxRetries
    /\ holes[d].asked > 0 => Delay + (holes[d].asked - 1) * MinRtt <= holes[d].age
===========================================================================
