-------------------------- MODULE ArrivalFeedback --------------------------
(***************************************************************************)
(* One direction of the arrival reports of src/core/feedback.rs, as Path   *)
(* uses them: the sender notes every datagram under its transport          *)
(* sequence, the receiver collects arrivals into windows of MaskBits       *)
(* sequences and reports one window at most every Interval, and the sender *)
(* matches a report with what it noted.  Datagrams and reports may be      *)
(* lost, overtaken and repeated.  Sizes and receive times only feed the    *)
(* filters of module RateControl and are left out.                         *)
(***************************************************************************)
EXTENDS Integers, Sequences, FiniteSets, SequencesExt, Functions

CONSTANTS
  MaskBits,       \* ARRIVAL_MASK_BITS
  Interval, Retention,
  SeqSpace,       \* 2^32 in the code
  FirstSeq,       \* transport sequence of the first datagram of the run
  MaxSent,        \* bound: datagrams
  MaxTime         \* bound: ticks of the clock

FeedbackAssumption ==
  /\ {MaskBits, Interval, SeqSpace} \subseteq Nat \ {0} /\ MaskBits < SeqSpace
  /\ {Retention, MaxSent, MaxTime} \subseteq Nat /\ FirstSeq \in 0..(SeqSpace - 1)
  /\ MaxSent < SeqSpace

Seqs == 0..(SeqSpace - 1)
Unset == -1

VARIABLES
  sent,        \* number of datagrams sent
  history,     \* the sender's records, oldest first
  acked,       \* sequences covered by a report
  result,      \* the last matched report: received, lost and the round trip
  wire,        \* datagrams that may still arrive
  dropped,     \* datagrams the network lost
  pending,     \* arrivals not yet reported, with their time
  nextBase, lastEmit,
  reports,     \* reports on their way, for ever deliverable
  arrived,     \* history: first arrival of each sequence
  now

sendVars == <<sent, history, acked, result>>
recvVars == <<pending, nextBase, lastEmit, reports, arrived>>
vars == <<sendVars, wire, dropped, recvVars, now>>

NoResult == [received |-> {}, lost |-> {}, rtt |-> Unset]

Init ==
  /\ sent = 0 /\ history = <<>> /\ acked = {} /\ result = NoResult
  /\ wire = {} /\ dropped = {}
  /\ pending = [s \in {} |-> 0] /\ nextBase = Unset /\ lastEmit = Unset
  /\ reports = {} /\ arrived = [s \in {} |-> 0]
  /\ now = 0

SeqsOf(records) == {records[k].seq : k \in 1..Len(records)}

(* The first record that the condition lets stay, and all behind it.        *)
FromFirst(records, Stays(_)) ==
  IF \E k \in 1..Len(records) : Stays(records[k])
  THEN SubSeq(records, CHOOSE k \in 1..Len(records) :
                         Stays(records[k]) /\ \A j \in 1..(k - 1) : ~Stays(records[j]),
              Len(records))
  ELSE <<>>

(* Too old, and then acknowledged and half as old. *)
Culled(records, covered) ==
  LET kept == FromFirst(records, LAMBDA r : now - r.at <= Retention)
  IN FromFirst(kept, LAMBDA r : r.seq \notin covered \/ 2 * (now - r.at) <= Retention)

(* Variant: what leaves the records stays acknowledged. *)
StillAckedAlways(covered, records) == covered

StillAcked(covered, records) == covered \intersect SeqsOf(records)

(* on_sent, when drain puts a datagram on the socket. *)
Send ==
  LET seq == (FirstSeq + sent) % SeqSpace
      kept == Culled(Append(history, [seq |-> seq, at |-> now]), acked)
  IN
  /\ sent < MaxSent
  /\ sent' = sent + 1
  /\ history' = kept /\ acked' = StillAcked(acked, kept)
  /\ wire' = wire \union {seq}
  /\ result' = NoResult
  /\ UNCHANGED <<dropped, recvVars, now>>

Lose ==
  \E seq \in wire :
    /\ wire' = wire \ {seq} /\ dropped' = dropped \union {seq}
    /\ seq \notin DOMAIN arrived
    /\ UNCHANGED <<sendVars, recvVars, now>>

Recent(got) == Restrict(got, {s \in DOMAIN got : now - got[s] <= Retention})

Window(base) == {(base + i) % SeqSpace : i \in 0..(MaskBits - 1)}

(* An empty window gives way to one that starts at the numerically oldest   *)
(* arrival.                                                                 *)
WindowBase(got, base) ==
  IF Window(base) \intersect DOMAIN got # {} THEN base
  ELSE CHOOSE s \in DOMAIN got : \A t \in DOMAIN got : s <= t

(* Variant: the report is taken for complete and the rest forgotten. *)
UnreportedNone(got, base) == Restrict(got, {})

Unreported(got, base) == Restrict(got, DOMAIN got \ Window(base))

(* poll of the recorder: nothing, or one window. *)
MayReport(got, base) ==
  /\ lastEmit = Unset \/ now - lastEmit >= Interval
  /\ base # Unset /\ DOMAIN Recent(got) # {}

PollFeedback(got, base) ==
  IF MayReport(got, base)
  THEN LET kept == Recent(got)
           first == WindowBase(kept, base)
       IN /\ reports' = reports \union {[first |-> first,
                                         received |-> Window(first) \intersect DOMAIN kept]}
          /\ pending' = Unreported(kept, first)
          /\ nextBase' = (first + MaskBits) % SeqSpace
          /\ lastEmit' = now
  ELSE /\ pending' = IF lastEmit = Unset \/ now - lastEmit >= Interval THEN Recent(got) ELSE got
       /\ nextBase' = base
       /\ UNCHANGED <<reports, lastEmit>>

(* push_packet: record_arrival, then the poll of finish.  A datagram may    *)
(* come a second time.                                                      *)
Arrive ==
  \E seq \in wire, again \in BOOLEAN :
    LET got == IF seq \in DOMAIN pending THEN pending
               ELSE [s \in DOMAIN pending \union {seq} |-> IF s = seq THEN now ELSE pending[s]]
    IN
    /\ again => seq \notin DOMAIN arrived
    /\ wire' = IF again THEN wire ELSE wire \ {seq}
    /\ arrived' = IF seq \in DOMAIN arrived THEN arrived
                  ELSE [s \in DOMAIN arrived \union {seq} |-> IF s = seq THEN now ELSE arrived[s]]
    /\ PollFeedback(Recent(got), IF nextBase = Unset THEN seq ELSE nextBase)
    /\ UNCHANGED <<sendVars, dropped, now>>

(* The receiver's engine is entered for another reason. *)
Tick ==
  /\ PollFeedback(pending, nextBase)
  /\ UNCHANGED <<sendVars, wire, dropped, arrived, now>>

(* Variant: the newest record of the window, received or not. *)
NewestCovered(records, window, received) ==
  LET ks == {k \in 1..Len(records) : records[k].seq \in window}
  IN IF ks = {} THEN {} ELSE {records[CHOOSE k \in ks : \A j \in ks : j <= k]}

(* The round trip is taken from the newest datagram of the window that was  *)
(* received.                                                                *)
Newest(records, window, received) ==
  LET ks == {k \in 1..Len(records) : records[k].seq \in received}
  IN IF ks = {} THEN {} ELSE {records[CHOOSE k \in ks : \A j \in ks : j <= k]}

(* on_feedback: every datagram of the window that is still on record counts *)
(* as received or as lost.                                                  *)
OnReport ==
  \E report \in reports :
    LET known == Culled(history, acked)
        window == Window(report.first)
        covered == StillAcked(acked, known) \union (window \intersect SeqsOf(known))
        kept == Culled(known, covered)
        newest == Newest(known, window, report.received)
    IN
    /\ history' = kept /\ acked' = StillAcked(covered, kept)
    /\ result' = [received |-> window \intersect SeqsOf(known) \intersect report.received,
                  lost |-> (window \intersect SeqsOf(known)) \ report.received,
                  rtt |-> IF newest = {} THEN Unset ELSE now - (CHOOSE r \in newest : TRUE).at]
    /\ UNCHANGED <<sent, wire, dropped, recvVars, now>>

Pass ==
  /\ now < MaxTime /\ now' = now + 1 /\ result' = NoResult
  /\ UNCHANGED <<sent, history, acked, wire, dropped, recvVars>>

Next == Send \/ Lose \/ Arrive \/ Tick \/ OnReport \/ Pass

Spec == Init /\ [][Next]_vars

---------------------------------------------------------------------------
SentSeqs == {(FirstSeq + k) % SeqSpace : k \in 0..(sent - 1)}

(* What the receiver may still report was sent, and acked names only what   *)
(* the sender has on record: a leftover would make the datagram that takes  *)
(* the same sequence after a wrap vanish from what is in flight.            *)
TypeOK ==
  /\ sent \in 0..MaxSent /\ now \in 0..MaxTime
  /\ wire \subseteq SentSeqs /\ DOMAIN arrived \subseteq SentSeqs
  /\ DOMAIN pending \subseteq DOMAIN arrived
  /\ nextBase \in Seqs \union {Unset} /\ lastEmit \in 0..MaxTime \union {Unset}
  /\ \A r \in reports : r.first \in Seqs /\ r.received \subseteq Window(r.first)
  /\ acked \subseteq SeqsOf(history)

(* An arrival is never forgotten while it is worth reporting: it waits for  *)
(* the next window, it is in a report, or it is older than the retention.   *)
ArrivalAccounted ==
  \A s \in DOMAIN arrived :
    \/ s \in DOMAIN pending
    \/ \E r \in reports : s \in r.received
    \/ now - arrived[s] > Retention

(* A round trip is never shorter than the way there: it is not taken from a *)
(* datagram that was sent after the one the report is about.                *)
RoundTripReal ==
  result.rtt # Unset => \E s \in result.received : result.rtt >= now - arrived[s]

(* src/core/feedback.rs, of receive_time: "`None` = lost", and of its       *)
(* pipeline: "(acked / lost / in-flight)".  The window reaches beyond the   *)
(* newest arrival, and what is on its way there is counted as lost.         *)
LostMeansLost == result.lost \subseteq dropped
============================================================================
