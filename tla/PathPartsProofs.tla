--------------------------- MODULE PathPartsProofs ---------------------------
(***************************************************************************)
(* The parts of a Path keep their promises for every value of the          *)
(* constants: retransmissions stay within two budgets, rates within the    *)
(* target and the target within the pacer, and an arrival is reported.     *)
(***************************************************************************)
EXTENDS MCPathParts, Induction, SequenceTheorems

(* The arrival reports *)

Record == [seq : Feedback!Seqs, at : Nat]

(* A time is a time on record of the receiver. *)
ArrivalsTimed ==
  /\ arrived \in [DOMAIN arrived -> Nat] /\ \A s \in DOMAIN arrived : arrived[s] <= clock
  /\ pending \in [DOMAIN pending -> Nat]
  /\ \A s \in DOMAIN pending : arrived[s] <= pending[s]
  /\ \A r \in reports : r.received \subseteq DOMAIN arrived

(* The sender notes a datagram before the receiver sees it, and what is     *)
(* matched with a report did arrive.                                        *)
SentBeforeArrived ==
  /\ history \in Seq(Record)
  /\ \A k \in 1..Len(history) :
       /\ history[k].at <= clock
       /\ history[k].seq \in DOMAIN arrived => history[k].at <= arrived[history[k].seq]
  /\ result.received \subseteq DOMAIN arrived

FeedbackInv ==
  /\ Feedback!TypeOK
  /\ ArrivalsTimed
  /\ SentBeforeArrived
  /\ Feedback!ArrivalAccounted
  /\ Feedback!RoundTripReal

(* What the assumption on the constants says of the reports. *)
LEMMA FeedbackConstants ==
  /\ MaskBits \in Nat /\ MaskBits < SeqSpace /\ SeqSpace \in Nat \ {0}
  /\ Retention \in Nat /\ MaxSent \in Nat /\ LastTick \in Nat
  /\ FirstSeq \in 0..(SeqSpace - 1) /\ MaxSent < SeqSpace
BY PartsAssumption DEF Feedback!FeedbackAssumption

(* Sequences that are less than a whole wrap apart differ. *)
LEMMA NoWrap ==
  ASSUME NEW N \in Nat \ {0}, NEW a \in 0..(N - 1), NEW i \in Nat, NEW j \in Nat, i < j, j < N
  PROVE  (a + i) % N # (a + j) % N /\ (a + i) % N \in 0..(N - 1)
<1>1. (a + i) % N = IF a + i < N THEN a + i ELSE a + i - N
  OBVIOUS
<1>2. (a + j) % N = IF a + j < N THEN a + j ELSE a + j - N
  OBVIOUS
<1>. QED  BY <1>1, <1>2

(* The sequence of the next datagram is not one of those sent. *)
LEMMA NextSeqFresh ==
  ASSUME sent \in 0..MaxSent
  PROVE  /\ Feedback!SentSeqs \subseteq Feedback!Seqs
         /\ sent < MaxSent => /\ (FirstSeq + sent) % SeqSpace \notin Feedback!SentSeqs
                              /\ (FirstSeq + sent) % SeqSpace \in Feedback!Seqs
<1>1. \A x \in Nat : x % SeqSpace \in 0..(SeqSpace - 1)
  BY FeedbackConstants
<1>2. \A k \in 0..(sent - 1) : FirstSeq + k \in Nat
  BY FeedbackConstants
<1>3. Feedback!SentSeqs \subseteq Feedback!Seqs
  BY <1>1, <1>2 DEF Feedback!SentSeqs, Feedback!Seqs
<1>4. ASSUME sent < MaxSent, NEW k \in 0..(sent - 1)
      PROVE  (FirstSeq + sent) % SeqSpace # (FirstSeq + k) % SeqSpace
  <2>1. k \in Nat /\ sent \in Nat /\ k < sent /\ sent < SeqSpace
    BY <1>4, FeedbackConstants
  <2>. QED  BY <2>1, FeedbackConstants, NoWrap
<1>5. FirstSeq + sent \in Nat
  BY FeedbackConstants
<1>. QED  BY <1>1, <1>3, <1>4, <1>5 DEF Feedback!SentSeqs, Feedback!Seqs

(* The back of a sequence holds elements of it. *)
LEMMA BackOf ==
  ASSUME NEW S, NEW q \in Seq(S), NEW m \in 1..Len(q)
  PROVE  /\ SubSeq(q, m, Len(q)) \in Seq(S)
         /\ \A i \in 1..Len(SubSeq(q, m, Len(q))) :
              \E j \in 1..Len(q) : SubSeq(q, m, Len(q))[i] = q[j]
<1>1. Len(q) \in Nat /\ m \in Nat
  OBVIOUS
<1>2. /\ SubSeq(q, m, Len(q)) \in Seq(S)
      /\ Len(SubSeq(q, m, Len(q))) = Len(q) - m + 1
      /\ \A i \in 1..(Len(q) - m + 1) : SubSeq(q, m, Len(q))[i] = q[m + i - 1]
  BY <1>1, SubSeqProperties
<1>3. \A i \in 1..(Len(q) - m + 1) : m + i - 1 \in 1..Len(q)
  BY <1>1
<1>. QED  BY <1>2, <1>3

(* Of the positions that a condition lets stay there is a first. *)
LEMMA FirstOf ==
  ASSUME NEW n \in Nat, NEW K \in SUBSET (1..n), K # {}
  PROVE  \E k \in 1..n : k \in K /\ \A j \in 1..(k - 1) : j \notin K
<1>1. PICK k \in K : \A j \in K : k <= j
  BY LeastNumber
<1>. QED  BY <1>1

(* Records only leave at the front. *)
LEMMA CulledWithin ==
  ASSUME NEW S, NEW records \in Seq(S), NEW covered
  PROVE  /\ Feedback!Culled(records, covered) \in Seq(S)
         /\ \A i \in 1..Len(Feedback!Culled(records, covered)) :
              \E j \in 1..Len(records) : Feedback!Culled(records, covered)[i] = records[j]
<1>. DEFINE Young(r) == clock - r.at <= Retention
            Wanted(r) == r.seq \notin covered \/ 2 * (clock - r.at) <= Retention
            m == CHOOSE k \in 1..Len(records) :
                   Young(records[k]) /\ \A j \in 1..(k - 1) : ~Young(records[j])
            kept == IF \E k \in 1..Len(records) : Young(records[k])
                    THEN SubSeq(records, m, Len(records)) ELSE <<>>
            n == CHOOSE k \in 1..Len(kept) :
                   Wanted(kept[k]) /\ \A j \in 1..(k - 1) : ~Wanted(kept[j])
            rest == IF \E k \in 1..Len(kept) : Wanted(kept[k])
                    THEN SubSeq(kept, n, Len(kept)) ELSE <<>>
<1>1. Feedback!Culled(records, covered) = rest
  BY DEF Feedback!Culled, Feedback!FromFirst
<1>2. Len(records) \in Nat
  OBVIOUS
<1>3. kept \in Seq(S) /\ \A i \in 1..Len(kept) : \E j \in 1..Len(records) : kept[i] = records[j]
  <2>1. CASE \E k \in 1..Len(records) : Young(records[k])
    <3>. DEFINE K == {k \in 1..Len(records) : Young(records[k])}
    <3>1. \E k \in 1..Len(records) : k \in K /\ \A j \in 1..(k - 1) : j \notin K
      <4>. HIDE DEF Young
      <4>1. K \in SUBSET (1..Len(records)) /\ K # {}
        BY <2>1
      <4>. HIDE DEF K
      <4>. QED  BY <1>2, <4>1, FirstOf
    <3>2. \E k \in 1..Len(records) : Young(records[k]) /\ \A j \in 1..(k - 1) : ~Young(records[j])
      <4>. HIDE DEF Young
      <4>. QED  BY <1>2, <3>1
    <3>3. m \in 1..Len(records)
      <4>. HIDE DEF Young
      <4>. QED  BY <3>2
    <3>. HIDE DEF m, Young
    <3>. QED  BY <2>1, <3>3, BackOf
  <2>2. CASE ~\E k \in 1..Len(records) : Young(records[k])
    <3>1. kept = <<>>
      BY <2>2
    <3>. HIDE DEF kept
    <3>. QED  BY <3>1
  <2>. QED  BY <2>1, <2>2
<1>. HIDE DEF kept, m
<1>4. Len(kept) \in Nat
  BY <1>3
<1>5. rest \in Seq(S) /\ \A i \in 1..Len(rest) : \E j \in 1..Len(kept) : rest[i] = kept[j]
  <2>1. CASE \E k \in 1..Len(kept) : Wanted(kept[k])
    <3>. DEFINE K == {k \in 1..Len(kept) : Wanted(kept[k])}
    <3>1. \E k \in 1..Len(kept) : k \in K /\ \A j \in 1..(k - 1) : j \notin K
      <4>. HIDE DEF Wanted
      <4>1. K \in SUBSET (1..Len(kept)) /\ K # {}
        BY <2>1
      <4>. HIDE DEF K
      <4>. QED  BY <1>4, <4>1, FirstOf
    <3>2. \E k \in 1..Len(kept) : Wanted(kept[k]) /\ \A j \in 1..(k - 1) : ~Wanted(kept[j])
      <4>. HIDE DEF Wanted
      <4>. QED  BY <1>4, <3>1
    <3>3. n \in 1..Len(kept)
      <4>. HIDE DEF Wanted
      <4>. QED  BY <3>2
    <3>. HIDE DEF n, Wanted
    <3>. QED  BY <1>3, <2>1, <3>3, BackOf
  <2>2. CASE ~\E k \in 1..Len(kept) : Wanted(kept[k])
    <3>1. rest = <<>>
      BY <2>2
    <3>. HIDE DEF rest
    <3>. QED  BY <3>1
  <2>. QED  BY <2>1, <2>2
<1>. HIDE DEF rest
<1>6. \A i \in 1..Len(rest) : \E j \in 1..Len(records) : rest[i] = records[j]
  BY <1>3, <1>5
<1>. QED  BY <1>1, <1>5, <1>6

(* A window of arrivals holds sequences, and starts with one. *)
LEMMA WindowStart ==
  ASSUME NEW got, DOMAIN got \subseteq Feedback!Seqs, DOMAIN got # {}, NEW base \in Feedback!Seqs
  PROVE  Feedback!WindowBase(got, base) \in Feedback!Seqs
<1>1. DOMAIN got \in SUBSET Nat
  BY FeedbackConstants DEF Feedback!Seqs
<1>2. \E s \in DOMAIN got : \A t \in DOMAIN got : s <= t
  BY <1>1, LeastNumber
<1>. QED  BY <1>2 DEF Feedback!WindowBase

(* The poll keeps what it has, puts it into a report, or finds it too old.  *)
LEMMA PollAccounts ==
  ASSUME NEW got, got \in [DOMAIN got -> Nat], DOMAIN got \subseteq Feedback!Seqs,
         NEW base \in Feedback!Seqs \union {Feedback!Unset},
         lastEmit \in 0..LastTick \union {Feedback!Unset}, clock \in 0..LastTick,
         Feedback!PollFeedback(got, base)
  PROVE  /\ pending' \in [DOMAIN pending' -> Nat] /\ DOMAIN pending' \subseteq DOMAIN got
         /\ \A s \in DOMAIN pending' : pending'[s] = got[s]
         /\ reports \subseteq reports'
         /\ \A r \in reports' \ reports : /\ r.first \in Feedback!Seqs
                                          /\ r.received \subseteq Feedback!Window(r.first)
                                          /\ r.received \subseteq DOMAIN got
         /\ \A s \in DOMAIN got : \/ s \in DOMAIN pending'
                                  \/ \E r \in reports' : s \in r.received
                                  \/ clock - got[s] > Retention
         /\ nextBase' \in Feedback!Seqs \union {Feedback!Unset}
         /\ lastEmit' \in 0..LastTick \union {Feedback!Unset}
<1>. DEFINE kept == Feedback!Recent(got)
            first == Feedback!WindowBase(kept, base)
            report == [first |-> first, received |-> Feedback!Window(first) \intersect DOMAIN kept]
<1>1. /\ kept \in [DOMAIN kept -> Nat] /\ DOMAIN kept \subseteq DOMAIN got
      /\ \A s \in DOMAIN kept : kept[s] = got[s]
      /\ \A s \in DOMAIN got : s \in DOMAIN kept \/ clock - got[s] > Retention
  <2>1. \A s \in DOMAIN got : got[s] \in Nat
    OBVIOUS
  <2>. QED  BY <2>1, FeedbackConstants DEF Feedback!Recent, Feedback!Restrict
<1>. HIDE DEF kept
<1>2. CASE Feedback!MayReport(got, base)
  <2>1. /\ reports' = reports \union {report}
        /\ pending' = Feedback!Unreported(kept, first)
        /\ nextBase' = (first + MaskBits) % SeqSpace
        /\ lastEmit' = clock
    BY <1>2 DEF Feedback!PollFeedback, kept
  <2>2. first \in Feedback!Seqs
    <3>1. base # Feedback!Unset /\ DOMAIN kept # {}
      BY <1>2 DEF Feedback!MayReport, kept
    <3>. QED  BY <1>1, <3>1, WindowStart
  <2>. HIDE DEF first
  <2>3. nextBase' \in Feedback!Seqs
    <3>1. first + MaskBits \in Nat
      BY <2>2, FeedbackConstants DEF Feedback!Seqs
    <3>. QED  BY <2>1, <3>1, FeedbackConstants DEF Feedback!Seqs
  <2>4. /\ DOMAIN pending' = DOMAIN kept \ Feedback!Window(first)
        /\ pending' \in [DOMAIN pending' -> Nat]
        /\ \A s \in DOMAIN pending' : pending'[s] = kept[s]
    BY <1>1, <2>1 DEF Feedback!Unreported, Feedback!Restrict
  <2>5. \A s \in DOMAIN kept : s \in DOMAIN pending' \/ s \in report.received
    BY <2>4
  <2>6. ASSUME NEW r \in reports' \ reports
        PROVE  /\ r.first \in Feedback!Seqs
               /\ r.received \subseteq Feedback!Window(r.first)
               /\ r.received \subseteq DOMAIN got
    <3>1. r.first = first /\ r.received = Feedback!Window(first) \intersect DOMAIN kept
      BY <2>1
    <3>. QED  BY <1>1, <2>2, <3>1
  <2>7. ASSUME NEW s \in DOMAIN got
        PROVE  \/ s \in DOMAIN pending'
               \/ \E r \in reports' : s \in r.received
               \/ clock - got[s] > Retention
    BY <1>1, <2>1, <2>5
  <2>8. lastEmit' \in 0..LastTick /\ reports \subseteq reports'
    BY <2>1
  <2>9. DOMAIN pending' \subseteq DOMAIN got /\ \A s \in DOMAIN pending' : pending'[s] = got[s]
    BY <1>1, <2>4
  <2>. QED  BY <2>3, <2>4, <2>6, <2>7, <2>8, <2>9
<1>3. CASE ~Feedback!MayReport(got, base)
  <2>1. /\ pending' = kept \/ pending' = got
        /\ nextBase' = base /\ reports' = reports /\ lastEmit' = lastEmit
    BY <1>3 DEF Feedback!PollFeedback, kept
  <2>. QED  BY <1>1, <2>1
<1>. QED  BY <1>2, <1>3

(* Nothing was sent, and nothing is on its way. *)
LEMMA FeedbackInit == Feedback!Init => FeedbackInv
<1>. SUFFICES ASSUME Feedback!Init  PROVE FeedbackInv
  OBVIOUS
<1>1. Feedback!TypeOK
  BY FeedbackConstants DEF Feedback!Init, Feedback!TypeOK, Feedback!SeqsOf
<1>2. ArrivalsTimed
  BY DEF Feedback!Init, ArrivalsTimed
<1>3. SentBeforeArrived
  BY DEF Feedback!Init, SentBeforeArrived, Feedback!NoResult
<1>4. Feedback!ArrivalAccounted /\ Feedback!RoundTripReal
  BY DEF Feedback!Init, Feedback!ArrivalAccounted, Feedback!RoundTripReal, Feedback!NoResult
<1>. QED  BY <1>1, <1>2, <1>3, <1>4 DEF FeedbackInv

(* The types the steps below use. *)
LEMMA FeedbackTypes ==
  ASSUME FeedbackInv
  PROVE  /\ sent \in 0..MaxSent /\ clock \in 0..LastTick /\ clock \in Nat
         /\ wire \subseteq Feedback!SentSeqs /\ DOMAIN arrived \subseteq Feedback!SentSeqs
         /\ DOMAIN pending \subseteq DOMAIN arrived
         /\ DOMAIN pending \subseteq Feedback!Seqs /\ wire \subseteq Feedback!Seqs
         /\ nextBase \in Feedback!Seqs \union {Feedback!Unset}
         /\ lastEmit \in 0..LastTick \union {Feedback!Unset}
         /\ history \in Seq(Record)
BY NextSeqFresh, FeedbackConstants DEF FeedbackInv, Feedback!TypeOK, SentBeforeArrived

(* A datagram is on record before it can arrive, under a sequence nobody    *)
(* has seen.                                                                *)
LEMMA SendKeeps ==
  ASSUME FeedbackInv, Feedback!Send
  PROVE  FeedbackInv'
<1>. DEFINE seq == (FirstSeq + sent) % SeqSpace
            record == [seq |-> seq, at |-> clock]
            noted == Append(history, record)
            kept == Feedback!Culled(noted, acked)
<1>1. /\ sent < MaxSent /\ sent' = sent + 1
      /\ history' = kept /\ acked' = Feedback!StillAcked(acked, kept)
      /\ wire' = wire \union {seq} /\ result' = Feedback!NoResult
      /\ UNCHANGED <<pending, nextBase, lastEmit, reports, arrived, clock>>
  BY DEF Feedback!Send, Feedback!recvVars
<1>2. seq \in Feedback!Seqs /\ seq \notin Feedback!SentSeqs
  BY <1>1, FeedbackTypes, NextSeqFresh
<1>3. seq \in Feedback!SentSeqs' /\ Feedback!SentSeqs \subseteq Feedback!SentSeqs'
  <2>1. 0..(sent - 1) \subseteq 0..(sent' - 1) /\ sent \in 0..(sent' - 1)
    BY <1>1, FeedbackTypes
  <2>. QED  BY <2>1 DEF Feedback!SentSeqs
<1>. HIDE DEF seq
<1>4. /\ noted \in Seq(Record)
      /\ \A k \in 1..Len(noted) : noted[k] = record
                                 \/ \E i \in 1..Len(history) : noted[k] = history[i]
  <2>1. record \in Record /\ history \in Seq(Record)
    BY <1>2, FeedbackTypes DEF Record
  <2>. HIDE DEF record
  <2>. QED  BY <2>1
<1>. HIDE DEF noted
<1>5. kept \in Seq(Record) /\ \A i \in 1..Len(kept) : \E j \in 1..Len(noted) : kept[i] = noted[j]
  BY <1>4, CulledWithin
<1>. HIDE DEF kept
<1>6. Feedback!TypeOK'
  <2>1. acked' \subseteq Feedback!SeqsOf(history)'
    BY <1>1 DEF Feedback!StillAcked, Feedback!SeqsOf
  <2>2. sent' \in 0..MaxSent
    BY <1>1, FeedbackTypes, FeedbackConstants
  <2>. QED  BY <1>1, <1>3, <2>1, <2>2 DEF FeedbackInv, Feedback!TypeOK
<1>7. ArrivalsTimed'
  BY <1>1 DEF FeedbackInv, ArrivalsTimed
<1>8. SentBeforeArrived'
  <2>1. ASSUME NEW j \in 1..Len(noted)
        PROVE  /\ noted[j].at <= clock
               /\ noted[j].seq \in DOMAIN arrived => noted[j].at <= arrived[noted[j].seq]
    <3>1. CASE noted[j] = record
      <4>1. noted[j].at = clock /\ noted[j].seq = seq
        BY <3>1
      <4>2. clock \in Nat /\ seq \notin DOMAIN arrived
        BY <1>2, FeedbackTypes
      <4>. QED  BY <4>1, <4>2
    <3>2. CASE \E i \in 1..Len(history) : noted[j] = history[i]
      BY <3>2 DEF FeedbackInv, SentBeforeArrived
    <3>. HIDE DEF record
    <3>. QED  BY <1>4, <3>1, <3>2
  <2>2. ASSUME NEW i \in 1..Len(kept)
        PROVE  /\ kept[i].at <= clock
               /\ kept[i].seq \in DOMAIN arrived => kept[i].at <= arrived[kept[i].seq]
    BY <1>5, <2>1
  <2>. QED  BY <1>1, <1>5, <2>2 DEF SentBeforeArrived, Feedback!NoResult
<1>9. Feedback!ArrivalAccounted' /\ Feedback!RoundTripReal'
  BY <1>1 DEF FeedbackInv, Feedback!ArrivalAccounted, Feedback!RoundTripReal, Feedback!NoResult
<1>. QED  BY <1>6, <1>7, <1>8, <1>9 DEF FeedbackInv

(* What the recorder holds when it polls decides what stays accounted for.  *)
LEMMA PollKeeps ==
  ASSUME FeedbackInv, NEW got, got \in [DOMAIN got -> Nat],
         NEW base \in Feedback!Seqs \union {Feedback!Unset},
         Feedback!PollFeedback(got, base), UNCHANGED <<sent, history, acked, result, clock>>,
         wire' \subseteq wire, DOMAIN arrived \subseteq DOMAIN arrived',
         \A s \in DOMAIN arrived : arrived'[s] = arrived[s],
         arrived' \in [DOMAIN arrived' -> Nat],
         \A s \in DOMAIN arrived' : arrived'[s] <= clock,
         \A s \in DOMAIN arrived' \ DOMAIN arrived : s \in wire /\ arrived'[s] = clock,
         DOMAIN got \subseteq DOMAIN arrived', \A s \in DOMAIN got : arrived'[s] <= got[s],
         \A s \in DOMAIN arrived' \ DOMAIN got :
           s \in DOMAIN arrived \ DOMAIN pending \/ clock - arrived'[s] > Retention
  PROVE  FeedbackInv'
<1>1. DOMAIN arrived' \subseteq Feedback!SentSeqs /\ DOMAIN got \subseteq Feedback!Seqs
      /\ clock \in Nat
  BY FeedbackTypes, NextSeqFresh
<1>2. /\ pending' \in [DOMAIN pending' -> Nat] /\ DOMAIN pending' \subseteq DOMAIN got
      /\ \A s \in DOMAIN pending' : pending'[s] = got[s]
      /\ reports \subseteq reports'
      /\ \A r \in reports' \ reports : /\ r.first \in Feedback!Seqs
                                       /\ r.received \subseteq Feedback!Window(r.first)
                                       /\ r.received \subseteq DOMAIN got
      /\ \A s \in DOMAIN got : \/ s \in DOMAIN pending'
                               \/ \E r \in reports' : s \in r.received
                               \/ clock - got[s] > Retention
      /\ nextBase' \in Feedback!Seqs \union {Feedback!Unset}
      /\ lastEmit' \in 0..LastTick \union {Feedback!Unset}
  BY <1>1, FeedbackTypes, PollAccounts
<1>3. Feedback!TypeOK'
  <2>1. /\ Feedback!SentSeqs' = Feedback!SentSeqs
        /\ Feedback!SeqsOf(history)' = Feedback!SeqsOf(history)
    BY DEF Feedback!SentSeqs, Feedback!SeqsOf
  <2>2. \A r \in reports' : /\ r.first \in Feedback!Seqs
                           /\ r.received \subseteq Feedback!Window(r.first)
    BY <1>2 DEF FeedbackInv, Feedback!TypeOK
  <2>. QED  BY <1>1, <1>2, <2>1, <2>2 DEF FeedbackInv, Feedback!TypeOK
<1>4. ArrivalsTimed'
  BY <1>1, <1>2 DEF FeedbackInv, ArrivalsTimed
<1>5. SentBeforeArrived'
  <2>1. ASSUME NEW k \in 1..Len(history), history[k].seq \in DOMAIN arrived'
        PROVE  history[k].at <= arrived'[history[k].seq]
    BY <2>1 DEF FeedbackInv, SentBeforeArrived
  <2>. QED  BY <2>1 DEF FeedbackInv, SentBeforeArrived
<1>6. Feedback!ArrivalAccounted'
  <2>. SUFFICES ASSUME NEW s \in DOMAIN arrived'
                PROVE  \/ s \in DOMAIN pending'
                       \/ \E r \in reports' : s \in r.received
                       \/ clock - arrived'[s] > Retention
    BY DEF Feedback!ArrivalAccounted
  <2>1. CASE s \in DOMAIN got
    <3>1. CASE clock - got[s] > Retention
      <4>1. got[s] \in Nat /\ arrived'[s] \in Nat /\ arrived'[s] <= got[s]
        BY <2>1
      <4>. QED  BY <1>1, <3>1, <4>1, FeedbackConstants
    <3>. QED  BY <1>2, <2>1, <3>1
  <2>2. CASE s \in DOMAIN arrived \ DOMAIN pending
    BY <1>2, <2>2 DEF FeedbackInv, Feedback!ArrivalAccounted
  <2>. QED  BY <2>1, <2>2
<1>7. Feedback!RoundTripReal'
  BY DEF FeedbackInv, SentBeforeArrived, Feedback!RoundTripReal
<1>. QED  BY <1>3, <1>4, <1>5, <1>6, <1>7 DEF FeedbackInv

(* The receiver polls for another reason. *)
LEMMA TickKeeps ==
  ASSUME FeedbackInv, Feedback!Tick
  PROVE  FeedbackInv'
<1>1. /\ Feedback!PollFeedback(pending, nextBase)
      /\ UNCHANGED <<sent, history, acked, result, clock>> /\ wire' = wire /\ arrived' = arrived
  BY DEF Feedback!Tick, Feedback!sendVars
<1>2. /\ pending \in [DOMAIN pending -> Nat]
      /\ arrived \in [DOMAIN arrived -> Nat] /\ \A s \in DOMAIN arrived : arrived[s] <= clock
      /\ \A s \in DOMAIN pending : arrived[s] <= pending[s]
  BY DEF FeedbackInv, ArrivalsTimed
<1>3. \A s \in DOMAIN arrived \ DOMAIN pending : s \in DOMAIN arrived \ DOMAIN pending
  OBVIOUS
<1>. QED  BY <1>1, <1>2, FeedbackTypes, PollKeeps

(* A datagram arrives, perhaps not for the first time. *)
LEMMA ArriveKeeps ==
  ASSUME FeedbackInv, Feedback!Arrive
  PROVE  FeedbackInv'
<1>. DEFINE Got(seq) == IF seq \in DOMAIN pending THEN pending
                        ELSE [s \in DOMAIN pending \union {seq} |->
                                IF s = seq THEN clock ELSE pending[s]]
<1>1. PICK seq \in wire :
        /\ wire' \subseteq wire
        /\ arrived' = IF seq \in DOMAIN arrived THEN arrived
                      ELSE [s \in DOMAIN arrived \union {seq} |->
                              IF s = seq THEN clock ELSE arrived[s]]
        /\ Feedback!PollFeedback(Feedback!Recent(Got(seq)),
                                 IF nextBase = Feedback!Unset THEN seq ELSE nextBase)
        /\ UNCHANGED <<sent, history, acked, result, clock>>
  BY DEF Feedback!Arrive, Feedback!sendVars
<1>. DEFINE got == Feedback!Recent(Got(seq))
            base == IF nextBase = Feedback!Unset THEN seq ELSE nextBase
<1>2. /\ pending \in [DOMAIN pending -> Nat]
      /\ arrived \in [DOMAIN arrived -> Nat] /\ \A s \in DOMAIN arrived : arrived[s] <= clock
      /\ \A s \in DOMAIN pending : arrived[s] <= pending[s]
      /\ DOMAIN pending \subseteq DOMAIN arrived /\ clock \in Nat
  BY FeedbackTypes DEF FeedbackInv, ArrivalsTimed
<1>3. base \in Feedback!Seqs \union {Feedback!Unset}
  BY FeedbackTypes
<1>4. /\ DOMAIN Got(seq) = DOMAIN pending \union {seq}
      /\ \A s \in DOMAIN pending : Got(seq)[s] = pending[s]
      /\ seq \notin DOMAIN pending => Got(seq)[seq] = clock
      /\ \A s \in DOMAIN Got(seq) : Got(seq)[s] \in Nat
  BY <1>2
<1>. HIDE DEF Got
<1>5. /\ got \in [DOMAIN got -> Nat] /\ DOMAIN got \subseteq DOMAIN Got(seq)
      /\ \A s \in DOMAIN got : got[s] = Got(seq)[s]
      /\ \A s \in DOMAIN Got(seq) \ DOMAIN got : clock - Got(seq)[s] > Retention
  <2>1. /\ DOMAIN got = {s \in DOMAIN Got(seq) : clock - Got(seq)[s] <= Retention}
        /\ \A s \in DOMAIN got : got[s] = Got(seq)[s]
        /\ got = [s \in DOMAIN got |-> got[s]]
    BY DEF Feedback!Recent, Feedback!Restrict
  <2>2. \A s \in DOMAIN Got(seq) : clock - Got(seq)[s] > Retention
                                      \/ clock - Got(seq)[s] <= Retention
    BY <1>2, <1>4, FeedbackConstants
  <2>. QED  BY <1>4, <2>1, <2>2
<1>. HIDE DEF got
<1>6. /\ DOMAIN arrived' = DOMAIN arrived \union {seq}
      /\ \A s \in DOMAIN arrived : arrived'[s] = arrived[s]
      /\ seq \notin DOMAIN arrived => arrived'[seq] = clock
      /\ arrived' \in [DOMAIN arrived' -> Nat]
      /\ \A s \in DOMAIN arrived' : arrived'[s] <= clock
  BY <1>1, <1>2
<1>7. DOMAIN got \subseteq DOMAIN arrived' /\ \A s \in DOMAIN got : arrived'[s] <= got[s]
  <2>. SUFFICES ASSUME NEW s \in DOMAIN got  PROVE s \in DOMAIN arrived' /\ arrived'[s] <= got[s]
    OBVIOUS
  <2>1. s \in DOMAIN pending \/ (s = seq /\ s \notin DOMAIN pending)
    BY <1>4, <1>5
  <2>2. CASE s \in DOMAIN pending
    BY <1>2, <1>4, <1>5, <1>6, <2>2
  <2>3. CASE s = seq /\ s \notin DOMAIN pending
    BY <1>4, <1>5, <1>6, <2>3
  <2>. QED  BY <2>1, <2>2, <2>3
<1>8. ASSUME NEW s \in DOMAIN arrived' \ DOMAIN got
      PROVE  s \in DOMAIN arrived \ DOMAIN pending \/ clock - arrived'[s] > Retention
  <2>1. CASE s \in DOMAIN Got(seq)
    <3>1. clock - Got(seq)[s] > Retention /\ Got(seq)[s] \in Nat
      BY <1>4, <1>5, <2>1
    <3>2. arrived'[s] \in Nat /\ arrived'[s] <= Got(seq)[s]
      BY <1>2, <1>4, <1>6, <2>1
    <3>. QED  BY <1>2, <3>1, <3>2, FeedbackConstants
  <2>2. CASE s \notin DOMAIN Got(seq)
    BY <1>4, <1>6, <2>2
  <2>. QED  BY <2>1, <2>2
<1>9. Feedback!PollFeedback(got, base)
  BY <1>1 DEF got
<1>10. \A s \in DOMAIN arrived' \ DOMAIN arrived : s \in wire /\ arrived'[s] = clock
  BY <1>6
<1>. HIDE DEF base
<1>. QED  BY <1>1, <1>3, <1>5, <1>6, <1>7, <1>8, <1>9, <1>10, PollKeeps

(* A datagram is lost, or time passes. *)
LEMMA FeedbackRestKeeps ==
  ASSUME FeedbackInv, Feedback!Lose \/ Feedback!Pass
  PROVE  FeedbackInv'
<1>1. CASE Feedback!Lose
  <2>1. /\ wire' \subseteq wire
        /\ UNCHANGED <<sent, history, acked, result, pending, nextBase, lastEmit, reports,
                       arrived, clock>>
    BY <1>1 DEF Feedback!Lose, Feedback!sendVars, Feedback!recvVars
  <2>2. Feedback!TypeOK'
    BY <2>1 DEF FeedbackInv, Feedback!TypeOK, Feedback!SentSeqs, Feedback!SeqsOf
  <2>. QED  BY <2>1, <2>2 DEF FeedbackInv, ArrivalsTimed, SentBeforeArrived,
                              Feedback!ArrivalAccounted, Feedback!RoundTripReal
<1>2. CASE Feedback!Pass
  <2>1. /\ clock < LastTick /\ clock' = clock + 1 /\ result' = Feedback!NoResult
        /\ UNCHANGED <<sent, history, acked, wire, pending, nextBase, lastEmit, reports, arrived>>
    BY <1>2 DEF Feedback!Pass, Feedback!recvVars
  <2>2. clock' \in 0..LastTick /\ clock \in Nat
    BY <2>1, FeedbackTypes, FeedbackConstants
  <2>3. Feedback!TypeOK'
    BY <2>1, <2>2 DEF FeedbackInv, Feedback!TypeOK, Feedback!SentSeqs, Feedback!SeqsOf
  <2>4. ArrivalsTimed'
    <3>1. \A s \in DOMAIN arrived : arrived[s] \in Nat /\ arrived[s] <= clock'
      BY <2>1, <2>2 DEF FeedbackInv, ArrivalsTimed
    <3>. QED  BY <2>1, <3>1 DEF FeedbackInv, ArrivalsTimed
  <2>5. SentBeforeArrived'
    <3>1. \A k \in 1..Len(history) : history[k].at \in Nat /\ history[k].at <= clock'
      <4>1. \A k \in 1..Len(history) : history[k] \in Record
        BY FeedbackTypes
      <4>. QED  BY <2>1, <2>2, <4>1 DEF FeedbackInv, SentBeforeArrived, Record
    <3>. QED  BY <2>1, <3>1 DEF FeedbackInv, SentBeforeArrived, Feedback!NoResult
  <2>6. Feedback!ArrivalAccounted'
    <3>1. \A s \in DOMAIN arrived : arrived[s] \in Nat
      BY DEF FeedbackInv, ArrivalsTimed
    <3>. QED  BY <2>1, <2>2, <3>1, FeedbackConstants
              DEF FeedbackInv, Feedback!ArrivalAccounted
  <2>7. Feedback!RoundTripReal'
    BY <2>1 DEF Feedback!RoundTripReal, Feedback!NoResult
  <2>. QED  BY <2>3, <2>4, <2>5, <2>6, <2>7 DEF FeedbackInv
<1>. QED  BY <1>1, <1>2

(* The newest record of a report is one of the records, and its datagram    *)
(* was received.                                                            *)
LEMMA NewestOf ==
  ASSUME NEW S, NEW records \in Seq(S), NEW window, NEW received
  PROVE  Feedback!Newest(records, window, received) # {} =>
           \E k \in 1..Len(records) :
             /\ records[k].seq \in received
             /\ Feedback!Newest(records, window, received) = {records[k]}
<1>. DEFINE ks == {k \in 1..Len(records) : records[k].seq \in received}
            top == CHOOSE k \in ks : \A j \in ks : j <= k
<1>1. Feedback!Newest(records, window, received) = IF ks = {} THEN {} ELSE {records[top]}
  BY DEF Feedback!Newest
<1>2. CASE ks # {}
  <2>1. ks \in SUBSET Nat /\ Len(records) \in Nat /\ \A k \in ks : k <= Len(records)
    OBVIOUS
  <2>2. \E k \in ks : \A j \in ks : j <= k
    <3>. HIDE DEF ks
    <3>. QED  BY <1>2, <2>1, GreatestNumber
  <2>3. top \in ks
    <3>. HIDE DEF ks
    <3>. QED  BY <2>2
  <2>. HIDE DEF top
  <2>. QED  BY <1>1, <1>2, <2>3
<1>3. CASE ks = {}
  BY <1>1, <1>3
<1>. QED  BY <1>2, <1>3

(* The sender matches a report with what it has on record. *)
LEMMA OnReportKeeps ==
  ASSUME FeedbackInv, Feedback!OnReport
  PROVE  FeedbackInv'
<1>. DEFINE known == Feedback!Culled(history, acked)
            Covered(r) == Feedback!StillAcked(acked, known)
                            \union (Feedback!Window(r.first) \intersect Feedback!SeqsOf(known))
            Newest(r) == Feedback!Newest(known, Feedback!Window(r.first), r.received)
<1>1. PICK report \in reports :
        /\ history' = Feedback!Culled(known, Covered(report))
        /\ acked' = Feedback!StillAcked(Covered(report), Feedback!Culled(known, Covered(report)))
        /\ result' = [received |-> Feedback!Window(report.first) \intersect Feedback!SeqsOf(known)
                                     \intersect report.received,
                      lost |-> (Feedback!Window(report.first) \intersect Feedback!SeqsOf(known))
                                 \ report.received,
                      rtt |-> IF Newest(report) = {} THEN Feedback!Unset
                              ELSE clock - (CHOOSE r \in Newest(report) : TRUE).at]
        /\ UNCHANGED <<sent, wire, dropped, pending, nextBase, lastEmit, reports, arrived, clock>>
  BY DEF Feedback!OnReport, Feedback!recvVars
<1>. DEFINE window == Feedback!Window(report.first)
            covered == Covered(report)
            kept == Feedback!Culled(known, covered)
            newest == Newest(report)
<1>2. known \in Seq(Record) /\ \A i \in 1..Len(known) : \E j \in 1..Len(history) :
                                   known[i] = history[j]
  BY FeedbackTypes, CulledWithin
<1>. HIDE DEF known, Covered
<1>3. kept \in Seq(Record) /\ \A i \in 1..Len(kept) : \E j \in 1..Len(known) : kept[i] = known[j]
  BY <1>2, CulledWithin
<1>4. /\ history' = kept /\ acked' = Feedback!StillAcked(covered, kept)
      /\ result'.received = window \intersect Feedback!SeqsOf(known) \intersect report.received
      /\ result'.rtt = IF newest = {} THEN Feedback!Unset
                       ELSE clock - (CHOOSE r \in newest : TRUE).at
      /\ UNCHANGED <<sent, wire, pending, nextBase, lastEmit, reports, arrived, clock>>
  BY <1>1
<1>. HIDE DEF kept, newest, window, Newest
<1>5. report.received \subseteq DOMAIN arrived /\ report.received \subseteq window
  BY DEF FeedbackInv, ArrivalsTimed, Feedback!TypeOK, window
<1>6. Feedback!TypeOK'
  <2>1. acked' \subseteq Feedback!SeqsOf(history)'
    BY <1>4 DEF Feedback!StillAcked, Feedback!SeqsOf
  <2>. QED  BY <1>4, <2>1 DEF FeedbackInv, Feedback!TypeOK, Feedback!SentSeqs
<1>7. ArrivalsTimed' /\ Feedback!ArrivalAccounted'
  BY <1>4 DEF FeedbackInv, ArrivalsTimed, Feedback!ArrivalAccounted
<1>8. \A i \in 1..Len(known) :
        /\ known[i].at <= clock
        /\ known[i].seq \in DOMAIN arrived => known[i].at <= arrived[known[i].seq]
  BY <1>2 DEF FeedbackInv, SentBeforeArrived
<1>9. SentBeforeArrived'
  <2>1. \A i \in 1..Len(kept) :
          /\ kept[i].at <= clock
          /\ kept[i].seq \in DOMAIN arrived => kept[i].at <= arrived[kept[i].seq]
    BY <1>3, <1>8
  <2>. QED  BY <1>3, <1>4, <1>5, <2>1 DEF SentBeforeArrived
<1>10. Feedback!RoundTripReal'
  <2>. SUFFICES ASSUME newest # {}
                PROVE  \E s \in result'.received : result'.rtt >= clock - arrived[s]
    BY <1>4 DEF Feedback!RoundTripReal
  <2>1. PICK k \in 1..Len(known) : known[k].seq \in report.received /\ newest = {known[k]}
    BY <1>2, NewestOf DEF newest, Newest
  <2>2. result'.rtt = clock - known[k].at
    <3>1. (CHOOSE r \in newest : TRUE) = known[k]
      BY <2>1
    <3>. QED  BY <1>4, <3>1
  <2>3. known[k].seq \in result'.received
    BY <1>4, <1>5, <2>1 DEF Feedback!SeqsOf
  <2>4. known[k].at <= arrived[known[k].seq]
    BY <1>5, <1>8, <2>1
  <2>5. known[k].at \in Nat /\ arrived[known[k].seq] \in Nat /\ clock \in Nat
    <3>1. known[k] \in Record
      BY <1>2
    <3>. QED  BY <1>5, <2>1, <3>1, FeedbackTypes DEF Record, FeedbackInv, ArrivalsTimed
  <2>. QED  BY <2>2, <2>3, <2>4, <2>5
<1>. QED  BY <1>6, <1>7, <1>9, <1>10 DEF FeedbackInv

(* The invariant of the reports. *)
LEMMA FeedbackInvHolds == Feedback!Spec => []FeedbackInv
<1>1. FeedbackInv /\ UNCHANGED Feedback!vars => FeedbackInv'
  BY DEF FeedbackInv, Feedback!vars, Feedback!sendVars, Feedback!recvVars, Feedback!TypeOK,
         Feedback!SentSeqs, Feedback!SeqsOf, ArrivalsTimed, SentBeforeArrived,
         Feedback!ArrivalAccounted, Feedback!RoundTripReal
<1>2. FeedbackInv /\ [Feedback!Next]_Feedback!vars => FeedbackInv'
  BY <1>1, SendKeeps, ArriveKeeps, TickKeeps, OnReportKeeps, FeedbackRestKeeps
     DEF Feedback!Next
<1>. QED  BY <1>2, FeedbackInit, PTL DEF Feedback!Spec

---------------------------------------------------------------------------
(* The rates of an engine *)

(* Every track was told a rate. *)
RateInv ==
  /\ Rate!TypeOK
  /\ now \in Nat /\ pacing \in Nat
  /\ rates \in [DOMAIN rates -> Nat]
  /\ SumFunction(rates) <= target /\ target <= pacing

(* The sum the model uses is the sum of module Induction. *)
LEMMA SameSum == ASSUME NEW fun  PROVE Rate!SumFunction(fun) = SumFunction(fun)
BY DEF Rate!SumFunction, Rate!SumFunctionOnSet, Rate!FoldFunctionOnSet, Rate!MapThenFoldSet,
       SumFunction, SumFunctionOnSet, FoldFunctionOnSet, MapThenFoldSet

(* The tracks of an engine can be counted. *)
LEMMA TracksFinite ==
  ASSUME NEW S \in SUBSET Rate!Tracks
  PROVE  IsFiniteSet(S) /\ Cardinality(S) \in Nat /\ (Cardinality(S) = 0 <=> S = {})
<1>1. IsFiniteSet(Rate!Tracks)
  BY PartsAssumption DEF Rate!RateAssumption, Rate!Tracks, Rate!IsFiniteSet, IsFiniteSet
<1>. QED  BY <1>1, FS_Subset, FS_CardinalityType, FS_EmptySet

(* The sum of a function that gives one value on a part of a set and        *)
(* another on the rest.                                                     *)
LEMMA SumOfShares ==
  ASSUME NEW S, IsFiniteSet(S), NEW Part, NEW a \in Nat, NEW v \in Nat,
         NEW fun, \A x \in S : fun[x] = IF x \in Part THEN a ELSE v
  PROVE  SumFunctionOnSet(fun, S) = a * Cardinality(S \intersect Part) + v * Cardinality(S \ Part)
<1>. DEFINE In(T) == Cardinality(T \intersect Part)
            Out(T) == Cardinality(T \ Part)
            J == {T \in SUBSET S : SumFunctionOnSet(fun, T) = a * In(T) + v * Out(T)}
<1>1. ASSUME NEW T \in SUBSET S, \A x \in T : T \ {x} \in J  PROVE T \in J
  <2>1. IsFiniteSet(T) /\ IsFiniteSet(T \intersect Part) /\ IsFiniteSet(T \ Part)
    BY FS_Subset
  <2>2. In(T) \in Nat /\ Out(T) \in Nat
    BY <2>1, FS_CardinalityType
  <2>3. CASE T = {}
    <3>1. In(T) = 0 /\ Out(T) = 0
      BY <2>3, FS_EmptySet
    <3>2. SumFunctionOnSet(fun, T) = 0
      BY <2>1, <2>3, SumProperties
    <3>. QED  BY <3>1, <3>2
  <2>4. CASE T # {}
    <3>1. PICK x : x \in T
      BY <2>4
    <3>2. SumFunctionOnSet(fun, T) = fun[x] + SumFunctionOnSet(fun, T \ {x})
      BY <2>1, <3>1, SumProperties
    <3>3. SumFunctionOnSet(fun, T \ {x}) = a * In(T \ {x}) + v * Out(T \ {x})
      BY <1>1, <3>1
    <3>. HIDE DEF J
    <3>4. CASE x \in Part
      <4>1. (T \ {x}) \intersect Part = (T \intersect Part) \ {x} /\ (T \ {x}) \ Part = T \ Part
        BY <3>4
      <4>2. In(T \ {x}) = In(T) - 1 /\ Out(T \ {x}) = Out(T)
        BY <2>1, <3>1, <3>4, <4>1, FS_RemoveElement, ZenonT(30)
      <4>3. a + (a * (In(T) - 1)) = a * In(T)
        <5>. HIDE DEF In
        <5>. QED  BY <2>2
      <4>. HIDE DEF In, Out
      <4>4. a * (In(T) - 1) \in Int /\ v * Out(T) \in Int /\ a * In(T) \in Int
        BY <2>2
      <4>. QED  BY <3>1, <3>2, <3>3, <3>4, <4>2, <4>3, <4>4 DEF J
    <3>5. CASE x \notin Part
      <4>1. (T \ {x}) \intersect Part = T \intersect Part /\ (T \ {x}) \ Part = (T \ Part) \ {x}
        BY <3>5
      <4>2. In(T \ {x}) = In(T) /\ Out(T \ {x}) = Out(T) - 1
        BY <2>1, <3>1, <3>5, <4>1, FS_RemoveElement
      <4>3. v + (v * (Out(T) - 1)) = v * Out(T)
        <5>. HIDE DEF Out
        <5>. QED  BY <2>2
      <4>. HIDE DEF In, Out
      <4>4. v * (Out(T) - 1) \in Int /\ a * In(T) \in Int /\ v * Out(T) \in Int
        BY <2>2
      <4>. QED  BY <3>1, <3>2, <3>3, <3>5, <4>2, <4>3, <4>4 DEF J
    <3>. QED  BY <3>4, <3>5
  <2>. QED  BY <2>3, <2>4
<1>. HIDE DEF J
<1>2. \A T \in SUBSET S : T \in J
  BY <1>1, SubsetInduction
<1>. QED  BY <1>2 DEF J

(* No number of equal shares is more than what was divided. *)
LEMMA SharesFit ==
  ASSUME NEW total \in Nat, NEW n \in Nat \ {0}
  PROVE  total \div n \in Nat /\ (total \div n) * n <= total
<1>1. total \div n \in Nat /\ total % n \in Nat
  OBVIOUS
<1>2. total = n * (total \div n) + (total % n)
  OBVIOUS
<1>3. n * (total \div n) = (total \div n) * n
  BY <1>1
<1>. QED  BY <1>1, <1>2, <1>3

(* What the assumption on the constants says of the rates. *)
LEMMA RateConstants ==
  /\ MinRate \in Nat /\ StartRate \in Nat /\ MaxRate \in Nat
  /\ 16 <= MinRate /\ MinRate <= StartRate /\ StartRate <= MaxRate
  /\ PacingFactor \in Nat /\ PacingFactor >= 1000
  /\ Samples \subseteq Nat /\ Losses \subseteq 0..999
  /\ TimeSteps \subseteq Nat /\ Rtts \subseteq Nat
  /\ VideoTracks \intersect AudioTracks = {}
BY PartsAssumption DEF Rate!RateAssumption

(* The audio tracks get their budget from the target, also at its floor.    *)
LEMMA BudgetFits ==
  ASSUME NEW rate \in Nat, 16 <= rate, NEW count \in Nat \ {0}
  PROVE  Rate!AudioBudget(rate, count) \in Nat /\ Rate!AudioBudget(rate, count) <= rate
<1>1. rate \div 10 \in Nat /\ rate \div 10 <= rate
  OBVIOUS
<1>. QED  BY <1>1 DEF Rate!AudioBudget, Rate!Clamp, Rate!Smaller, Rate!Larger

(* The shares of a rate add up to no more than the rate, whatever tracks    *)
(* there are.                                                               *)
LEMMA SharesSum ==
  ASSUME NEW S \in SUBSET Rate!Tracks, NEW rate \in Nat, 16 <= rate
  PROVE  LET shares == [t \in S |-> Rate!Share(rate, t, S)]
         IN shares \in [S -> Nat] /\ SumFunction(shares) <= rate
<1>. DEFINE audio == Cardinality(S \intersect AudioTracks)
            videos == Cardinality(S \intersect VideoTracks)
            video == IF videos > 1 THEN videos ELSE 1
            budget == IF audio = 0 THEN 0 ELSE Rate!AudioBudget(rate, audio)
            a == IF audio = 0 THEN 0 ELSE budget \div audio
            v == (rate - budget) \div video
            shares == [t \in S |-> Rate!Share(rate, t, S)]
<1>1. /\ IsFiniteSet(S) /\ audio \in Nat /\ videos \in Nat
      /\ audio = 0 <=> S \intersect AudioTracks = {}
  BY TracksFinite
<1>2. S \ AudioTracks = S \intersect VideoTracks
  BY RateConstants DEF Rate!Tracks
<1>3. budget \in Nat /\ budget <= rate
  BY <1>1, BudgetFits
<1>4. a \in Nat /\ a * audio <= budget
  <2>. HIDE DEF audio, budget
  <2>1. CASE audio = 0  BY <1>3, <2>1
  <2>2. CASE audio # 0  BY <1>1, <1>3, <2>2, SharesFit
  <2>. QED  BY <2>1, <2>2
<1>5. v \in Nat /\ v * videos <= rate - budget
  <2>. HIDE DEF budget, videos
  <2>1. rate - budget \in Nat /\ video \in Nat \ {0}
    BY <1>1, <1>3
  <2>2. v \in Nat /\ v * video <= rate - budget
    BY <2>1, SharesFit
  <2>3. CASE videos = 0  BY <2>1, <2>2, <2>3
  <2>4. CASE videos # 0
    <3>1. video = videos
      BY <1>1, <2>4
    <3>. QED  BY <2>2, <3>1
  <2>. QED  BY <2>3, <2>4
<1>6. \A t \in S : shares[t] = IF t \in AudioTracks THEN a ELSE v
  <2>. SUFFICES ASSUME NEW t \in S
                PROVE  Rate!Share(rate, t, S) = IF t \in AudioTracks THEN a ELSE v
    OBVIOUS
  <2>1. Rate!Cardinality(S \intersect AudioTracks) = audio
        /\ Rate!Cardinality(S \intersect VideoTracks) = videos
    BY DEF Rate!Cardinality, Cardinality
  <2>2. t \in AudioTracks => audio # 0
    BY <1>1
  <2>. HIDE DEF audio, videos
  <2>3. Rate!Share(rate, t, S)
          = IF t \in AudioTracks THEN budget \div audio
            ELSE Rate!Larger(rate - budget, 0) \div video
    BY <2>1 DEF Rate!Share, Rate!Larger
  <2>4. Rate!Larger(rate - budget, 0) = rate - budget
    <3>. HIDE DEF budget
    <3>. QED  BY <1>3 DEF Rate!Larger
  <2>. QED  BY <2>2, <2>3, <2>4
<1>. HIDE DEF a, v
<1>7. shares \in [S -> Nat]
  BY <1>4, <1>5, <1>6
<1>8. DOMAIN shares = S
  OBVIOUS
<1>. HIDE DEF shares
<1>9. SumFunctionOnSet(shares, S)
        = a * Cardinality(S \intersect AudioTracks) + v * Cardinality(S \ AudioTracks)
  BY <1>1, <1>4, <1>5, <1>6, SumOfShares
<1>10. SumFunction(shares) = a * audio + v * videos
  BY <1>2, <1>8, <1>9 DEF SumFunction
<1>. HIDE DEF audio, videos, budget
<1>11. a * audio \in Int /\ v * videos \in Int
  BY <1>1, <1>4, <1>5
<1>12. SumFunction(shares) <= rate
  BY <1>3, <1>4, <1>5, <1>10, <1>11
<1>. QED  BY <1>7, <1>12 DEF shares

(* The pacer is not slower than the rate it is set from. *)
LEMMA PacedAbove ==
  ASSUME NEW rate \in Nat
  PROVE  Rate!Paced(rate) \in Nat /\ rate <= Rate!Paced(rate)
<1>1. rate * PacingFactor + 500 \in Nat
  BY RateConstants
<1>2. (rate * PacingFactor + 500) \div 1000 \in Nat
  BY <1>1
<1>. QED  BY <1>2 DEF Rate!Paced, Rate!Larger

(* The first target is paced and nobody was told a share. *)
LEMMA RateInit == Rate!Init => RateInv
<1>. SUFFICES ASSUME Rate!Init  PROVE RateInv
  OBVIOUS
<1>1. StartRate * 1000 <= StartRate * PacingFactor /\ StartRate * PacingFactor \in Nat
  BY RateConstants
<1>2. (StartRate * PacingFactor) \div 1000 \in Nat
      /\ StartRate <= (StartRate * PacingFactor) \div 1000
  BY <1>1, RateConstants
<1>3. pacing \in Nat /\ target <= pacing
  BY <1>2 DEF Rate!Init
<1>4. Rate!TypeOK /\ now \in Nat
  BY RateConstants DEF Rate!Init, Rate!TypeOK, Rate!Never, Rate!Trends
<1>5. rates \in [DOMAIN rates -> Nat] /\ DOMAIN rates = {}
  BY DEF Rate!Init
<1>6. SumFunction(rates) = 0
  BY <1>5, FS_EmptySet, SumProperties DEF SumFunction
<1>. QED  BY <1>3, <1>4, <1>5, <1>6, RateConstants DEF RateInv, Rate!Init

Thousandths == 0..1000

(* The loss after a report that has a share. *)
Mixed(old, share) == (9 * old + share) \div 10

(* The filter of the loss stays within what it is fed. *)
LEMMA LossMixed ==
  ASSUME NEW old \in Thousandths, NEW share \in Thousandths
  PROVE  Mixed(old, share) \in Thousandths
<1>1. old \in Int /\ 0 <= old /\ old <= 1000 /\ share \in Int /\ 0 <= share /\ share <= 1000
  BY DEF Thousandths
<1>2. (9 * old + share) \div 10 \in Int /\ 0 <= (9 * old + share) \div 10
  BY <1>1
<1>3. (9 * old + share) \div 10 <= 1000
  BY <1>1
<1>. QED  BY <1>2, <1>3 DEF Mixed, Thousandths

(* A report leaves the target between its limits, tells the tracks shares   *)
(* of it when it moves and paces the new one.                               *)
LEMMA ReportKeeps ==
  ASSUME RateInv, Rate!OnReport
  PROVE  RateInv'
<1>. DEFINE Aimd(r) == Rate!AimdTarget(r.trend, Rate!AckedAfter(r))
            Cut(r, rtt) == Rate!LossCuts(Rate!LossAfter(r), rtt)
            New(r, rtt) == Rate!Bounded(IF Cut(r, rtt)
                                        THEN Rate!AfterLoss(Aimd(r), Rate!LossAfter(r))
                                        ELSE Aimd(r))
<1>1. PICK r \in Rate!Reports, rtt \in Rtts :
        /\ ackedRate' = Rate!AckedAfter(r) /\ loss' = Rate!LossAfter(r) /\ network' = r.trend
        /\ lastIncrease' = IF network' = "Normal" /\ Rate!MayIncrease THEN now ELSE lastIncrease
        /\ lastDecrease' = IF Cut(r, rtt) THEN now ELSE lastDecrease
        /\ target' = New(r, rtt)
        /\ pacing' = IF Rate!Moves(New(r, rtt)) THEN Rate!Paced(New(r, rtt)) ELSE pacing
        /\ rates' = IF Rate!Moves(New(r, rtt))
                    THEN [t \in DOMAIN rates |-> Rate!Share(New(r, rtt), t, DOMAIN rates)]
                    ELSE rates
        /\ lastProbe' = lastProbe /\ now' = now
  BY DEF Rate!OnReport
<1>2. /\ target \in MinRate..MaxRate /\ ackedRate \in Nat /\ loss \in 0..1000
      /\ network \in Rate!Trends /\ DOMAIN rates \subseteq Rate!Tracks
      /\ lastIncrease \in -1..now /\ lastDecrease \in -1..now /\ lastProbe \in -1..now
      /\ now \in Nat /\ pacing \in Nat
  BY DEF RateInv, Rate!TypeOK
<1>3. /\ r.share \in 0..1000 \/ r.share = -1
      /\ r.sample \in Nat /\ r.trend \in Rate!Trends
  <2>1. CASE r \in [share : Losses, sample : Samples, trend : Rate!Trends]
    <3>1. r.share \in Losses /\ r.sample \in Samples /\ r.trend \in Rate!Trends
      BY <2>1
    <3>2. Losses \subseteq 0..999 /\ Samples \subseteq Nat
      BY RateConstants
    <3>3. r.share \in 0..999 /\ r.sample \in Nat
      BY <3>1, <3>2, ZenonT(30)
    <3>. QED  BY <3>1, <3>3
  <2>2. CASE r \in [share : {1000, Rate!Never}, sample : {0}, trend : {network}]
    <3>1. r.share \in {1000, -1} /\ r.sample = 0 /\ r.trend = network
      BY <2>2 DEF Rate!Never
    <3>. QED  BY <1>2, <3>1
  <2>. QED  BY <2>1, <2>2 DEF Rate!Reports
<1>4. Rate!AckedAfter(r) \in Nat
  BY <1>2, <1>3 DEF Rate!AckedAfter
<1>5. Rate!LossAfter(r) \in 0..1000
  <2>1. CASE r.share = -1
    BY <1>2, <2>1 DEF Rate!LossAfter, Rate!Never
  <2>2. CASE r.share \in 0..1000
    <3>1. loss \in Thousandths /\ r.share \in Thousandths
      BY <1>2, <2>2 DEF Thousandths
    <3>2. Mixed(loss, r.share) \in Thousandths
      BY <3>1, LossMixed
    <3>3. r.share # Rate!Never
      BY <2>2 DEF Rate!Never
    <3>. QED  BY <3>2, <3>3 DEF Thousandths, Rate!LossAfter, Mixed
  <2>. QED  BY <1>3, <2>1, <2>2
<1>6. Aimd(r) \in Int
  <2>1. Rate!Since(lastIncrease, 1000) \in Int
    BY <1>2 DEF Rate!Since, Rate!Never
  <2>2. Rate!Increased(target, Rate!AckedAfter(r), Rate!Since(lastIncrease, 1000)) \in Int
    <3>1. \A x \in Int : Rate!Clamp(x, 0, 1000) \in Int
      BY DEF Rate!Clamp, Rate!Smaller, Rate!Larger
    <3>2. Rate!Grown(target, Rate!Since(lastIncrease, 1000)) \in Int
      BY <1>2, <2>1, <3>1, RateConstants DEF Rate!Grown, Rate!Larger
    <3>. QED  BY <1>4, <3>2, RateConstants
              DEF Rate!Increased, Rate!Bounded, Rate!Clamp, Rate!Smaller, Rate!Larger
  <2>3. Rate!Decreased(target, Rate!AckedAfter(r)) \in Int
    BY <1>2, <1>4, RateConstants
       DEF Rate!Decreased, Rate!Bounded, Rate!Clamp, Rate!Smaller, Rate!Larger
  <2>. QED  BY <1>2, <1>3, <2>2, <2>3, RateConstants DEF Rate!AimdTarget
<1>7. New(r, rtt) \in MinRate..MaxRate
  <2>1. Rate!AfterLoss(Aimd(r), Rate!LossAfter(r)) \in Int
    <3>. HIDE DEF Aimd
    <3>. QED  BY <1>5, <1>6 DEF Rate!AfterLoss, Rate!Larger
  <2>. HIDE DEF Aimd, Cut
  <2>. QED  BY <1>6, <2>1, RateConstants
            DEF Rate!Bounded, Rate!Clamp, Rate!Smaller, Rate!Larger
<1>. HIDE DEF New, Cut
<1>8. target' \in Nat /\ 16 <= target'
  BY <1>1, <1>7, RateConstants
<1>9. Rate!TypeOK'
  <2>1. DOMAIN rates' = DOMAIN rates
    BY <1>1
  <2>. QED  BY <1>1, <1>2, <1>3, <1>4, <1>5, <1>7, <2>1 DEF Rate!TypeOK
<1>10. rates' \in [DOMAIN rates' -> Nat] /\ SumFunction(rates)' <= target'
  <2>1. CASE Rate!Moves(New(r, rtt))
    <3>1. rates' = [t \in DOMAIN rates |-> Rate!Share(target', t, DOMAIN rates)]
      BY <1>1, <2>1
    <3>2. rates' \in [DOMAIN rates -> Nat] /\ SumFunction(rates') <= target'
      BY <1>2, <1>8, <3>1, SharesSum
    <3>. QED  BY <3>2
  <2>2. CASE ~Rate!Moves(New(r, rtt))
    BY <1>1, <2>2 DEF RateInv, Rate!Moves
  <2>. QED  BY <2>1, <2>2
<1>11. pacing' \in Nat /\ target' <= pacing'
  BY <1>1, <1>2, <1>7, <1>8, PacedAbove DEF RateInv, Rate!Moves
<1>. QED  BY <1>1, <1>2, <1>9, <1>10, <1>11 DEF RateInv

(* Probes only raise the pacer, and a new track counts for nothing until it *)
(* is told a share.                                                         *)
LEMMA RateRestKeeps ==
  ASSUME RateInv,
         Rate!ConsiderProbe \/ Rate!AddTrack \/ Rate!RemoveTrack \/ Rate!Pass
  PROVE  RateInv'
<1>1. /\ target \in MinRate..MaxRate /\ DOMAIN rates \subseteq Rate!Tracks
      /\ rates \in [DOMAIN rates -> Nat] /\ now \in Nat /\ pacing \in Nat
      /\ SumFunction(rates) <= target /\ target <= pacing /\ Rate!TypeOK
  BY DEF RateInv, Rate!TypeOK
<1>2. IsFiniteSet(DOMAIN rates)
  BY <1>1, TracksFinite
<1>3. SumFunctionOnSet(rates, DOMAIN rates) <= target
  BY <1>1 DEF SumFunction
<1>4. CASE Rate!ConsiderProbe
  <2>1. PICK idle \in BOOLEAN : pacing' = Rate!ProbePacing(idle)
    BY <1>4 DEF Rate!ConsiderProbe
  <2>2. pacing' \in Nat /\ pacing <= pacing'
    BY <1>1, <2>1, RateConstants DEF Rate!ProbePacing, Rate!Larger
  <2>. QED  BY <1>1, <1>4, <2>2, RateConstants
            DEF RateInv, Rate!TypeOK, Rate!ConsiderProbe, Rate!estimator
<1>5. CASE Rate!AddTrack
  <2>1. PICK t \in Rate!Tracks \ DOMAIN rates :
          rates' = [u \in DOMAIN rates \union {t} |-> IF u = t THEN 0 ELSE rates[u]]
    BY <1>5 DEF Rate!AddTrack
  <2>. DEFINE more == DOMAIN rates \union {t}
  <2>2. /\ DOMAIN rates' = more /\ rates' \in [more -> Nat] /\ more \subseteq Rate!Tracks
        /\ rates'[t] = 0 /\ \A u \in DOMAIN rates : rates'[u] = rates[u]
    BY <1>1, <2>1
  <2>3. IsFiniteSet(more) /\ more \ {t} = DOMAIN rates /\ t \in more
    BY <2>2, TracksFinite
  <2>4. SumFunctionOnSet(rates', more) = 0 + SumFunctionOnSet(rates', DOMAIN rates)
    BY <2>2, <2>3, SumProperties
  <2>5. SumFunctionOnSet(rates', DOMAIN rates) = SumFunctionOnSet(rates, DOMAIN rates)
        /\ SumFunctionOnSet(rates, DOMAIN rates) \in Nat
    BY <1>1, <1>2, <2>2, SumProperties
  <2>6. SumFunction(rates)' <= target
    BY <1>3, <2>2, <2>4, <2>5 DEF SumFunction
  <2>. QED  BY <1>1, <1>5, <2>2, <2>6 DEF RateInv, Rate!TypeOK, Rate!AddTrack, Rate!estimator
<1>6. CASE Rate!RemoveTrack
  <2>1. PICK t \in DOMAIN rates : rates' = Rate!Restrict(rates, DOMAIN rates \ {t})
    BY <1>6 DEF Rate!RemoveTrack
  <2>. DEFINE less == DOMAIN rates \ {t}
  <2>2. /\ DOMAIN rates' = less /\ rates' \in [less -> Nat] /\ less \subseteq Rate!Tracks
        /\ \A u \in less : rates'[u] = rates[u]
    BY <1>1, <2>1 DEF Rate!Restrict
  <2>3. SumFunctionOnSet(rates, DOMAIN rates) = rates[t] + SumFunctionOnSet(rates, less)
    BY <1>1, <1>2, SumProperties
  <2>4. IsFiniteSet(less) /\ rates[t] \in Nat
    BY <1>1, <2>2, TracksFinite
  <2>5. SumFunctionOnSet(rates', less) = SumFunctionOnSet(rates, less)
        /\ SumFunctionOnSet(rates, less) \in Nat
    BY <1>1, <2>2, <2>4, SumProperties
  <2>6. SumFunction(rates)' <= target
    BY <1>1, <1>3, <2>2, <2>3, <2>4, <2>5, RateConstants DEF SumFunction
  <2>. QED  BY <1>1, <1>6, <2>2, <2>6
            DEF RateInv, Rate!TypeOK, Rate!RemoveTrack, Rate!estimator
<1>7. CASE Rate!Pass
  <2>1. now' \in Nat /\ now <= now'
    BY <1>1, <1>7, RateConstants DEF Rate!Pass
  <2>. QED  BY <1>1, <1>7, <2>1 DEF RateInv, Rate!TypeOK, Rate!Pass, Rate!estimator
<1>. QED  BY <1>4, <1>5, <1>6, <1>7

(* The invariant of the rates. *)
LEMMA RateInvHolds == Rate!Spec => []RateInv
<1>1. RateInv /\ UNCHANGED Rate!vars => RateInv'
  BY DEF RateInv, Rate!vars, Rate!estimator, Rate!TypeOK
<1>2. RateInv /\ [Rate!Next]_Rate!vars => RateInv'
  BY <1>1, ReportKeeps, RateRestKeeps DEF Rate!Next
<1>. QED  BY <1>2, RateInit, PTL DEF Rate!Spec

(* What the encoders were told fits in the target, and the target in the    *)
(* pacer.                                                                   *)
LEMMA RatesInOrder == RateInv => Rate!RatesOrdered
BY SameSum DEF RateInv, Rate!RatesOrdered

---------------------------------------------------------------------------
(* The limiter of retransmissions *)

(* The target did not move in this tick nor in the k before it.             *)
Quiet(k) == \A j \in 0..k : ~moved[j]

(* While the target rests, what was let through since the window began is   *)
(* in used, and what was let through before it is one budget at most.       *)
SpentIn(k) ==
  /\ limiter.age = Retrans!Unset => spent[k] = 0
  /\ k < limiter.age => spent[k] <= limiter.used
  /\ spent[k] <= limiter.used + limiter.budget

RetransInv ==
  /\ Retrans!TypeOK
  /\ \A k \in Retrans!Ticks : Quiet(k) => SpentIn(k)

(* A limiter for a target is a limiter that let nothing through. *)
LEMMA FromTargetFresh ==
  ASSUME NEW t \in Targets
  PROVE  /\ Retrans!FromTarget(t) \in Retrans!Limiter
         /\ Retrans!FromTarget(t).used = 0
         /\ Retrans!FromTarget(t).age = Retrans!Unset
<1>1. t \in Nat /\ WindowLength \in Nat /\ Scale \in Nat \ {0}
  BY PartsAssumption DEF Retrans!BudgetAssumption
<1>2. t * WindowLength \in Nat
  BY <1>1
<1>3. (t * WindowLength) \div Scale \in Nat
  BY <1>1, <1>2
<1>. QED  BY <1>3 DEF Retrans!FromTarget, Retrans!BytesFor, Retrans!Limiter, Retrans!Unset

(* The window starts with nothing let through, and one more tick keeps the  *)
(* order of what the ticks carried.                                         *)
LEMMA RetransInit == Retrans!Init => RetransInv
<1>. SUFFICES ASSUME Retrans!Init  PROVE RetransInv
  OBVIOUS
<1>1. PICK t \in Targets : limiter = Retrans!FromTarget(t)
  BY DEF Retrans!Init
<1>2. limiter \in Retrans!Limiter /\ limiter.used = 0 /\ limiter.age = Retrans!Unset
  BY <1>1, FromTargetFresh
<1>3. Retrans!TypeOK
  BY <1>2 DEF Retrans!Init, Retrans!TypeOK, Retrans!Limiter
<1>4. ASSUME NEW k \in Retrans!Ticks  PROVE SpentIn(k)
  <2>1. spent[k] = 0 /\ k \in Nat /\ limiter.budget \in Nat
    BY <1>2 DEF Retrans!Init, Retrans!Ticks, Retrans!Limiter
  <2>. QED  BY <1>2, <2>1 DEF SpentIn, Retrans!Unset
<1>. QED  BY <1>3, <1>4 DEF RetransInv

(* A retransmission that fits is in used, and one that starts a window      *)
(* leaves what the last one used behind, one budget at most.                *)
LEMMA RetransmitKeeps ==
  ASSUME RetransInv, Retrans!Retransmit
  PROVE  RetransInv'
<1>. DEFINE rolls == limiter.age = Retrans!Unset \/ limiter.age >= WindowLength
<1>1. PICK size \in Sizes :
        /\ limiter' = Retrans!Consume(limiter, size)
        /\ spent' = IF Retrans!Fits(limiter, size)
                    THEN [k \in Retrans!Ticks |-> spent[k] + size] ELSE spent
        /\ moved' = moved
  BY DEF Retrans!Retransmit
<1>2. size \in Nat /\ WindowLength \in Nat \ {0}
  BY PartsAssumption DEF Retrans!BudgetAssumption
<1>3. /\ limiter \in [budget : Nat, used : Nat, age : (0..WindowLength) \union {-1}]
      /\ limiter.used <= limiter.budget
      /\ spent \in [Retrans!Ticks -> Nat] /\ moved \in [Retrans!Ticks -> BOOLEAN]
  BY DEF RetransInv, Retrans!TypeOK, Retrans!Limiter, Retrans!Unset
<1>4. /\ limiter'.budget = limiter.budget
      /\ limiter'.age = IF rolls THEN 0 ELSE limiter.age
      /\ limiter'.used = (IF rolls THEN 0 ELSE limiter.used)
                           + (IF Retrans!Fits(limiter, size) THEN size ELSE 0)
      /\ limiter' \in [budget : Nat, used : Nat, age : (0..WindowLength) \union {-1}]
      /\ Retrans!Fits(limiter, size) <=>
           (IF rolls THEN 0 ELSE limiter.used) + size <= limiter.budget
  BY <1>1, <1>2, <1>3 DEF Retrans!Consume, Retrans!Fits, Retrans!Roll, Retrans!Unset
<1>5. Retrans!TypeOK'
  BY <1>1, <1>2, <1>3, <1>4 DEF Retrans!TypeOK, Retrans!Limiter, Retrans!Unset
<1>6. ASSUME NEW k \in Retrans!Ticks, Quiet(k)  PROVE SpentIn(k)'
  <2>1. SpentIn(k) /\ spent[k] \in Nat /\ k \in 0..(WindowLength - 1)
    BY <1>3, <1>6 DEF RetransInv, Retrans!Ticks
  <2>2. spent'[k] = spent[k] + (IF Retrans!Fits(limiter, size) THEN size ELSE 0)
    BY <1>1, <1>2, <2>1
  <2>3. CASE rolls
    BY <1>2, <1>3, <1>4, <2>1, <2>2, <2>3 DEF SpentIn, Retrans!Unset
  <2>4. CASE ~rolls
    BY <1>2, <1>3, <1>4, <2>1, <2>2, <2>4 DEF SpentIn, Retrans!Unset
  <2>. QED  BY <2>3, <2>4
<1>7. \A k \in Retrans!Ticks : Quiet(k)' <=> Quiet(k)
  BY <1>1 DEF Quiet
<1>. QED  BY <1>5, <1>6, <1>7 DEF RetransInv

(* A new target ends what was quiet. *)
LEMMA RetargetKeeps ==
  ASSUME RetransInv, Retrans!Retarget
  PROVE  RetransInv'
<1>1. PICK t \in Targets : /\ limiter' = Retrans!FromTarget(t)
                           /\ moved' = [moved EXCEPT ![0] = TRUE]
                           /\ spent' = spent
  BY DEF Retrans!Retarget
<1>2. limiter' \in Retrans!Limiter /\ limiter'.used = 0
  BY <1>1, FromTargetFresh
<1>3. 0 \in Retrans!Ticks
  BY PartsAssumption DEF Retrans!BudgetAssumption, Retrans!Ticks
<1>4. Retrans!TypeOK'
  <2>1. limiter'.budget \in Nat /\ 0 <= limiter'.budget
    BY <1>2 DEF Retrans!Limiter
  <2>2. spent' \in [Retrans!Ticks -> Nat] /\ moved' \in [Retrans!Ticks -> BOOLEAN]
    BY <1>1 DEF RetransInv, Retrans!TypeOK
  <2>. QED  BY <1>2, <2>1, <2>2 DEF Retrans!TypeOK
<1>5. moved'[0]
  BY <1>1, <1>3 DEF RetransInv, Retrans!TypeOK
<1>6. ASSUME NEW k \in Retrans!Ticks  PROVE ~Quiet(k)'
  BY <1>5 DEF Quiet, Retrans!Ticks
<1>. QED  BY <1>4, <1>6 DEF RetransInv

(* A tick later the same bytes are one tick older, and so is the window.    *)
LEMMA RetransPassKeeps ==
  ASSUME RetransInv, Retrans!Pass
  PROVE  RetransInv'
<1>1. WindowLength \in Nat \ {0}
  BY PartsAssumption DEF Retrans!BudgetAssumption
<1>2. /\ limiter \in [budget : Nat, used : Nat, age : (0..WindowLength) \union {-1}]
      /\ limiter.used <= limiter.budget
      /\ spent \in [Retrans!Ticks -> Nat] /\ moved \in [Retrans!Ticks -> BOOLEAN]
  BY DEF RetransInv, Retrans!TypeOK, Retrans!Limiter, Retrans!Unset
<1>3. /\ limiter'.budget = limiter.budget /\ limiter'.used = limiter.used
      /\ limiter' \in [budget : Nat, used : Nat, age : (0..WindowLength) \union {-1}]
      /\ limiter'.age = IF limiter.age = -1 \/ limiter.age >= WindowLength
                        THEN limiter.age ELSE limiter.age + 1
  BY <1>1, <1>2 DEF Retrans!Pass, Retrans!Older, Retrans!Unset
<1>4. /\ \A k \in Retrans!Ticks : /\ spent'[k] = IF k = 0 THEN 0 ELSE spent[k - 1]
                                  /\ moved'[k] = IF k = 0 THEN FALSE ELSE moved[k - 1]
                                  /\ k # 0 => k - 1 \in Retrans!Ticks
      /\ spent' \in [Retrans!Ticks -> Nat] /\ moved' \in [Retrans!Ticks -> BOOLEAN]
  <2>1. \A k \in Retrans!Ticks : k # 0 => k - 1 \in Retrans!Ticks
    BY <1>1 DEF Retrans!Ticks
  <2>. QED  BY <1>2, <2>1 DEF Retrans!Pass
<1>5. Retrans!TypeOK'
  BY <1>2, <1>3, <1>4 DEF Retrans!TypeOK, Retrans!Limiter, Retrans!Unset
<1>6. ASSUME NEW k \in Retrans!Ticks, Quiet(k)'  PROVE SpentIn(k)'
  <2>1. CASE k = 0
    <3>1. spent'[k] = 0 /\ k \in Nat /\ limiter.used \in Nat /\ limiter.budget \in Nat
      BY <1>2, <1>4, <2>1
    <3>. QED  BY <1>3, <3>1 DEF SpentIn
  <2>2. CASE k # 0
    <3>1. Quiet(k - 1)
      <4>. SUFFICES ASSUME NEW j \in 0..(k - 1)  PROVE ~moved[j]
        BY DEF Quiet
      <4>1. j + 1 \in Retrans!Ticks /\ j + 1 \in 0..k /\ (j + 1) - 1 = j /\ j + 1 # 0
        BY <1>1 DEF Retrans!Ticks
      <4>2. ~moved'[j + 1]
        BY <1>6, <4>1 DEF Quiet
      <4>. QED  BY <1>4, <4>1, <4>2
    <3>2. SpentIn(k - 1) /\ spent[k - 1] \in Nat /\ spent'[k] = spent[k - 1] /\ k \in Nat
      <4>1. k - 1 \in Retrans!Ticks /\ spent'[k] = spent[k - 1]
        BY <1>4, <2>2
      <4>2. k \in Nat
        BY DEF Retrans!Ticks
      <4>. QED  BY <1>2, <3>1, <4>1, <4>2 DEF RetransInv
    <3>. QED  BY <1>1, <1>2, <1>3, <2>2, <3>2 DEF SpentIn, Retrans!Unset
  <2>. QED  BY <2>1, <2>2
<1>. QED  BY <1>5, <1>6 DEF RetransInv

(* The invariant of the limiter holds whatever the other parts do.          *)
LEMMA RetransInvHolds == Retrans!Spec => []RetransInv
<1>1. RetransInv /\ UNCHANGED Retrans!vars => RetransInv'
  BY DEF RetransInv, Retrans!vars, Retrans!TypeOK, Quiet, SpentIn
<1>2. RetransInv /\ [Retrans!Next]_Retrans!vars => RetransInv'
  BY <1>1, RetransmitKeeps, RetargetKeeps, RetransPassKeeps DEF Retrans!Next
<1>. QED  BY <1>2, RetransInit, PTL DEF Retrans!Spec

(* While the target rests, no window length carries more than two budgets.  *)
LEMMA TwoBudgets == RetransInv => Retrans!AtMostTwoBudgets
<1>. SUFFICES ASSUME RetransInv, Retrans!Steady
              PROVE  Retrans!SpentInWindow <= 2 * limiter.budget
  BY DEF Retrans!AtMostTwoBudgets
<1>1. WindowLength \in Nat \ {0}
  BY PartsAssumption DEF Retrans!BudgetAssumption
<1>2. /\ limiter \in [budget : Nat, used : Nat, age : (0..WindowLength) \union {-1}]
      /\ limiter.used <= limiter.budget
      /\ spent \in [Retrans!Ticks -> Nat]
  BY DEF RetransInv, Retrans!TypeOK, Retrans!Limiter, Retrans!Unset
<1>3. WindowLength - 1 \in Retrans!Ticks
  BY <1>1 DEF Retrans!Ticks
<1>4. Quiet(WindowLength - 1)
  BY <1>1 DEF Quiet, Retrans!Steady, Retrans!Ticks
<1>5. SpentIn(WindowLength - 1) /\ spent[WindowLength - 1] \in Nat
  BY <1>2, <1>3, <1>4 DEF RetransInv
<1>. QED  BY <1>2, <1>5 DEF SpentIn, Retrans!SpentInWindow

---------------------------------------------------------------------------
(* The parts together *)

(* A step of one part changes no variable of another, so each part follows  *)
(* its own specification.                                                   *)
LEMMA PartsFollow == Spec => Feedback!Spec /\ Rate!Spec /\ Retrans!Spec
<1>1. Init => Feedback!Init /\ Rate!Init /\ Retrans!Init
  BY DEF Init
<1>2. [Next]_vars => [Feedback!Next]_Feedback!vars
  BY DEF Next, vars, OnlyFeedback, OnlyRate, OnlyRetrans, feedbackVars, Feedback!Next,
         Feedback!vars, Feedback!sendVars, Feedback!recvVars
<1>3. [Next]_vars => [Rate!Next]_Rate!vars
  BY DEF Next, vars, OnlyFeedback, OnlyRate, OnlyRetrans, rateVars, Rate!Next,
         Rate!vars, Rate!estimator
<1>4. [Next]_vars => [Retrans!Next]_Retrans!vars
  BY DEF Next, vars, OnlyFeedback, OnlyRate, OnlyRetrans, retransVars, Retrans!Next, Retrans!vars
<1>. QED  BY <1>1, <1>2, <1>3, <1>4, PTL DEF Spec, Feedback!Spec, Rate!Spec, Retrans!Spec

(* Each part keeps its state typed: what is acknowledged is on record, the  *)
(* target keeps to its limits, and what is used of a budget is within it.   *)
THEOREM PathTyped == Spec => []PathTypeOK
<1>1. FeedbackInv /\ RateInv /\ RetransInv => PathTypeOK
  BY DEF PathTypeOK, FeedbackInv, RateInv, RetransInv
<1>. QED  BY <1>1, PartsFollow, FeedbackInvHolds, RateInvHolds, RetransInvHolds, PTL

(* No arrival is forgotten while it is worth reporting, whatever is lost,   *)
(* overtaken or repeated, and however the sequences wrap.                   *)
THEOREM ArrivalsCorrect == Spec => []ArrivalAccounted
<1>1. FeedbackInv => ArrivalAccounted
  BY DEF FeedbackInv, ArrivalAccounted
<1>. QED  BY <1>1, PartsFollow, FeedbackInvHolds, PTL

(* No round trip is shorter than the way of the datagram it is taken from.  *)
THEOREM RoundTripCorrect == Spec => []RoundTripReal
<1>1. FeedbackInv => RoundTripReal
  BY DEF FeedbackInv, RoundTripReal
<1>. QED  BY <1>1, PartsFollow, FeedbackInvHolds, PTL

(* The encoders are together never told more than the target, and the pacer *)
(* is never slower, whatever reports say and whatever tracks come and go.   *)
THEOREM RatesCorrect == Spec => []RatesOrdered
<1>1. RateInv => RatesOrdered
  BY RatesInOrder DEF RatesOrdered
<1>. QED  BY <1>1, PartsFollow, RateInvHolds, PTL

(* While the target rests, the retransmissions of any window length stay    *)
(* within two budgets, for every window and every order of requests.        *)
THEOREM RetransmissionsCorrect == Spec => []AtMostTwoBudgets
<1>1. RetransInv => AtMostTwoBudgets
  BY TwoBudgets DEF AtMostTwoBudgets
<1>. QED  BY <1>1, PartsFollow, RetransInvHolds, PTL
==============================================================================
