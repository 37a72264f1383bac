---------------------------- MODULE SendPathProofs ----------------------------
(***************************************************************************)
(* The safety of the send path for every size of its history, its budgets  *)
(* and its bounds.  The queue and the history are kept in step by a        *)
(* promise on either side: a waiting packet whose number is stored is the  *)
(* copy its entry is marked for and expires with it, and an entry that is  *)
(* marked and not expired has a packet waiting (QueueAgrees).  Every       *)
(* enqueue adds packets none of which waits already (Joins), and every pop *)
(* drops from the front of the buckets (PopPlaces).                        *)
(***************************************************************************)
EXTENDS SendPath, Induction, SequenceTheorems

---------------------------------------------------------------------------
(* Sequences and their places *)

(* The greatest of a bounded set of numbers is one of them. *)
LEMMA GreatestOf ==
  ASSUME NEW n \in Nat, NEW T \in SUBSET (0..n), T # {}
  PROVE  Greatest(T) \in T /\ \A k \in T : k <= Greatest(T)
<1>1. T \in SUBSET Nat /\ \A k \in T : k <= n
  OBVIOUS
<1>2. \E m \in T : \A k \in T : k <= m
  BY <1>1, GreatestNumber
<1>. QED  BY <1>2 DEF Greatest

(* The least of a set of numbers is one of them. *)
LEMMA LeastOf ==
  ASSUME NEW T \in SUBSET Nat, T # {}
  PROVE  Least(T) \in T /\ \A k \in T : Least(T) <= k
<1>1. \E m \in T : \A k \in T : m <= k
  BY LeastNumber
<1>. QED  BY <1>1 DEF Least

(* r holds what s has at the places T, in their order. *)
Lists(r, s, T, at) ==
  /\ at \in [1..Len(r) -> T]
  /\ \A i \in 1..Len(r) : r[i] = s[at[i]] /\ i <= at[i]
  /\ \A i, j \in 1..Len(r) : i < j => at[i] < at[j]
  /\ \A k \in T : \E i \in 1..Len(r) : at[i] = k

IsListed(r, s, T) == \E at : Lists(r, s, T, at)

(* One place behind all others adds one element at the end. *)
LEMMA ListsOneMore ==
  ASSUME NEW S, NEW s \in Seq(S), NEW T \in SUBSET (1..Len(s)), NEW m \in T,
         \A k \in T : k <= m, NEW r \in Seq(S), IsListed(r, s, T \ {m})
  PROVE  Append(r, s[m]) \in Seq(S) /\ IsListed(Append(r, s[m]), s, T)
<1>1. PICK at : Lists(r, s, T \ {m}, at)
  BY DEF IsListed
<1>. DEFINE q == Append(r, s[m])
            to == [i \in 1..(Len(r) + 1) |-> IF i <= Len(r) THEN at[i] ELSE m]
<1>2. Len(s) \in Nat /\ m \in Nat /\ 1 <= m /\ s[m] \in S /\ Len(r) \in Nat
  OBVIOUS
<1>3. /\ q \in Seq(S) /\ Len(q) = Len(r) + 1
      /\ \A i \in 1..Len(r) : q[i] = r[i]
      /\ q[Len(r) + 1] = s[m]
  BY <1>2, AppendProperties
<1>4. \A i \in 1..Len(r) : /\ at[i] \in T /\ at[i] \in Nat /\ at[i] < m
                           /\ r[i] = s[at[i]] /\ i <= at[i]
  <2>. SUFFICES ASSUME NEW i \in 1..Len(r)
                PROVE  /\ at[i] \in T /\ at[i] \in Nat /\ at[i] < m
                       /\ r[i] = s[at[i]] /\ i <= at[i]
    OBVIOUS
  <2>1. at[i] \in T /\ at[i] # m /\ r[i] = s[at[i]] /\ i <= at[i]
    BY <1>1 DEF Lists
  <2>2. \A k \in T : k \in Nat
    BY <1>2
  <2>3. at[i] \in Nat /\ at[i] <= m
    <3>. HIDE DEF to, q
    <3>. QED  BY <2>1, <2>2
  <2>. QED  BY <1>2, <2>1, <2>3
<1>5. to \in [1..Len(q) -> T]
  BY <1>2, <1>3, <1>4
<1>6. \A i \in 1..Len(q) : q[i] = s[to[i]] /\ i <= to[i]
  <2>. SUFFICES ASSUME NEW i \in 1..Len(q)  PROVE q[i] = s[to[i]] /\ i <= to[i]
    OBVIOUS
  <2>1. CASE i <= Len(r)
    BY <1>2, <1>3, <1>4, <2>1
  <2>2. CASE i = Len(r) + 1
    <3>1. i <= m
      <4>1. CASE Len(r) = 0  BY <1>2, <2>2, <4>1
      <4>2. CASE Len(r) # 0
        <5>1. Len(r) \in 1..Len(r)
          BY <1>2, <4>2
        <5>. QED  BY <1>2, <1>4, <2>2, <5>1
      <4>. QED  BY <4>1, <4>2
    <3>. QED  BY <1>2, <1>3, <2>2, <3>1
  <2>. QED  BY <1>2, <1>3, <2>1, <2>2
<1>7. \A i, j \in 1..Len(q) : i < j => to[i] < to[j]
  BY <1>1, <1>2, <1>3, <1>4 DEF Lists
<1>8. \A k \in T : \E i \in 1..Len(q) : to[i] = k
  <2>. SUFFICES ASSUME NEW k \in T  PROVE \E i \in 1..Len(q) : to[i] = k
    OBVIOUS
  <2>1. CASE k = m  BY <1>2, <1>3, <2>1
  <2>2. CASE k # m
    <3>1. PICK i \in 1..Len(r) : at[i] = k
      BY <1>1, <2>2 DEF Lists
    <3>. QED  BY <1>2, <1>3, <3>1
  <2>. QED  BY <2>1, <2>2
<1>. HIDE DEF q, to
<1>9. Lists(q, s, T, to)
  BY <1>5, <1>6, <1>7, <1>8 DEF Lists
<1>10. q \in Seq(S) /\ IsListed(q, s, T)
  BY <1>3, <1>9 DEF IsListed
<1>. QED  BY <1>10 DEF q

(* What is picked from a sequence is what it has at the places, in order.   *)
LEMMA PickedProperties ==
  ASSUME NEW S, NEW s \in Seq(S), NEW places \in SUBSET (1..Len(s))
  PROVE  Picked(s, places) \in Seq(S) /\ IsListed(Picked(s, places), s, places)
<1>. DEFINE choice == [T \in SUBSET places |-> Greatest(T)]
            H == [p \in places \X Seq(S) |-> Append(p[2], s[p[1]])]
            Eq(f) == f = [ks \in SUBSET places |->
                            IF ks = {} THEN <<>>
                            ELSE Append(f[ks \ {Greatest(ks)}], s[Greatest(ks)])]
            picked == CHOOSE f : Eq(f)
<1>1. Picked(s, places) = picked[places]
  BY DEF Picked
<1>2. Len(s) \in Nat /\ IsFiniteSet(places)
  <2>1. Len(s) \in Nat
    BY LenProperties
  <2>2. IsFiniteSet(1..Len(s))
    BY <2>1, FS_Interval
  <2>. QED  BY <2>1, <2>2, FS_Subset
<1>3. \A T \in SUBSET places : T # {} => Greatest(T) \in T /\ \A k \in T : k <= Greatest(T)
  <2>. SUFFICES ASSUME NEW T \in SUBSET places, T # {}
                PROVE  Greatest(T) \in T /\ \A k \in T : k <= Greatest(T)
    OBVIOUS
  <2>1. T \in SUBSET (0..Len(s))
    BY <1>2
  <2>. QED  BY <1>2, <2>1, GreatestOf
<1>4. H \in [places \X Seq(S) -> Seq(S)]
  <2>1. \A k \in places, q \in Seq(S) : Append(q, s[k]) \in Seq(S)
    BY <1>2
  <2>. QED  BY <2>1
<1>5. PICK f \in [SUBSET places -> Seq(S)] : Recursive(f, places, <<>>, choice, H)
  <2>1. \A T \in SUBSET places : T # {} => choice[T] \in T
    BY <1>3
  <2>2. <<>> \in Seq(S)
    OBVIOUS
  <2>. HIDE DEF choice, H
  <2>. QED  BY <1>2, <1>4, <2>1, <2>2, RecursionOnSubsets
<1>6. ASSUME NEW T \in SUBSET places, T # {}
      PROVE  f[T] = Append(f[T \ {Greatest(T)}], s[Greatest(T)])
  <2>1. <<choice[T], f[T \ {choice[T]}]>> \in places \X Seq(S) /\ choice[T] = Greatest(T)
    BY <1>3, <1>6
  <2>. QED  BY <2>1, <1>5, <1>6 DEF Recursive
<1>7. Eq(f)
  BY <1>5, <1>6 DEF Recursive
<1>8. Eq(picked)
  <2>. HIDE DEF Eq
  <2>. QED  BY <1>7
<1>. HIDE DEF picked
<1>9. /\ picked[{}] = <<>>
      /\ \A T \in SUBSET places : T # {} =>
           picked[T] = Append(picked[T \ {Greatest(T)}], s[Greatest(T)])
  BY <1>8
<1>. DEFINE J == {T \in SUBSET places : picked[T] \in Seq(S) /\ IsListed(picked[T], s, T)}
<1>10. ASSUME NEW T \in SUBSET places, \A x \in T : T \ {x} \in J  PROVE T \in J
  <2>1. CASE T = {}
    <3>1. <<>> \in Seq(S) /\ Len(<<>>) = 0
      OBVIOUS
    <3>2. Lists(<<>>, s, {}, [i \in {} |-> 0])
      BY <3>1 DEF Lists
    <3>. QED  BY <1>9, <2>1, <3>1, <3>2 DEF IsListed
  <2>2. CASE T # {}
    <3>1. Greatest(T) \in T /\ \A k \in T : k <= Greatest(T)
      BY <1>3, <2>2
    <3>2. picked[T \ {Greatest(T)}] \in Seq(S)
          /\ IsListed(picked[T \ {Greatest(T)}], s, T \ {Greatest(T)})
      BY <1>10, <3>1
    <3>3. T \in SUBSET (1..Len(s))
      OBVIOUS
    <3>4. picked[T] = Append(picked[T \ {Greatest(T)}], s[Greatest(T)])
      BY <1>9, <2>2
    <3>5. /\ Append(picked[T \ {Greatest(T)}], s[Greatest(T)]) \in Seq(S)
          /\ IsListed(Append(picked[T \ {Greatest(T)}], s[Greatest(T)]), s, T)
      BY <3>1, <3>2, <3>3, ListsOneMore
    <3>. QED  BY <3>4, <3>5
  <2>. QED  BY <2>1, <2>2
<1>. HIDE DEF J
<1>11. \A T \in SUBSET places : T \in J
  BY <1>2, <1>10, SubsetInduction
<1>. QED  BY <1>1, <1>11 DEF J

---------------------------------------------------------------------------
(* What the queue promises the history *)

WellFormed(q) ==
  /\ q \in [Priority -> Seq(Packet)]
  /\ \A b \in Priority : \A k \in 1..Len(q[b]) : q[b][k].priority = b

(* A media packet waits at one place only. *)
Once(q) ==
  \A b, c \in Priority : \A k \in 1..Len(q[b]), l \in 1..Len(q[c]) :
    q[b][k].seq = q[c][l].seq /\ q[b][k].seq # NoSeq => b = c /\ k = l

Waits(q, s) == \E b \in Priority : \E k \in 1..Len(q[b]) : q[b][k].seq = s

(* A packet whose number is stored is the copy its entry waits for, and has *)
(* as long to live as the entry.                                            *)
PacketAgrees(packet, h, n) ==
  /\ packet.seq < n
  /\ packet.retransmit => packet.seq # NoSeq
  /\ packet.seq \in DOMAIN h =>
       packet.retransmit /\ h[packet.seq].pending /\ h[packet.seq].ttl = packet.ttl

EntryAgrees(q, h, n, s) ==
  s < n /\ h[s] \in Entry /\ (h[s].pending /\ h[s].ttl > 0 => Waits(q, s))

QueueAgrees(q, h, n) ==
  /\ Once(q)
  /\ \A b \in Priority : \A k \in 1..Len(q[b]) : PacketAgrees(q[b][k], h, n)
  /\ DOMAIN h \subseteq Seqs
  /\ \A s \in DOMAIN h : EntryAgrees(q, h, n, s)

AudioLive(q) == \A k \in 1..Len(q[Audio]) : IsLive(q[Audio][k])

(* Where the new packets of a bucket come from. *)
New(e, q, b) == (Len(q[b]) + 1)..Len(e[b])

Enqueued(e, q, packets, from) ==
  /\ \A b \in Priority : Len(q[b]) <= Len(e[b])
  /\ \A b \in Priority : \A k \in 1..Len(q[b]) : e[b][k] = q[b][k]
  /\ \A b \in Priority : \A k \in New(e, q, b) :
       /\ from[b][k] \in 1..Len(packets)
       /\ packets[from[b][k]].priority = b /\ e[b][k] = packets[from[b][k]]
  /\ \A b \in Priority : \A k, l \in New(e, q, b) : from[b][k] = from[b][l] => k = l
  /\ \A b \in Priority : \A i \in 1..Len(packets) :
       packets[i].priority = b => \E k \in New(e, q, b) : from[b][k] = i

(* Enqueueing leaves what waits where it is, and puts each of the packets   *)
(* at one place behind it, in the bucket of its priority.                   *)
LEMMA EnqueuePlaces ==
  ASSUME NEW q, WellFormed(q), NEW packets \in Seq(Packet)
  PROVE  /\ WellFormed(Enqueue(q, packets))
         /\ \E from : Enqueued(Enqueue(q, packets), q, packets, from)
<1>. DEFINE e == Enqueue(q, packets)
            picked(b) == Picked(packets, PlacesOf(packets, b))
            at(b) == CHOOSE at : Lists(picked(b), packets, PlacesOf(packets, b), at)
            from == [b \in Priority |-> [k \in New(e, q, b) |-> at(b)[k - Len(q[b])]]]
<1>1. ASSUME NEW b \in Priority
      PROVE  /\ picked(b) \in Seq(Packet)
             /\ Lists(picked(b), packets, PlacesOf(packets, b), at(b))
  <2>1. PlacesOf(packets, b) \in SUBSET (1..Len(packets))
    BY DEF PlacesOf
  <2>2. picked(b) \in Seq(Packet) /\ IsListed(picked(b), packets, PlacesOf(packets, b))
    BY <2>1, PickedProperties
  <2>. QED  BY <2>2 DEF IsListed
<1>2. ASSUME NEW b \in Priority
      PROVE  /\ q[b] \in Seq(Packet) /\ Len(q[b]) \in Nat /\ Len(picked(b)) \in Nat
             /\ e[b] \in Seq(Packet) /\ Len(e[b]) = Len(q[b]) + Len(picked(b))
             /\ \A k \in 1..Len(q[b]) : e[b][k] = q[b][k]
             /\ \A k \in New(e, q, b) : /\ k - Len(q[b]) \in 1..Len(picked(b))
                                        /\ e[b][k] = picked(b)[k - Len(q[b])]
  <2>1. q[b] \in Seq(Packet) /\ picked(b) \in Seq(Packet) /\ e[b] = q[b] \o picked(b)
    BY <1>1 DEF WellFormed, Enqueue
  <2>2. Len(q[b]) \in Nat /\ Len(picked(b)) \in Nat
    BY <2>1, LenProperties
  <2>. HIDE DEF e, picked
  <2>3. /\ e[b] \in Seq(Packet) /\ Len(e[b]) = Len(q[b]) + Len(picked(b))
        /\ \A k \in 1..(Len(q[b]) + Len(picked(b))) :
             e[b][k] = IF k <= Len(q[b]) THEN q[b][k] ELSE picked(b)[k - Len(q[b])]
    BY <2>1, ConcatProperties
  <2>. QED  BY <2>1, <2>2, <2>3 DEF New
<1>3. ASSUME NEW b \in Priority, NEW i \in 1..Len(picked(b))
      PROVE  /\ at(b)[i] \in 1..Len(packets) /\ packets[at(b)[i]].priority = b
             /\ picked(b)[i] = packets[at(b)[i]]
  <2>1. at(b)[i] \in PlacesOf(packets, b) /\ picked(b)[i] = packets[at(b)[i]]
    <3>. HIDE DEF at, picked
    <3>. QED  BY <1>1 DEF Lists
  <2>. QED  BY <2>1 DEF PlacesOf
<1>4. ASSUME NEW b \in Priority, NEW i \in 1..Len(picked(b)), NEW j \in 1..Len(picked(b)),
             at(b)[i] = at(b)[j]
      PROVE  i = j
  <2>1. \A k, l \in 1..Len(picked(b)) : k < l => at(b)[k] < at(b)[l]
    BY <1>1 DEF Lists
  <2>2. at(b)[i] \in Nat
    BY <1>3
  <2>. HIDE DEF at, picked
  <2>. QED  BY <2>1, <2>2, <1>2, <1>4
<1>5. ASSUME NEW b \in Priority, NEW i \in 1..Len(packets), packets[i].priority = b
      PROVE  \E j \in 1..Len(picked(b)) : at(b)[j] = i
  <2>1. i \in PlacesOf(packets, b)
    BY <1>5 DEF PlacesOf
  <2>. QED  BY <2>1, <1>1 DEF Lists
<1>6. e = [b \in Priority |-> e[b]]
  BY DEF Enqueue
<1>7. \A b \in Priority : \A k \in New(e, q, b) : from[b][k] = at(b)[k - Len(q[b])]
  OBVIOUS
<1>. HIDE DEF e, picked, at, from
<1>8. e \in [Priority -> Seq(Packet)]
  BY <1>2, <1>6
<1>9. ASSUME NEW b \in Priority, NEW k \in 1..Len(e[b])  PROVE e[b][k].priority = b
  <2>1. CASE k \in 1..Len(q[b])
    BY <1>2, <2>1 DEF WellFormed
  <2>2. CASE k \in New(e, q, b)
    <3>1. /\ k - Len(q[b]) \in 1..Len(picked(b))
          /\ e[b][k] = picked(b)[k - Len(q[b])]
      BY <1>2, <2>2
    <3>2. PICK i \in 1..Len(picked(b)) : e[b][k] = picked(b)[i]
      BY <3>1
    <3>. QED  BY <1>3, <3>2
  <2>. QED  BY <2>1, <2>2, <1>2 DEF New
<1>10. WellFormed(e)
  BY <1>8, <1>9 DEF WellFormed
<1>11. ASSUME NEW b \in Priority  PROVE Len(q[b]) <= Len(e[b])
  BY <1>2
<1>12. ASSUME NEW b \in Priority, NEW k \in New(e, q, b)
       PROVE  /\ from[b][k] \in 1..Len(packets)
              /\ packets[from[b][k]].priority = b /\ e[b][k] = packets[from[b][k]]
  BY <1>2, <1>3, <1>7
<1>13. ASSUME NEW b \in Priority, NEW k \in New(e, q, b), NEW l \in New(e, q, b),
              from[b][k] = from[b][l]
       PROVE  k = l
  <2>1. k - Len(q[b]) = l - Len(q[b])
    BY <1>2, <1>4, <1>7, <1>13, SMTT(30)
  <2>2. k \in Int /\ l \in Int /\ Len(q[b]) \in Int
    BY <1>2 DEF New
  <2>. QED  BY <2>1, <2>2
<1>14. ASSUME NEW b \in Priority, NEW i \in 1..Len(packets), packets[i].priority = b
       PROVE  \E k \in New(e, q, b) : from[b][k] = i
  <2>1. PICK j \in 1..Len(picked(b)) : at(b)[j] = i
    BY <1>5, <1>14
  <2>. DEFINE n == Len(q[b])  m == Len(picked(b))
  <2>0. n \in Nat /\ m \in Nat /\ Len(e[b]) = n + m /\ j \in 1..m
    BY <1>2
  <2>02. New(e, q, b) = (n + 1)..Len(e[b])
    BY DEF New
  <2>. HIDE DEF n, m
  <2>2. n + j \in New(e, q, b) /\ (n + j) - n = j
    BY <2>0, <2>02
  <2>3. from[b][n + j] = at(b)[(n + j) - n]
    BY <1>7, <2>2 DEF n
  <2>. QED  BY <2>1, <2>2, <2>3
<1>15. Enqueued(e, q, packets, from)
  BY <1>2, <1>11, <1>12, <1>13, <1>14 DEF Enqueued
<1>. QED  BY <1>10, <1>15 DEF e

(* Packets may join the queue when none of them waits already, each agrees  *)
(* with the history as the handler leaves it, and the entries it marks are  *)
(* theirs.                                                                  *)
Joins(packets, q, h, h2, n) ==
  /\ \A i \in 1..Len(packets) : PacketAgrees(packets[i], h2, n) /\ IsLive(packets[i])
  /\ \A i, j \in 1..Len(packets) :
       packets[i].seq = packets[j].seq /\ packets[i].seq # NoSeq => i = j
  /\ \A i \in 1..Len(packets) : packets[i].seq # NoSeq => ~Waits(q, packets[i].seq)
  /\ DOMAIN h2 = DOMAIN h
  /\ \A s \in DOMAIN h :
       /\ h2[s] \in Entry /\ h2[s].ttl = h[s].ttl
       /\ h[s].pending => h2[s].pending
       /\ h2[s].pending => h[s].pending \/ \E i \in 1..Len(packets) : packets[i].seq = s

(* Packets that may join leave the queue in agreement with the history.     *)
LEMMA EnqueueAgrees ==
  ASSUME NEW q, WellFormed(q), NEW packets \in Seq(Packet), NEW h, NEW n \in Nat,
         QueueAgrees(q, h, n), NEW h2, NEW m \in Nat, n <= m, Joins(packets, q, h, h2, m)
  PROVE  /\ WellFormed(Enqueue(q, packets))
         /\ QueueAgrees(Enqueue(q, packets), h2, m)
         /\ AudioLive(q) => AudioLive(Enqueue(q, packets))
<1>. DEFINE e == Enqueue(q, packets)
<1>1. WellFormed(e)
  BY EnqueuePlaces
<1>2. PICK from : Enqueued(e, q, packets, from)
  BY EnqueuePlaces
<1>. HIDE DEF e
<1>3. ASSUME NEW b \in Priority
      PROVE  /\ Len(q[b]) \in Nat /\ Len(e[b]) \in Nat /\ Len(q[b]) <= Len(e[b])
             /\ q[b] \in Seq(Packet) /\ e[b] \in Seq(Packet)
  <2>1. q[b] \in Seq(Packet) /\ e[b] \in Seq(Packet)
    BY <1>1 DEF WellFormed
  <2>2. Len(q[b]) \in Nat /\ Len(e[b]) \in Nat
    BY <2>1, LenProperties
  <2>. QED  BY <1>2, <2>1, <2>2 DEF Enqueued
<1>4. ASSUME NEW b \in Priority, NEW k \in 1..Len(e[b])
      PROVE  \/ k \in 1..Len(q[b]) /\ e[b][k] = q[b][k]
             \/ /\ k \in New(e, q, b) /\ from[b][k] \in 1..Len(packets)
                /\ packets[from[b][k]].priority = b /\ e[b][k] = packets[from[b][k]]
  <2>1. k \in 1..Len(q[b]) \/ k \in New(e, q, b)
    BY <1>3 DEF New
  <2>. QED  BY <2>1, <1>2 DEF Enqueued
<1>5. ASSUME NEW b \in Priority, NEW c \in Priority,
             NEW k \in 1..Len(e[b]), NEW l \in 1..Len(e[c]),
             e[b][k].seq = e[c][l].seq, e[b][k].seq # NoSeq
      PROVE  b = c /\ k = l
  <2>1. CASE /\ k \in 1..Len(q[b]) /\ e[b][k] = q[b][k]
             /\ l \in 1..Len(q[c]) /\ e[c][l] = q[c][l]
    BY <1>5, <2>1, SMTT(30) DEF QueueAgrees, Once
  <2>2. ASSUME k \in 1..Len(q[b]), e[b][k] = q[b][k],
               from[c][l] \in 1..Len(packets), e[c][l] = packets[from[c][l]]
        PROVE  FALSE
    <3>1. ~Waits(q, q[b][k].seq)
      BY <1>5, <2>2 DEF Joins
    <3>. QED  BY <2>2, <3>1 DEF Waits
  <2>3. ASSUME l \in 1..Len(q[c]), e[c][l] = q[c][l],
               from[b][k] \in 1..Len(packets), e[b][k] = packets[from[b][k]]
        PROVE  FALSE
    <3>1. ~Waits(q, q[c][l].seq)
      BY <1>5, <2>3 DEF Joins
    <3>. QED  BY <2>3, <3>1 DEF Waits
  <2>4. ASSUME k \in New(e, q, b), from[b][k] \in 1..Len(packets),
               packets[from[b][k]].priority = b, e[b][k] = packets[from[b][k]],
               l \in New(e, q, c), from[c][l] \in 1..Len(packets),
               packets[from[c][l]].priority = c, e[c][l] = packets[from[c][l]]
        PROVE  b = c /\ k = l
    <3>1. from[b][k] = from[c][l]
      BY <1>5, <2>4, SMTT(30) DEF Joins
    <3>. QED  BY <1>2, <2>4, <3>1 DEF Enqueued
  <2>. QED  BY <1>4, <2>1, <2>2, <2>3, <2>4
<1>6. Once(e)
  BY <1>5 DEF Once
<1>7. ASSUME NEW b \in Priority, NEW k \in 1..Len(e[b])
      PROVE  PacketAgrees(e[b][k], h2, m)
  <2>1. CASE k \in 1..Len(q[b]) /\ e[b][k] = q[b][k]
    <3>1. PacketAgrees(q[b][k], h, n)
      BY <2>1 DEF QueueAgrees
    <3>0. q[b][k] \in Packet
      BY <1>3, <2>1, ElementOfSeq
    <3>2. q[b][k].seq \in Nat
      BY <3>0 DEF Packet
    <3>3. q[b][k].seq < m
      BY <3>1, <3>2 DEF PacketAgrees
    <3>. QED  BY <2>1, <3>1, <3>3 DEF PacketAgrees, Joins
  <2>2. CASE from[b][k] \in 1..Len(packets) /\ e[b][k] = packets[from[b][k]]
    BY <2>2 DEF Joins
  <2>. QED  BY <1>4, <2>1, <2>2
<1>8. ASSUME NEW s, Waits(q, s)  PROVE Waits(e, s)
  <2>1. PICK b \in Priority : \E k \in 1..Len(q[b]) : q[b][k].seq = s
    BY <1>8 DEF Waits
  <2>0. PICK k \in 1..Len(q[b]) : q[b][k].seq = s
    BY <2>1
  <2>2. k \in 1..Len(e[b]) /\ e[b][k] = q[b][k]
    BY <1>2, <1>3 DEF Enqueued
  <2>. QED  BY <2>0, <2>2 DEF Waits
<1>9. ASSUME NEW i \in 1..Len(packets)  PROVE Waits(e, packets[i].seq)
  <2>1. packets[i] \in Packet
    BY ElementOfSeq
  <2>2. packets[i].priority \in Priority
    BY <2>1 DEF Packet
  <2>3. PICK k \in New(e, q, packets[i].priority) : from[packets[i].priority][k] = i
    BY <1>2, <2>2 DEF Enqueued
  <2>4. e[packets[i].priority][k] = packets[i] /\ k \in 1..Len(e[packets[i].priority])
    BY <1>2, <1>3, <2>2, <2>3 DEF Enqueued, New
  <2>. QED  BY <2>2, <2>4 DEF Waits
<1>10. ASSUME NEW s \in DOMAIN h  PROVE EntryAgrees(e, h2, m, s)
  <2>1. EntryAgrees(q, h, n, s) /\ s \in Seqs
    BY DEF QueueAgrees
  <2>2. s < m
    BY <2>1 DEF EntryAgrees, Seqs
  <2>. QED  BY <1>8, <1>9, <2>1, <2>2 DEF Joins, EntryAgrees
<1>11. QueueAgrees(e, h2, m)
  BY <1>6, <1>7, <1>10 DEF QueueAgrees, Joins
<1>12. ASSUME AudioLive(q), NEW k \in 1..Len(e[Audio])  PROVE IsLive(e[Audio][k])
  <2>1. Audio \in Priority
    BY DEF Priority, Audio, Video
  <2>2. CASE k \in 1..Len(q[Audio]) /\ e[Audio][k] = q[Audio][k]
    BY <1>12, <2>2 DEF AudioLive
  <2>3. CASE from[Audio][k] \in 1..Len(packets) /\ e[Audio][k] = packets[from[Audio][k]]
    BY <2>3 DEF Joins
  <2>. QED  BY <1>4, <2>1, <2>2, <2>3
<1>. QED  BY <1>1, <1>11, <1>12 DEF AudioLive, e

---------------------------------------------------------------------------
(* What pop leaves in the queue *)

(* How many packets leave the front of a bucket. *)
Gone(q, b) ==
  IF ~CanPop(q) \/ b < PopBucket(q) THEN Len(q[b])
  ELSE IF b = PopBucket(q) THEN PopIndex(q) ELSE 0

IsPopped(q, b, k) == CanPop(q) /\ b = PopBucket(q) /\ k = PopIndex(q)

(* The packet pop takes is the first live one of the first bucket that has  *)
(* a live one.                                                              *)
LEMMA PopTakesLive ==
  ASSUME NEW q, WellFormed(q), CanPop(q)
  PROVE  /\ PopBucket(q) \in Priority /\ PopIndex(q) \in 1..Len(q[PopBucket(q)])
         /\ IsLive(Popped(q)) /\ Popped(q) \in Packet /\ Popped(q).priority = PopBucket(q)
         /\ \A c \in Priority : c < PopBucket(q) => LiveAt(q, c) = {}
         /\ \A k \in LiveAt(q, PopBucket(q)) : PopIndex(q) <= k
<1>. DEFINE T == {b \in Priority : LiveAt(q, b) # {}}
<1>1. \E b \in T : \A c \in T : b <= c
  <2>1. T \in SUBSET Nat /\ T # {}
    BY DEF CanPop, Priority, Audio, Video
  <2>. QED  BY <2>1, LeastNumber
<1>2. \E b \in Priority : LiveAt(q, b) # {} /\ \A c \in Priority : c < b => LiveAt(q, c) = {}
  <2>1. PICK b \in T : \A c \in T : b <= c
    BY <1>1
  <2>2. \A c \in Priority : c < b => ~(b <= c)
    BY DEF Priority, Audio, Video
  <2>. QED  BY <2>1, <2>2
<1>3. /\ PopBucket(q) \in Priority /\ LiveAt(q, PopBucket(q)) # {}
      /\ \A c \in Priority : c < PopBucket(q) => LiveAt(q, c) = {}
  BY <1>2 DEF PopBucket
<1>4. LiveAt(q, PopBucket(q)) \in SUBSET Nat
  BY DEF LiveAt
<1>5. PopIndex(q) \in LiveAt(q, PopBucket(q)) /\ \A k \in LiveAt(q, PopBucket(q)) : PopIndex(q) <= k
  BY <1>3, <1>4, LeastOf DEF PopIndex
<1>6. PopIndex(q) \in 1..Len(q[PopBucket(q)]) /\ IsLive(Popped(q))
  BY <1>5 DEF LiveAt, Popped
<1>7. Popped(q) \in Packet /\ Popped(q).priority = PopBucket(q)
  <2>1. q[PopBucket(q)] \in Seq(Packet)
    BY <1>3 DEF WellFormed
  <2>. QED  BY <1>3, <1>6, <2>1, ElementOfSeq DEF Popped, WellFormed
<1>. QED  BY <1>3, <1>5, <1>6, <1>7

(* pop drops the front of each bucket, and of that only expired packets and *)
(* the one it takes.                                                        *)
LEMMA PopPlaces ==
  ASSUME NEW q, WellFormed(q)
  PROVE  /\ WellFormed(AfterPop(q))
         /\ \A b \in Priority :
              /\ Gone(q, b) \in 0..Len(q[b])
              /\ Len(AfterPop(q)[b]) = Len(q[b]) - Gone(q, b)
              /\ \A k \in 1..Len(AfterPop(q)[b]) :
                   /\ k + Gone(q, b) \in 1..Len(q[b])
                   /\ AfterPop(q)[b][k] = q[b][k + Gone(q, b)]
              /\ \A k \in 1..Gone(q, b) : IsLive(q[b][k]) => IsPopped(q, b, k)
<1>. DEFINE e == AfterPop(q)
<1>1. ASSUME NEW b \in Priority
      PROVE  /\ q[b] \in Seq(Packet) /\ Len(q[b]) \in Nat
             /\ \A k \in 1..Len(q[b]) : q[b][k] \in Packet
             /\ Gone(q, b) \in 0..Len(q[b])
  <2>1. q[b] \in Seq(Packet)
    BY DEF WellFormed
  <2>2. Len(q[b]) \in Nat /\ \A k \in 1..Len(q[b]) : q[b][k] \in Packet
    BY <2>1, ElementOfSeq, LenProperties
  <2>. QED  BY <2>1, <2>2, PopTakesLive DEF Gone
<1>2. ASSUME NEW b \in Priority
      PROVE  /\ e[b] \in Seq(Packet)
             /\ Len(e[b]) = Len(q[b]) - Gone(q, b)
             /\ \A k \in 1..Len(e[b]) : e[b][k] = q[b][k + Gone(q, b)]
  <2>0. e[b] = IF ~CanPop(q) \/ b < PopBucket(q) THEN <<>>
               ELSE IF b = PopBucket(q) THEN SubSeq(q[b], PopIndex(q) + 1, Len(q[b]))
               ELSE q[b]
    BY DEF AfterPop
  <2>. HIDE DEF e
  <2>1. CASE ~CanPop(q) \/ b < PopBucket(q)
    <3>1. e[b] = <<>> /\ Gone(q, b) = Len(q[b])
      BY <2>0, <2>1 DEF Gone
    <3>2. <<>> \in Seq(Packet) /\ Len(<<>>) = 0
      OBVIOUS
    <3>. QED  BY <1>1, <3>1, <3>2
  <2>2. CASE CanPop(q) /\ ~(b < PopBucket(q)) /\ b = PopBucket(q)
    <3>. DEFINE i == PopIndex(q)
    <3>1. Gone(q, b) = i /\ e[b] = SubSeq(q[b], i + 1, Len(q[b]))
      BY <2>0, <2>2 DEF Gone
    <3>2. i \in 1..Len(q[b])
      BY <2>2, PopTakesLive
    <3>. HIDE DEF i
    <3>3. \A k \in (i + 1)..Len(q[b]) : q[b][k] \in Packet
      BY <1>1, <3>2
    <3>4. i + 1 \in Int /\ Len(q[b]) \in Int
      BY <1>1, <3>2
    <3>5. /\ SubSeq(q[b], i + 1, Len(q[b])) \in Seq(Packet)
          /\ Len(SubSeq(q[b], i + 1, Len(q[b]))) =
               IF i + 1 <= Len(q[b]) THEN Len(q[b]) - (i + 1) + 1 ELSE 0
          /\ \A k \in 1..(Len(q[b]) - (i + 1) + 1) :
               SubSeq(q[b], i + 1, Len(q[b]))[k] = q[b][i + 1 + k - 1]
      BY <3>3, <3>4, SubSeqProperties
    <3>6. Len(e[b]) = Len(q[b]) - i
      BY <1>1, <3>1, <3>2, <3>5
    <3>7. ASSUME NEW k \in 1..Len(e[b])  PROVE e[b][k] = q[b][k + i]
      <4>1. k \in 1..(Len(q[b]) - (i + 1) + 1) /\ i + 1 + k - 1 = k + i
        BY <1>1, <3>2, <3>6
      <4>. QED  BY <3>1, <3>5, <4>1
    <3>. QED  BY <3>1, <3>5, <3>6, <3>7
  <2>3. CASE CanPop(q) /\ ~(b < PopBucket(q)) /\ b # PopBucket(q)
    <3>1. Gone(q, b) = 0 /\ e[b] = q[b]
      BY <2>0, <2>3 DEF Gone
    <3>2. \A k \in 1..Len(e[b]) : k + 0 = k
      BY <1>1, <3>1
    <3>. QED  BY <1>1, <3>1, <3>2
  <2>. QED  BY <2>1, <2>2, <2>3
<1>3. e = [b \in Priority |-> e[b]]
  BY DEF AfterPop
<1>4. ASSUME NEW b \in Priority, NEW k \in 1..Gone(q, b), IsLive(q[b][k])
      PROVE  IsPopped(q, b, k)
  <2>1. k \in LiveAt(q, b) /\ k \in Nat
    BY <1>1, <1>4 DEF LiveAt
  <2>2. CanPop(q)
    BY <2>1 DEF CanPop
  <2>3. ~(b < PopBucket(q))
    BY <2>1, <2>2, PopTakesLive
  <2>4. b = PopBucket(q)
    BY <1>1, <2>2, <2>3 DEF Gone
  <2>5. PopIndex(q) <= k /\ k <= PopIndex(q)
    BY <2>1, <2>2, <2>3, <2>4, PopTakesLive DEF Gone
  <2>6. PopIndex(q) \in Nat
    BY <2>2, PopTakesLive
  <2>. QED  BY <2>1, <2>2, <2>4, <2>5, <2>6 DEF IsPopped
<1>. HIDE DEF e
<1>5. ASSUME NEW b \in Priority, NEW k \in 1..Len(e[b])  PROVE k + Gone(q, b) \in 1..Len(q[b])
  BY <1>1, <1>2
<1>6. ASSUME NEW b \in Priority, NEW k \in 1..Len(e[b])  PROVE e[b][k].priority = b
  BY <1>2, <1>5 DEF WellFormed
<1>7. WellFormed(e)
  BY <1>2, <1>3, <1>6 DEF WellFormed
<1>. QED  BY <1>1, <1>2, <1>4, <1>5, <1>7 DEF e

(* What the history may be after the packet pop takes has left: the entry   *)
(* of that packet does not wait for a copy, and every other is unchanged.   *)
Sent(q, h, h2, n) ==
  \A s \in DOMAIN h2 :
    \/ s \in DOMAIN h /\ h2[s] = h[s] /\ ~(CanPop(q) /\ s = Popped(q).seq)
    \/ /\ CanPop(q) /\ s = Popped(q).seq /\ s # NoSeq /\ s < n
       /\ h2[s] \in Entry /\ ~h2[s].pending

(* Popping keeps the queue's promises.  An expired copy that pop drops has  *)
(* an expired entry, so no promise is broken with it.                       *)
LEMMA PopAgrees ==
  ASSUME NEW q, WellFormed(q), NEW h, NEW n \in Nat, QueueAgrees(q, h, n),
         NEW h2, DOMAIN h2 \subseteq Seqs, Sent(q, h, h2, n)
  PROVE  /\ QueueAgrees(AfterPop(q), h2, n)
         /\ AudioLive(q) => AudioLive(AfterPop(q))
<1>. DEFINE e == AfterPop(q)
<1>1. ASSUME NEW b \in Priority
      PROVE  /\ Len(q[b]) \in Nat /\ Gone(q, b) \in 0..Len(q[b])
             /\ Len(e[b]) = Len(q[b]) - Gone(q, b)
             /\ \A k \in 1..Len(e[b]) : /\ k + Gone(q, b) \in 1..Len(q[b])
                                        /\ e[b][k] = q[b][k + Gone(q, b)]
             /\ \A k \in 1..Gone(q, b) : IsLive(q[b][k]) => IsPopped(q, b, k)
  <2>1. q[b] \in Seq(Packet)
    BY DEF WellFormed
  <2>2. Len(q[b]) \in Nat
    BY <2>1, LenProperties
  <2>. QED  BY <2>2, PopPlaces
<1>. HIDE DEF e
<1>2. ASSUME NEW b \in Priority, NEW c \in Priority,
             NEW k \in 1..Len(e[b]), NEW l \in 1..Len(e[c]),
             e[b][k].seq = e[c][l].seq, e[b][k].seq # NoSeq
      PROVE  b = c /\ k = l
  <2>. DEFINE i == k + Gone(q, b)  j == l + Gone(q, c)
  <2>0. i \in 1..Len(q[b]) /\ e[b][k] = q[b][i] /\ j \in 1..Len(q[c]) /\ e[c][l] = q[c][j]
    BY <1>1
  <2>1. b = c /\ i = j
    <3>. HIDE DEF i, j
    <3>. QED  BY <1>2, <2>0 DEF QueueAgrees, Once
  <2>2. k \in Int /\ l \in Int /\ Gone(q, b) \in Int
    BY <1>1
  <2>. QED  BY <2>1, <2>2
<1>3. ASSUME NEW b \in Priority, NEW k \in 1..Len(e[b])
      PROVE  PacketAgrees(e[b][k], h2, n)
  <2>. DEFINE i == k + Gone(q, b)
  <2>1. i \in 1..Len(q[b]) /\ e[b][k] = q[b][i] /\ i > Gone(q, b)
    BY <1>1
  <2>. HIDE DEF i
  <2>2. PacketAgrees(q[b][i], h, n)
    BY <2>1 DEF QueueAgrees
  <2>3. ASSUME CanPop(q), q[b][i].seq = Popped(q).seq, q[b][i].seq # NoSeq
        PROVE  FALSE
    <3>1. PopBucket(q) \in Priority /\ PopIndex(q) \in 1..Len(q[PopBucket(q)])
      BY <2>3, PopTakesLive
    <3>2. b = PopBucket(q) /\ i = PopIndex(q)
      BY <2>1, <2>3, <3>1 DEF QueueAgrees, Once, Popped
    <3>3. Gone(q, b) = i /\ i \in Nat
      BY <2>3, <3>1, <3>2 DEF Gone, Priority, Audio, Video
    <3>. QED  BY <2>1, <3>3
  <2>. QED  BY <2>1, <2>2, <2>3 DEF PacketAgrees, Sent
<1>4. ASSUME NEW s \in DOMAIN h2  PROVE EntryAgrees(e, h2, n, s)
  <2>1. CASE s \in DOMAIN h /\ h2[s] = h[s] /\ ~(CanPop(q) /\ s = Popped(q).seq)
    <3>1. EntryAgrees(q, h, n, s)
      BY <2>1 DEF QueueAgrees
    <3>2. ASSUME h[s].pending, h[s].ttl > 0  PROVE Waits(e, s)
      <4>1. Waits(q, s)
        BY <3>1, <3>2 DEF EntryAgrees
      <4>2. PICK b \in Priority : \E k \in 1..Len(q[b]) : q[b][k].seq = s
        BY <4>1 DEF Waits
      <4>3. PICK k \in 1..Len(q[b]) : q[b][k].seq = s
        BY <4>2
      <4>4. IsLive(q[b][k])
        <5>1. PacketAgrees(q[b][k], h, n)
          BY DEF QueueAgrees
        <5>. QED  BY <2>1, <3>2, <4>3, <5>1 DEF PacketAgrees, IsLive
      <4>5. ~IsPopped(q, b, k)
        BY <2>1, <4>3 DEF IsPopped, Popped
      <4>6. ~(k \in 1..Gone(q, b))
        BY <1>1, <4>4, <4>5
      <4>. DEFINE j == k - Gone(q, b)
      <4>7. j \in 1..Len(e[b]) /\ j + Gone(q, b) = k
        BY <1>1, <4>6
      <4>. HIDE DEF j
      <4>8. e[b][j].seq = s
        BY <1>1, <4>3, <4>7
      <4>. QED  BY <4>7, <4>8 DEF Waits
    <3>. QED  BY <2>1, <3>1, <3>2 DEF EntryAgrees
  <2>2. CASE s < n /\ h2[s] \in Entry /\ ~h2[s].pending
    BY <2>2 DEF EntryAgrees
  <2>. QED  BY <2>1, <2>2 DEF Sent
<1>5. QueueAgrees(e, h2, n)
  BY <1>2, <1>3, <1>4 DEF QueueAgrees, Once
<1>6. ASSUME AudioLive(q), NEW k \in 1..Len(e[Audio])  PROVE IsLive(e[Audio][k])
  <2>1. Audio \in Priority
    BY DEF Priority, Audio, Video
  <2>. QED  BY <1>1, <1>6, <2>1 DEF AudioLive
<1>. QED  BY <1>5, <1>6 DEF AudioLive, e

---------------------------------------------------------------------------
(* The order of the history *)

(* ord lists the set stored, each element once. *)
IsOrder(ord, stored) ==
  /\ ord \in Seq(Seqs)
  /\ stored = {ord[k] : k \in 1..Len(ord)}
  /\ \A j, k \in 1..Len(ord) : ord[j] = ord[k] => j = k

(* A new number at the end of the order. *)
LEMMA OrderAppend ==
  ASSUME NEW ord, NEW stored, IsOrder(ord, stored), NEW s \in Seqs, s \notin stored
  PROVE  IsOrder(Append(ord, s), stored \union {s}) /\ Len(Append(ord, s)) = Len(ord) + 1
<1>. DEFINE more == Append(ord, s)
<1>1. /\ more \in Seq(Seqs) /\ Len(more) = Len(ord) + 1 /\ Len(ord) \in Nat
      /\ \A k \in 1..Len(ord) : more[k] = ord[k]
      /\ more[Len(ord) + 1] = s
  BY AppendProperties DEF IsOrder
<1>. HIDE DEF more
<1>2. \A k \in 1..Len(ord) : ord[k] # s
  BY DEF IsOrder
<1>3. stored \union {s} = {more[k] : k \in 1..Len(more)}
  <2>1. ASSUME NEW x \in stored \union {s}  PROVE \E k \in 1..Len(more) : x = more[k]
    <3>1. CASE x = s  BY <1>1, <3>1
    <3>2. CASE x # s
      <4>1. PICK k \in 1..Len(ord) : x = ord[k]
        BY <3>2 DEF IsOrder
      <4>. QED  BY <1>1, <4>1
    <3>. QED  BY <3>1, <3>2
  <2>2. ASSUME NEW k \in 1..Len(more)  PROVE more[k] \in stored \union {s}
    <3>1. CASE k = Len(ord) + 1  BY <1>1, <3>1
    <3>2. CASE k # Len(ord) + 1
      <4>1. k \in 1..Len(ord)
        BY <1>1, <3>2
      <4>. QED  BY <1>1, <4>1 DEF IsOrder
    <3>. QED  BY <3>1, <3>2
  <2>. QED  BY <2>1, <2>2
<1>4. \A j, k \in 1..Len(more) : more[j] = more[k] => j = k
  <2>. SUFFICES ASSUME NEW j \in 1..Len(more), NEW k \in 1..Len(more), more[j] = more[k]
                PROVE  j = k
    OBVIOUS
  <2>1. CASE j \in 1..Len(ord) /\ k \in 1..Len(ord)
    BY <1>1, <2>1 DEF IsOrder
  <2>2. CASE j \in 1..Len(ord) /\ k = Len(ord) + 1
    BY <1>1, <1>2, <2>2
  <2>3. CASE j = Len(ord) + 1 /\ k \in 1..Len(ord)
    BY <1>1, <1>2, <2>3
  <2>4. CASE j = Len(ord) + 1 /\ k = Len(ord) + 1
    BY <2>4
  <2>. QED  BY <1>1, <2>1, <2>2, <2>3, <2>4
<1>. QED  BY <1>1, <1>3, <1>4 DEF IsOrder, more

(* The oldest number leaves the order. *)
LEMMA OrderTail ==
  ASSUME NEW ord, NEW stored, IsOrder(ord, stored), ord # <<>>
  PROVE  /\ IsOrder(Tail(ord), stored \ {Head(ord)}) /\ Len(Tail(ord)) = Len(ord) - 1
         /\ Head(ord) \in stored
<1>. DEFINE rest == Tail(ord)  n == Len(ord)
<1>1. /\ rest \in Seq(Seqs) /\ Len(rest) = n - 1 /\ n \in Nat /\ n >= 1
      /\ \A k \in 1..Len(rest) : rest[k] = ord[k + 1]
      /\ Head(ord) = ord[1]
  <2>1. ord \in Seq(Seqs) /\ n \in Nat \ {0}
    BY EmptySeq DEF IsOrder
  <2>. QED  BY <2>1, HeadTailProperties
<1>. HIDE DEF rest
<1>2. stored \ {ord[1]} = {rest[k] : k \in 1..Len(rest)}
  <2>1. ASSUME NEW x \in stored, x # ord[1]  PROVE \E k \in 1..Len(rest) : x = rest[k]
    <3>1. PICK k \in 1..n : x = ord[k]
      BY DEF IsOrder
    <3>2. k # 1
      BY <2>1, <3>1
    <3>3. k - 1 \in 1..Len(rest) /\ (k - 1) + 1 = k
      BY <1>1, <3>2
    <3>4. rest[k - 1] = ord[(k - 1) + 1]
      BY <1>1, <3>3
    <3>. QED  BY <3>1, <3>3, <3>4
  <2>2. ASSUME NEW k \in 1..Len(rest)  PROVE rest[k] \in stored /\ rest[k] # ord[1]
    <3>1. k + 1 \in 1..n /\ k + 1 # 1 /\ 1 \in 1..n /\ rest[k] = ord[k + 1]
      BY <1>1
    <3>. HIDE DEF n
    <3>2. ord[k + 1] \in stored
      BY <3>1 DEF IsOrder, n
    <3>3. ord[k + 1] # ord[1]
      BY <3>1 DEF IsOrder, n
    <3>. QED  BY <3>1, <3>2, <3>3
  <2>. QED  BY <2>1, <2>2
<1>3. ASSUME NEW j \in 1..Len(rest), NEW k \in 1..Len(rest), rest[j] = rest[k]
      PROVE  j = k
  <2>1. j + 1 \in 1..n /\ k + 1 \in 1..n /\ rest[j] = ord[j + 1] /\ rest[k] = ord[k + 1]
    BY <1>1
  <2>2. j + 1 = k + 1
    BY <1>3, <2>1 DEF IsOrder
  <2>. QED  BY <2>2
<1>4. ord[1] \in stored
  BY <1>1 DEF IsOrder
<1>. QED  BY <1>1, <1>2, <1>3, <1>4 DEF IsOrder, rest

(* Part of the order is the order of its part, and no longer. *)
LEMMA OrderPicked ==
  ASSUME NEW ord, NEW stored, IsOrder(ord, stored), NEW kept \in SUBSET stored
  PROVE  LET some == Picked(ord, {k \in 1..Len(ord) : ord[k] \in kept})
         IN  IsOrder(some, kept) /\ Len(some) <= Len(ord)
<1>. DEFINE places == {k \in 1..Len(ord) : ord[k] \in kept}
            some == Picked(ord, places)
<1>1. ord \in Seq(Seqs) /\ Len(ord) \in Nat
  BY LenProperties DEF IsOrder
<1>2. some \in Seq(Seqs) /\ IsListed(some, ord, places)
  <2>1. places \in SUBSET (1..Len(ord))
    OBVIOUS
  <2>. QED  BY <1>1, <2>1, PickedProperties
<1>3. PICK at : Lists(some, ord, places, at)
  BY <1>2 DEF IsListed
<1>4. Len(some) \in Nat
  BY <1>2, LenProperties
<1>. HIDE DEF some
<1>5. ASSUME NEW i \in 1..Len(some)
      PROVE  at[i] \in 1..Len(ord) /\ ord[at[i]] \in kept /\ some[i] = ord[at[i]] /\ i <= at[i]
  BY <1>3 DEF Lists
<1>6. Len(some) <= Len(ord)
  <2>1. CASE Len(some) = 0  BY <1>1, <2>1
  <2>2. CASE Len(some) # 0
    <3>1. Len(some) \in 1..Len(some)
      BY <1>4, <2>2
    <3>. QED  BY <1>1, <1>4, <1>5, <3>1
  <2>. QED  BY <2>1, <2>2
<1>7. kept = {some[i] : i \in 1..Len(some)}
  <2>1. ASSUME NEW x \in kept  PROVE \E i \in 1..Len(some) : x = some[i]
    <3>1. PICK k \in 1..Len(ord) : x = ord[k]
      BY DEF IsOrder
    <3>2. k \in places
      BY <3>1
    <3>3. PICK i \in 1..Len(some) : at[i] = k
      BY <1>3, <3>2 DEF Lists
    <3>. QED  BY <1>5, <3>1, <3>3
  <2>. QED  BY <1>5, <2>1
<1>8. ASSUME NEW i \in 1..Len(some), NEW j \in 1..Len(some), some[i] = some[j]
      PROVE  i = j
  <2>1. at[i] = at[j]
    BY <1>5, <1>8, SMTT(30) DEF IsOrder
  <2>2. \A k, l \in 1..Len(some) : k < l => at[k] < at[l]
    BY <1>3 DEF Lists
  <2>3. at[i] \in Nat /\ i \in Nat /\ j \in Nat
    BY <1>5
  <2>. QED  BY <2>1, <2>2, <2>3
<1>. QED  BY <1>2, <1>6, <1>7, <1>8 DEF IsOrder, some

(* Products and quotients of natural numbers. *)
LEMMA ProductType ==
  ASSUME NEW a \in Nat, NEW b \in Nat
  PROVE  a * b \in Nat /\ (a # 0 /\ b # 0 => a * b # 0)
  OBVIOUS

(* A quotient of natural numbers is one. *)
LEMMA QuotientType ==
  ASSUME NEW a \in Nat, NEW c \in Nat \ {0}
  PROVE  a \div c \in Nat
  OBVIOUS

(* So is a number of bytes. *)
LEMMA BytesForType ==
  ASSUME NEW r \in Nat, NEW ticks \in Nat
  PROVE  BytesFor(r, ticks) \in Nat
<1>1. r * ticks \in Nat /\ Scale \in Nat \ {0}
  BY ProductType, WindowAssumption
<1>. QED  BY <1>1, QuotientType DEF BytesFor

(* The limiter keeps its type. *)
LEMMA LimiterTyped ==
  /\ \A t \in Nat : FromTarget(t) \in Limiter
  /\ \A lim \in Limiter : Older(lim) \in Limiter
  /\ \A lim \in Limiter, bytes \in Nat : Consume(lim, bytes) \in Limiter
<1>1. ASSUME NEW t \in Nat  PROVE FromTarget(t) \in Limiter
  <2>1. BytesFor(t, Window) \in Nat
    BY BytesForType, WindowAssumption
  <2>. QED  BY <2>1 DEF FromTarget, Limiter, Unset
<1>2. ASSUME NEW lim \in Limiter  PROVE Older(lim) \in Limiter
  BY WindowAssumption DEF Older, Limiter, Unset
<1>3. ASSUME NEW lim \in Limiter, NEW bytes \in Nat  PROVE Consume(lim, bytes) \in Limiter
  <2>1. Roll(lim) \in Limiter
    BY WindowAssumption DEF Roll, Limiter, Unset
  <2>. QED  BY <2>1 DEF Consume, Limiter
<1>. QED  BY <1>1, <1>2, <1>3

---------------------------------------------------------------------------
(* The answers to a NACK *)

AnswerState == [limiter : Limiter, entries : [Stored -> Entry], copies : Seq(Packet)]

(* What a NACK of the numbers T makes of the history: a copy for some of    *)
(* them, none of which had one waiting, and the mark for exactly those.     *)
Sound(T, so) ==
  /\ so \in AnswerState
  /\ \A i \in 1..Len(so.copies) :
       /\ so.copies[i].seq \in T /\ so.copies[i].seq \in Stored
       /\ Eligible(history, so.copies[i].seq)
       /\ so.copies[i] = Copy(history[so.copies[i].seq], so.copies[i].seq)
       /\ so.entries[so.copies[i].seq].pending
  /\ \A i, j \in 1..Len(so.copies) : so.copies[i].seq = so.copies[j].seq => i = j
  /\ \A s \in Stored :
       \/ so.entries[s] = history[s]
       \/ /\ so.entries[s] = [history[s] EXCEPT !.pending = TRUE]
          /\ \E i \in 1..Len(so.copies) : so.copies[i].seq = s

HistoryTyped == Stored \subseteq Seqs /\ history \in [Stored -> Entry]

(* The copy of a stored packet, and its entry once it is marked. *)
LEMMA CopyTyped ==
  ASSUME HistoryTyped, NEW s \in Stored
  PROVE  /\ Copy(history[s], s) \in Packet /\ Copy(history[s], s).seq = s
         /\ history[s].size \in Nat
         /\ [history[s] EXCEPT !.pending = TRUE] \in Entry
         /\ [history[s] EXCEPT !.pending = TRUE].pending
         /\ [history[s] EXCEPT !.pending = TRUE].ttl = history[s].ttl
<1>1. history[s] \in Entry /\ s \in 0..MaxSeq
  BY DEF HistoryTyped, Seqs
<1>2. Audio \in Priority /\ Retransmission \in Priority
  BY DEF Priority, Audio, Retransmission, Video
<1>. QED  BY <1>1, <1>2 DEF Copy, Packet, Entry

(* Answer keeps the type of what it works on. *)
LEMMA AnswerTyped ==
  ASSUME HistoryTyped, NEW so \in AnswerState, NEW g
  PROVE  Answer(so, g) \in AnswerState
<1>0. /\ so.limiter \in Limiter /\ so.entries \in [Stored -> Entry] /\ so.copies \in Seq(Packet)
  BY DEF AnswerState
<1>1. CASE ~Eligible(so.entries, g)
  BY <1>1 DEF Answer
<1>2. CASE Eligible(so.entries, g)
  <2>. DEFINE entry == so.entries[g]
              fits  == Fits(so.limiter, entry.size)
              entries == IF fits THEN [so.entries EXCEPT ![g].pending = TRUE] ELSE so.entries
              copies == IF fits THEN Append(so.copies, Copy(entry, g)) ELSE so.copies
  <2>1. g \in Stored /\ entry \in Entry
    BY <1>0, <1>2 DEF Eligible
  <2>2. Answer(so, g) = [limiter |-> Consume(so.limiter, entry.size),
                         entries |-> entries, copies |-> copies]
    BY <1>2 DEF Answer
  <2>3. Consume(so.limiter, entry.size) \in Limiter
    BY <1>0, <2>1, LimiterTyped DEF Entry
  <2>4. entries \in [Stored -> Entry]
    <3>1. [entry EXCEPT !.pending = TRUE] \in Entry
      BY <2>1 DEF Entry
    <3>. QED  BY <1>0, <2>1, <3>1
  <2>5. Copy(entry, g) \in Packet
    <3>1. g \in 0..MaxSeq
      BY <2>1 DEF HistoryTyped, Seqs
    <3>2. Audio \in Priority /\ Retransmission \in Priority
      BY DEF Priority, Audio, Retransmission, Video
    <3>. QED  BY <2>1, <3>1, <3>2 DEF Copy, Packet, Entry
  <2>6. copies \in Seq(Packet)
    BY <1>0, <2>5, AppendProperties
  <2>. HIDE DEF entry, fits, entries, copies
  <2>. QED  BY <2>2, <2>3, <2>4, <2>6 DEF AnswerState
<1>. QED  BY <1>1, <1>2

(* One more number, which none of the others is, keeps the answers sound. *)
LEMMA AnswerSound ==
  ASSUME HistoryTyped, NEW T, NEW g \in T, NEW so, Sound(T \ {g}, so)
  PROVE  Sound(T, Answer(so, g))
<1>0. /\ so \in AnswerState /\ so.limiter \in Limiter
      /\ so.entries \in [Stored -> Entry] /\ so.copies \in Seq(Packet)
  BY DEF Sound, AnswerState
<1>1. Answer(so, g) \in AnswerState
  BY <1>0, AnswerTyped
<1>2. CASE ~Eligible(so.entries, g)
  BY <1>2 DEF Answer, Sound
<1>3. CASE Eligible(so.entries, g) /\ ~Fits(so.limiter, so.entries[g].size)
  <2>1. Answer(so, g).entries = so.entries /\ Answer(so, g).copies = so.copies
    BY <1>3 DEF Answer
  <2>. QED  BY <1>1, <2>1 DEF Sound
<1>4. CASE Eligible(so.entries, g) /\ Fits(so.limiter, so.entries[g].size)
  <2>1. g \in Stored
    BY <1>0, <1>4 DEF Eligible
  <2>2. so.entries[g] = history[g]
    <3>1. \A i \in 1..Len(so.copies) : so.copies[i].seq # g
      BY DEF Sound
    <3>. QED  BY <2>1, <3>1 DEF Sound
  <2>3. Eligible(history, g)
    BY <1>4, <2>1, <2>2 DEF Eligible, Stored
  <2>. DEFINE copy == Copy(history[g], g)
              copies == Append(so.copies, copy)
              marked == [so.entries EXCEPT ![g].pending = TRUE]
  <2>4. Answer(so, g).entries = marked /\ Answer(so, g).copies = copies
    BY <1>4, <2>2 DEF Answer
  <2>5. copy \in Packet /\ copy.seq = g
    BY <2>1, CopyTyped
  <2>. HIDE DEF copy
  <2>6. /\ Len(so.copies) \in Nat /\ Len(copies) = Len(so.copies) + 1
        /\ \A i \in 1..Len(so.copies) : copies[i] = so.copies[i]
        /\ copies[Len(so.copies) + 1] = copy
    BY <1>0, <2>5, AppendProperties
  <2>7. /\ marked[g] = [history[g] EXCEPT !.pending = TRUE]
        /\ \A s \in Stored : s # g => marked[s] = so.entries[s]
    BY <1>0, <2>1, <2>2
  <2>. HIDE DEF copies, marked
  <2>8. \A i \in 1..Len(so.copies) : copies[i].seq \in T /\ copies[i].seq # g
    <3>1. \A i \in 1..Len(so.copies) : so.copies[i].seq \in T \ {g}
      BY DEF Sound
    <3>. QED  BY <2>6, <3>1
  <2>9. ASSUME NEW i \in 1..Len(copies)
        PROVE  /\ copies[i].seq \in T /\ copies[i].seq \in Stored
               /\ Eligible(history, copies[i].seq)
               /\ copies[i] = Copy(history[copies[i].seq], copies[i].seq)
               /\ marked[copies[i].seq].pending
    <3>1. CASE i \in 1..Len(so.copies)
      BY <2>6, <2>7, <2>8, <3>1 DEF Sound
    <3>2. CASE i = Len(so.copies) + 1
      <4>1. copies[i] = copy /\ copies[i].seq = g
        BY <2>5, <2>6, <3>2
      <4>2. marked[g].pending
        BY <2>1, <2>7, CopyTyped
      <4>. QED  BY <2>1, <2>3, <4>1, <4>2 DEF copy
    <3>. QED  BY <2>6, <3>1, <3>2
  <2>10. ASSUME NEW i \in 1..Len(copies), NEW j \in 1..Len(copies), copies[i].seq = copies[j].seq
         PROVE  i = j
    <3>0. \A k \in 1..Len(copies) : k \in 1..Len(so.copies) \/ k = Len(so.copies) + 1
      BY <2>6
    <3>1. CASE i \in 1..Len(so.copies) /\ j \in 1..Len(so.copies)
      BY <2>6, <2>10, <3>1 DEF Sound
    <3>2. CASE i \in 1..Len(so.copies) /\ j = Len(so.copies) + 1
      BY <2>5, <2>6, <2>8, <2>10, <3>2
    <3>3. CASE i = Len(so.copies) + 1 /\ j \in 1..Len(so.copies)
      BY <2>5, <2>6, <2>8, <2>10, <3>3
    <3>. QED  BY <3>0, <3>1, <3>2, <3>3
  <2>11. ASSUME NEW s \in Stored
         PROVE  \/ marked[s] = history[s]
                \/ /\ marked[s] = [history[s] EXCEPT !.pending = TRUE]
                   /\ \E i \in 1..Len(copies) : copies[i].seq = s
    <3>1. CASE s = g
      <4>1. Len(so.copies) + 1 \in 1..Len(copies)
        BY <2>6
      <4>. QED  BY <2>5, <2>6, <2>7, <3>1, <4>1
    <3>2. CASE s # g
      <4>1. marked[s] = so.entries[s]
        BY <2>7, <3>2
      <4>2. \A i \in 1..Len(so.copies) : i \in 1..Len(copies) /\ copies[i] = so.copies[i]
        BY <2>6
      <4>. QED  BY <4>1, <4>2 DEF Sound
    <3>. QED  BY <3>1, <3>2
  <2>. QED  BY <1>1, <2>4, <2>9, <2>10, <2>11 DEF Sound
<1>. QED  BY <1>2, <1>3, <1>4

(* The answers to a NACK are sound. *)
LEMMA AnswersSound ==
  ASSUME HistoryTyped, limiter \in Limiter, NEW nack \in SUBSET Seqs
  PROVE  Sound(nack, Answers(nack))
<1>. DEFINE base == [limiter |-> limiter, entries |-> history, copies |-> <<>>]
            choice == [T \in SUBSET nack |-> Greatest(T)]
            H == [p \in nack \X AnswerState |-> Answer(p[2], p[1])]
            Eq(f) == f = [seqs \in SUBSET nack |->
                            IF seqs = {} THEN base
                            ELSE Answer(f[seqs \ {Greatest(seqs)}], Greatest(seqs))]
            answered == CHOOSE f : Eq(f)
<1>1. Answers(nack) = answered[nack]
  BY DEF Answers
<1>2. MaxSeq \in Nat /\ IsFiniteSet(nack)
  <2>1. MaxSeq \in Nat
    BY SendPathAssumption
  <2>2. IsFiniteSet(1..MaxSeq)
    BY <2>1, FS_Interval
  <2>. QED  BY <2>1, <2>2, FS_Subset DEF Seqs
<1>3. \A T \in SUBSET nack : T # {} => Greatest(T) \in T
  <2>. SUFFICES ASSUME NEW T \in SUBSET nack, T # {}  PROVE Greatest(T) \in T
    OBVIOUS
  <2>1. T \in SUBSET (0..MaxSeq)
    BY <1>2 DEF Seqs
  <2>. QED  BY <1>2, <2>1, GreatestOf
<1>4. base \in AnswerState
  <2>1. <<>> \in Seq(Packet)
    OBVIOUS
  <2>. QED  BY <2>1 DEF AnswerState, HistoryTyped
<1>5. H \in [nack \X AnswerState -> AnswerState]
  BY AnswerTyped
<1>6. PICK f \in [SUBSET nack -> AnswerState] : Recursive(f, nack, base, choice, H)
  <2>1. \A T \in SUBSET nack : T # {} => choice[T] \in T
    BY <1>3
  <2>. HIDE DEF choice, H, base
  <2>. QED  BY <1>2, <1>4, <1>5, <2>1, RecursionOnSubsets
<1>. HIDE DEF base
<1>7. ASSUME NEW T \in SUBSET nack, T # {}
      PROVE  f[T] = Answer(f[T \ {Greatest(T)}], Greatest(T))
  <2>1. <<choice[T], f[T \ {choice[T]}]>> \in nack \X AnswerState /\ choice[T] = Greatest(T)
    BY <1>3, <1>7
  <2>. QED  BY <2>1, <1>6, <1>7 DEF Recursive
<1>8. Eq(f)
  BY <1>6, <1>7 DEF Recursive
<1>9. Eq(answered)
  <2>. HIDE DEF Eq
  <2>. QED  BY <1>8
<1>. HIDE DEF answered
<1>10. /\ answered[{}] = base
       /\ \A T \in SUBSET nack : T # {} =>
            answered[T] = Answer(answered[T \ {Greatest(T)}], Greatest(T))
  BY <1>9
<1>. DEFINE J == {T \in SUBSET nack : Sound(T, answered[T])}
<1>11. ASSUME NEW T \in SUBSET nack, \A x \in T : T \ {x} \in J  PROVE T \in J
  <2>1. CASE T = {}
    <3>1. base.copies = <<>> /\ base.entries = history /\ Len(<<>>) = 0
      BY DEF base
    <3>2. Sound({}, base)
      BY <1>4, <3>1 DEF Sound
    <3>. QED  BY <1>10, <2>1, <3>2
  <2>2. CASE T # {}
    <3>1. Greatest(T) \in T
      BY <1>3, <2>2
    <3>2. Sound(T \ {Greatest(T)}, answered[T \ {Greatest(T)}])
      BY <1>11, <3>1
    <3>3. Sound(T, Answer(answered[T \ {Greatest(T)}], Greatest(T)))
      BY <3>1, <3>2, AnswerSound
    <3>. QED  BY <1>10, <2>2, <3>3
  <2>. QED  BY <2>1, <2>2
<1>. HIDE DEF J
<1>12. \A T \in SUBSET nack : T \in J
  BY <1>2, <1>11, SubsetInduction
<1>. QED  BY <1>1, <1>12 DEF J

(* The inductive invariant: the queue keeps its promises to the history,    *)
(* no voice packet expires where it waits, and the invariants of the runs.  *)
SendInv ==
  /\ TypeOK
  /\ HistoryConsistent
  /\ history \in [Stored -> Entry]
  /\ QueueAgrees(queue, history, nextSeq)
  /\ ~AccountForAudio => AudioLive(queue)
  /\ AudioNeverWaits

(* The types of the constants. *)
LEMMA ConstantTypes ==
  /\ MaxSeq \in Nat /\ MaxControl \in Nat /\ Ttl \in Nat \ {0} /\ Capacity \in Nat \ {0}
  /\ ControlSize \in Nat /\ PacingFactor \in Nat \ {0} /\ Burst \in Nat /\ MaxDebt \in Nat
  /\ QueueLimit \in Nat \ {0} /\ MaxIdle \in Nat /\ Scale \in Nat \ {0}
  /\ Rtts \subseteq Nat \ {0} /\ Sizes \subseteq Nat \ {0} /\ Targets \subseteq Nat \ {0}
  /\ MaxRtt \in Nat
<1>1. PICK longest \in Rtts : \A sample \in Rtts : sample <= longest
  BY SendPathAssumption
<1>2. MaxRtt \in Rtts
  BY <1>1 DEF MaxRtt, Greatest
<1>3. Rtts \subseteq Nat \ {0}
  BY SendPathAssumption
<1>4. {MaxSeq, MaxControl, Ttl, Capacity, ControlSize, PacingFactor, Burst,
       MaxDebt, QueueLimit, MaxIdle} \subseteq Nat \ {0}
  BY SendPathAssumption
<1>5. /\ MaxSeq \in Nat /\ MaxControl \in Nat /\ Ttl \in Nat \ {0} /\ Capacity \in Nat \ {0}
      /\ ControlSize \in Nat /\ PacingFactor \in Nat \ {0} /\ Burst \in Nat /\ MaxDebt \in Nat
      /\ QueueLimit \in Nat \ {0} /\ MaxIdle \in Nat
  BY <1>4
<1>6. MaxRtt \in Nat
  BY <1>2, <1>3
<1>. QED  BY <1>5, <1>6, SendPathAssumption, WindowAssumption

(* The packets of a bucket have a size, and so has the bucket. *)
LEMMA BytesTyped ==
  ASSUME NEW packets \in Seq(Packet)
  PROVE  Bytes(packets) \in Nat
<1>. DEFINE sizes == [k \in DOMAIN packets |-> packets[k].size]
<1>1. DOMAIN packets = 1..Len(packets) /\ Len(packets) \in Nat
  BY LenProperties
<1>2. IsFiniteSet(DOMAIN packets)
  BY <1>1, FS_Interval
<1>3. \A k \in DOMAIN packets : sizes[k] \in Nat
  <2>1. \A k \in 1..Len(packets) : packets[k] \in Packet
    BY ElementOfSeq
  <2>. QED  BY <1>1, <2>1 DEF Packet
<1>4. Bytes(packets) = SumFunctionOnSet(sizes, DOMAIN packets)
  BY DEF Bytes, SumFunction
<1>. HIDE DEF sizes
<1>. QED  BY <1>2, <1>3, <1>4, SumProperties

(* The debt cap is a number of bytes. *)
LEMMA DebtCapType ==
  ASSUME NEW r \in Nat
  PROVE  DebtCap(r) \in Nat
BY BytesForType, ConstantTypes DEF DebtCap

(* What is left of the debt after the time that has gone by. *)
LEMMA DrainedType ==
  ASSUME WellFormed(queue), rate \in Nat \ {0}, debt \in Nat, idle \in Nat
  PROVE  Drained \in Nat /\ Drained <= debt
<1>1. \A b \in Priority : Bytes(queue[b]) \in Nat
  BY BytesTyped DEF WellFormed
<1>2. QueuedBytes(queue) \in Nat
  <2>1. 0 \in Priority /\ 1 \in Priority /\ 2 \in Priority /\ 3 \in Priority
    BY DEF Priority, Audio, Video
  <2>. QED  BY <1>1, <2>1 DEF QueuedBytes
<1>3. QueuedBytes(queue) * Scale \in Nat
  BY <1>2, ProductType, ConstantTypes
<1>4. (QueuedBytes(queue) * Scale) \div QueueLimit \in Nat
  BY <1>3, QuotientType, ConstantTypes
<1>5. EffectiveRate \in Nat
  BY <1>4 DEF EffectiveRate, AtLeast
<1>6. BytesFor(EffectiveRate, idle) \in Nat
  BY <1>5, BytesForType
<1>. QED  BY <1>6 DEF Drained, AtLeast

(* The invariant in the form the steps use it. *)
LEMMA InvariantParts ==
  ASSUME SendInv
  PROVE  /\ WellFormed(queue) /\ HistoryTyped /\ IsOrder(order, Stored) /\ Len(order) <= Capacity
         /\ nextSeq \in Nat \ {0} /\ limiter \in Limiter /\ rtt \in Nat
         /\ target \in Nat \ {0} /\ rate \in Nat \ {0} /\ idle \in Nat /\ debt \in Nat
         /\ Drained \in Nat /\ Drained <= debt
<1>1. /\ WellFormed(queue) /\ HistoryTyped /\ IsOrder(order, Stored) /\ Len(order) <= Capacity
  BY DEF SendInv, TypeOK, HistoryConsistent, WellFormed, HistoryTyped, IsOrder
<1>2. /\ nextSeq \in Nat \ {0} /\ limiter \in Limiter /\ rtt \in Nat
      /\ target \in Nat \ {0} /\ rate \in Nat \ {0}
  BY ConstantTypes DEF SendInv, TypeOK
<1>3. idle \in Nat /\ debt \in Nat
  <2>1. DebtCap(rate) \in Nat
    BY <1>2, DebtCapType
  <2>. QED  BY <2>1, ConstantTypes DEF SendInv, TypeOK
<1>. QED  BY <1>1, <1>2, <1>3, DrainedType

---------------------------------------------------------------------------
(* The end of a handler *)

(* One or two control packets are packets of no sequence number. *)
LEMMA Controls ==
  ASSUME NEW early \in {<<>>, <<Control>>}, NEW late \in {<<>>, <<Control>>}
  PROVE  /\ early \o late \in Seq(Packet)
         /\ \A i \in 1..Len(early \o late) : (early \o late)[i] = Control
         /\ Control \in Packet /\ Control.seq = NoSeq /\ ~Control.retransmit /\ IsLive(Control)
<1>1. Control \in Packet /\ Control.seq = NoSeq /\ ~Control.retransmit /\ IsLive(Control)
  <2>1. NoSeq \in 0..MaxSeq /\ Feedback \in Priority /\ ControlSize \in Nat
        /\ Ttl \in 0..Ttl /\ Ttl > 0
    BY ConstantTypes DEF NoSeq, Priority, Audio, Feedback, Video
  <2>. QED  BY <2>1 DEF Control, Packet, IsLive
<1>2. ASSUME NEW s \in {<<>>, <<Control>>}
      PROVE  s \in Seq(Packet) /\ Len(s) \in Nat /\ \A i \in 1..Len(s) : s[i] = Control
  <2>1. CASE s = <<>>  BY <2>1
  <2>2. CASE s = <<Control>>
    <3>1. <<Control>> \in Seq(Packet) /\ Len(<<Control>>) = 1 /\ <<Control>>[1] = Control
      BY <1>1
    <3>. QED  BY <2>2, <3>1
  <2>. QED  BY <2>1, <2>2
<1>3. /\ early \o late \in Seq(Packet) /\ Len(early \o late) = Len(early) + Len(late)
      /\ \A i \in 1..(Len(early) + Len(late)) :
           (early \o late)[i] = IF i <= Len(early) THEN early[i] ELSE late[i - Len(early)]
  <2>1. early \in Seq(Packet) /\ late \in Seq(Packet)
    BY <1>2
  <2>. QED  BY <2>1, ConcatProperties
<1>4. ASSUME NEW i \in 1..Len(early \o late)  PROVE (early \o late)[i] = Control
  <2>0. Len(early) \in Nat /\ Len(late) \in Nat
    BY <1>2
  <2>1. CASE i <= Len(early)
    <3>1. i \in 1..Len(early)
      BY <1>3, <2>0, <2>1
    <3>. QED  BY <1>2, <1>3, <2>1, <3>1
  <2>2. CASE ~(i <= Len(early))
    <3>1. i - Len(early) \in 1..Len(late)
      BY <1>3, <2>0, <2>2
    <3>. QED  BY <1>2, <1>3, <2>2, <3>1
  <2>. QED  BY <2>1, <2>2
<1>. QED  BY <1>1, <1>3, <1>4

(* Whatever the handler has made of the queue, the history, the rate and    *)
(* the debt, the end of the handler keeps what the invariant says of them.  *)
LEMMA FinishKeeps ==
  ASSUME SendInv, NEW q, NEW entries, NEW t \in Nat \ {0}, NEW r \in Nat \ {0},
         NEW d \in 0..DebtCap(r), NEW n \in Nat \ {0}, Finish(q, entries, t, r, d),
         WellFormed(q), QueueAgrees(q, entries, n), AudioLive(queue) => AudioLive(q),
         DOMAIN entries = Stored, \A s \in Stored : entries[s] \in Entry
  PROVE  /\ WellFormed(queue') /\ QueueAgrees(queue', history', n)
         /\ AudioLive(queue) => AudioLive(queue')
         /\ history' \in [Stored' -> Entry] /\ Stored' \subseteq Seqs
         /\ IsOrder(order', Stored') /\ Len(order') <= Capacity
         /\ rate' \in Nat \ {0} /\ debt' \in 0..DebtCap(rate')
         /\ idle' = idle /\ phase' = "draining"
<1>. DEFINE kept == {s \in Stored : entries[s].ttl > 0}
<1>1. PICK early \in {<<>>, <<Control>>}, late \in {<<>>, <<Control>>} :
        /\ queue' = Enqueue(q, early \o late)
        /\ \/ rate' = r /\ debt' = d
           \/ rate' = AtLeast(2 * t, r) /\ debt' = AtMost(d, DebtCap(rate'))
  BY DEF Finish
<1>2. /\ early \o late \in Seq(Packet)
      /\ \A i \in 1..Len(early \o late) : (early \o late)[i] = Control
      /\ Control.seq = NoSeq /\ ~Control.retransmit /\ IsLive(Control)
  BY Controls
<1>3. Joins(early \o late, q, entries, entries, n)
  <2>. DEFINE more == early \o late
  <2>1. NoSeq \notin DOMAIN entries /\ NoSeq < n
    BY DEF QueueAgrees, Seqs, NoSeq
  <2>2. PacketAgrees(Control, entries, n)
    BY <1>2, <2>1 DEF PacketAgrees
  <2>. HIDE DEF more
  <2>3. \A i \in 1..Len(more) : PacketAgrees(more[i], entries, n) /\ IsLive(more[i])
                                /\ more[i].seq = NoSeq
    BY <1>2, <2>2 DEF more
  <2>4. Joins(more, q, entries, entries, n)
    BY <2>3 DEF Joins
  <2>. QED  BY <2>4 DEF more
<1>4. /\ WellFormed(queue') /\ QueueAgrees(queue', entries, n)
      /\ AudioLive(queue) => AudioLive(queue')
  <2>1. n \in Nat /\ n <= n
    OBVIOUS
  <2>. QED  BY <1>1, <1>2, <1>3, <2>1, EnqueueAgrees
<1>5. history' = [s \in kept |-> entries[s]]
  BY DEF Finish
<1>6. /\ DOMAIN history' = kept /\ kept \subseteq Stored
      /\ \A s \in kept : history'[s] = entries[s] /\ s \in DOMAIN entries
  BY <1>5
<1>7. QueueAgrees(queue', history', n)
  <2>. HIDE DEF kept
  <2>1. \A b \in Priority : \A k \in 1..Len(queue'[b]) : PacketAgrees(queue'[b][k], history', n)
    BY <1>4, <1>6 DEF QueueAgrees, PacketAgrees
  <2>2. \A s \in DOMAIN history' : EntryAgrees(queue', history', n, s)
    BY <1>4, <1>6 DEF QueueAgrees, EntryAgrees
  <2>. QED  BY <1>4, <1>6, <2>1, <2>2 DEF QueueAgrees
<1>8. history' \in [Stored' -> Entry] /\ Stored' \subseteq Seqs
  <2>1. Stored' = kept
    BY <1>6 DEF Stored
  <2>2. Stored \subseteq Seqs
    BY DEF QueueAgrees
  <2>. QED  BY <1>5, <1>6, <2>1, <2>2
<1>9. IsOrder(order', Stored') /\ Len(order') <= Capacity
  <2>1. IsOrder(order, Stored) /\ Len(order) <= Capacity
    BY InvariantParts
  <2>2. order' = Picked(order, {k \in 1..Len(order) : entries[order[k]].ttl > 0})
    BY DEF Finish
  <2>3. {k \in 1..Len(order) : entries[order[k]].ttl > 0} =
        {k \in 1..Len(order) : order[k] \in kept}
    BY <2>1 DEF IsOrder
  <2>4. Stored' = kept /\ kept \in SUBSET Stored
    BY <1>6 DEF Stored
  <2>. HIDE DEF kept
  <2>5. IsOrder(order', kept) /\ Len(order') <= Len(order)
    BY <2>1, <2>2, <2>3, <2>4, OrderPicked
  <2>6. Len(order) \in Nat /\ Len(order') \in Nat
    BY <2>1, <2>5, LenProperties DEF IsOrder
  <2>. QED  BY <2>1, <2>4, <2>5, <2>6, ConstantTypes
<1>10. rate' \in Nat \ {0} /\ debt' \in 0..DebtCap(rate')
  <2>1. DebtCap(r) \in Nat
    BY DebtCapType
  <2>2. CASE rate' = r /\ debt' = d
    BY <2>2
  <2>3. CASE rate' = AtLeast(2 * t, r) /\ debt' = AtMost(d, DebtCap(rate'))
    <3>1. rate' \in Nat \ {0}
      BY <2>3 DEF AtLeast
    <3>2. DebtCap(rate') \in Nat
      BY <3>1, DebtCapType
    <3>. QED  BY <2>1, <2>3, <3>1, <3>2 DEF AtMost
  <2>. QED  BY <1>1, <2>2, <2>3
<1>. QED  BY <1>4, <1>7, <1>8, <1>9, <1>10 DEF Finish

(* What FinishKeeps proves makes the invariant, with the variables it does  *)
(* not mention.                                                             *)
LEMMA InvariantAfterFinish ==
  ASSUME SendInv,
         WellFormed(queue'), QueueAgrees(queue', history', nextSeq'),
         AudioLive(queue) => AudioLive(queue'),
         history' \in [Stored' -> Entry], Stored' \subseteq Seqs,
         IsOrder(order', Stored'), Len(order') <= Capacity,
         rate' \in Nat \ {0}, debt' \in 0..DebtCap(rate'),
         idle' = idle, phase' = "draining",
         target' \in Targets, rtt' \in Rtts, limiter' \in Limiter, nextSeq' \in 1..(MaxSeq + 1)
  PROVE  SendInv'
<1>1. TypeOK'
  BY DEF SendInv, TypeOK, WellFormed, IsOrder
<1>2. HistoryConsistent'
  BY DEF IsOrder, HistoryConsistent
<1>3. AudioNeverWaits'
  BY DEF AudioNeverWaits
<1>. QED  BY <1>1, <1>2, <1>3 DEF SendInv

(* A frame: count packets with the next sequence numbers. *)
LEMMA PushFrameKeeps ==
  ASSUME SendInv, PushFrame
  PROVE  SendInv'
<1>. DEFINE frame(priority, size, count) ==
              [k \in 1..count |-> [seq |-> nextSeq + k - 1, priority |-> priority, size |-> size,
                                   ttl |-> Ttl, retransmit |-> FALSE]]
<1>1. PICK priority \in {Audio, Video}, size \in Sizes, count \in 1..2 :
        /\ nextSeq + count - 1 <= MaxSeq
        /\ nextSeq' = nextSeq + count
        /\ Finish(Enqueue(queue, frame(priority, size, count)), history, target, rate, debt)
        /\ UNCHANGED <<target, limiter, rtt>>
  BY DEF PushFrame
<1>. DEFINE packets == frame(priority, size, count)  n == nextSeq + count
<1>2. /\ WellFormed(queue) /\ HistoryTyped /\ nextSeq \in Nat \ {0} /\ limiter \in Limiter
      /\ target \in Nat \ {0} /\ rate \in Nat \ {0} /\ debt \in 0..DebtCap(rate)
  BY InvariantParts DEF SendInv, TypeOK
<1>3. n \in Nat \ {0} /\ nextSeq <= n /\ n <= MaxSeq + 1 /\ nextSeq \in Nat
  BY <1>1, <1>2, ConstantTypes
<1>4. ASSUME NEW k \in 1..count
      PROVE  /\ packets[k] \in Packet /\ packets[k].seq = nextSeq + k - 1
             /\ packets[k].seq \in Nat /\ packets[k].seq # NoSeq
             /\ packets[k].seq < n /\ ~(packets[k].seq < nextSeq)
             /\ ~packets[k].retransmit /\ IsLive(packets[k])
  <2>1. packets[k] = [seq |-> nextSeq + k - 1, priority |-> priority, size |-> size,
                      ttl |-> Ttl, retransmit |-> FALSE]
    OBVIOUS
  <2>2. /\ nextSeq + k - 1 \in 0..MaxSeq /\ nextSeq + k - 1 # 0
        /\ nextSeq + k - 1 < n /\ ~(nextSeq + k - 1 < nextSeq)
    BY <1>1, <1>2, ConstantTypes
  <2>3. priority \in Priority /\ size \in Nat /\ Ttl \in 0..Ttl /\ Ttl > 0
    BY ConstantTypes DEF Priority, Audio, Video
  <2>. HIDE DEF packets, n
  <2>. QED  BY <2>1, <2>2, <2>3 DEF Packet, IsLive, NoSeq
<1>5. packets \in Seq(Packet) /\ Len(packets) = count
  <2>1. packets \in [1..count -> Packet] /\ count \in Nat
    BY <1>4
  <2>. HIDE DEF packets
  <2>. QED  BY <2>1
<1>. HIDE DEF packets
<1>6. QueueAgrees(queue, history, nextSeq)
  BY DEF SendInv
<1>7. \A s \in Stored : s < nextSeq
  BY <1>6 DEF QueueAgrees, EntryAgrees, Stored
<1>8. ASSUME NEW s, Waits(queue, s)  PROVE s < nextSeq
  <2>1. PICK b \in Priority : \E k \in 1..Len(queue[b]) : queue[b][k].seq = s
    BY <1>8 DEF Waits
  <2>. QED  BY <1>6, <2>1 DEF QueueAgrees, PacketAgrees
<1>9. Joins(packets, queue, history, history, n)
  <2>1. \A i \in 1..Len(packets) : PacketAgrees(packets[i], history, n) /\ IsLive(packets[i])
    <3>. HIDE DEF n
    <3>. QED  BY <1>4, <1>5, <1>7 DEF PacketAgrees, Stored
  <2>2. \A i, j \in 1..Len(packets) : packets[i].seq = packets[j].seq => i = j
    BY <1>2, <1>4, <1>5
  <2>3. \A i \in 1..Len(packets) : ~Waits(queue, packets[i].seq)
    BY <1>4, <1>5, <1>8
  <2>4. \A s \in DOMAIN history : history[s] \in Entry
    BY <1>2 DEF HistoryTyped, Stored
  <2>. QED  BY <2>1, <2>2, <2>3, <2>4 DEF Joins
<1>10. /\ WellFormed(Enqueue(queue, packets))
       /\ QueueAgrees(Enqueue(queue, packets), history, n)
       /\ AudioLive(queue) => AudioLive(Enqueue(queue, packets))
  <2>. HIDE DEF n
  <2>. QED  BY <1>2, <1>3, <1>5, <1>6, <1>9, EnqueueAgrees
<1>11. Finish(Enqueue(queue, packets), history, target, rate, debt)
  BY <1>1 DEF packets
<1>12. \A s \in Stored : history[s] \in Entry
  BY <1>2 DEF HistoryTyped
<1>13. nextSeq' = n
  BY <1>1
<1>14. target' \in Targets /\ rtt' \in Rtts /\ limiter' \in Limiter /\ nextSeq' \in 1..(MaxSeq + 1)
  BY <1>1, <1>2, <1>3 DEF SendInv, TypeOK
<1>. HIDE DEF n
<1>15. /\ WellFormed(queue') /\ QueueAgrees(queue', history', n)
       /\ AudioLive(queue) => AudioLive(queue')
       /\ history' \in [Stored' -> Entry] /\ Stored' \subseteq Seqs
       /\ IsOrder(order', Stored') /\ Len(order') <= Capacity
       /\ rate' \in Nat \ {0} /\ debt' \in 0..DebtCap(rate')
       /\ idle' = idle /\ phase' = "draining"
  BY <1>2, <1>3, <1>10, <1>11, <1>12, FinishKeeps DEF Stored
<1>. QED  BY <1>13, <1>14, <1>15, InvariantAfterFinish

(* A NACK: a copy of what it names and the history can still give. *)
LEMMA OnNackKeeps ==
  ASSUME SendInv, OnNack
  PROVE  SendInv'
<1>1. PICK nack \in SUBSET Seqs \ {{}} :
        /\ Finish(Enqueue(queue, Answers(nack).copies), Answers(nack).entries,
                  target, rate, debt)
        /\ limiter' = Answers(nack).limiter
        /\ UNCHANGED <<target, rtt, nextSeq>>
  BY DEF OnNack
<1>. DEFINE so == Answers(nack)
<1>2. /\ WellFormed(queue) /\ HistoryTyped /\ nextSeq \in Nat \ {0} /\ limiter \in Limiter
      /\ target \in Nat \ {0} /\ rate \in Nat \ {0} /\ debt \in 0..DebtCap(rate)
  BY InvariantParts DEF SendInv, TypeOK
<1>3. Sound(nack, so)
  BY <1>2, AnswersSound
<1>. HIDE DEF so
<1>4. so.limiter \in Limiter /\ so.entries \in [Stored -> Entry] /\ so.copies \in Seq(Packet)
  BY <1>3 DEF Sound, AnswerState
<1>5. /\ QueueAgrees(queue, history, nextSeq)
      /\ \A s \in Stored : EntryAgrees(queue, history, nextSeq, s)
  BY DEF SendInv, QueueAgrees, Stored
<1>6. ASSUME NEW s \in Stored
      PROVE  /\ so.entries[s] \in Entry /\ so.entries[s].ttl = history[s].ttl
             /\ history[s].pending => so.entries[s].pending
             /\ so.entries[s].pending =>
                  history[s].pending \/ \E i \in 1..Len(so.copies) : so.copies[i].seq = s
  <2>1. /\ [history[s] EXCEPT !.pending = TRUE].pending
        /\ [history[s] EXCEPT !.pending = TRUE].ttl = history[s].ttl
    BY <1>2, CopyTyped
  <2>. QED  BY <1>3, <1>4, <2>1 DEF Sound
<1>7. ASSUME NEW i \in 1..Len(so.copies)
      PROVE  /\ PacketAgrees(so.copies[i], so.entries, nextSeq) /\ IsLive(so.copies[i])
             /\ ~Waits(queue, so.copies[i].seq)
  <2>. DEFINE s == so.copies[i].seq
  <2>1. /\ s \in Stored /\ Eligible(history, s) /\ so.copies[i] = Copy(history[s], s)
        /\ so.entries[s].pending
    BY <1>3 DEF Sound
  <2>. HIDE DEF s
  <2>2. so.copies[i].seq = s /\ so.copies[i].retransmit /\ so.copies[i].ttl = history[s].ttl
    BY <2>1 DEF Copy
  <2>3. history[s].ttl > 0 /\ ~history[s].pending
    BY <2>1 DEF Eligible
  <2>4. s < nextSeq /\ s # NoSeq
    BY <1>2, <1>5, <2>1 DEF EntryAgrees, HistoryTyped, Seqs, NoSeq
  <2>5. ~Waits(queue, s)
    <3>1. ASSUME NEW b \in Priority, NEW k \in 1..Len(queue[b]), queue[b][k].seq = s
          PROVE  FALSE
      BY <1>5, <2>1, <2>3, <3>1 DEF QueueAgrees, PacketAgrees, Stored
    <3>. QED  BY <3>1 DEF Waits
  <2>6. so.entries[s].ttl = history[s].ttl
    BY <1>6, <2>1
  <2>. QED  BY <2>1, <2>2, <2>3, <2>4, <2>5, <2>6 DEF PacketAgrees, IsLive
<1>8. Joins(so.copies, queue, history, so.entries, nextSeq)
  <2>1. DOMAIN so.entries = DOMAIN history
    BY <1>4 DEF Stored
  <2>2. \A i, j \in 1..Len(so.copies) : so.copies[i].seq = so.copies[j].seq => i = j
    BY <1>3 DEF Sound
  <2>. QED  BY <1>6, <1>7, <2>1, <2>2 DEF Joins, Stored
<1>9. /\ WellFormed(Enqueue(queue, so.copies))
      /\ QueueAgrees(Enqueue(queue, so.copies), so.entries, nextSeq)
      /\ AudioLive(queue) => AudioLive(Enqueue(queue, so.copies))
  <2>1. nextSeq \in Nat /\ nextSeq <= nextSeq
    BY <1>2
  <2>. QED  BY <1>2, <1>4, <1>5, <1>8, <2>1, EnqueueAgrees
<1>10. Finish(Enqueue(queue, so.copies), so.entries, target, rate, debt)
  BY <1>1 DEF so
<1>11. DOMAIN so.entries = Stored /\ \A s \in Stored : so.entries[s] \in Entry
  BY <1>4
<1>12. /\ target' \in Targets /\ rtt' \in Rtts /\ limiter' \in Limiter
       /\ nextSeq' \in 1..(MaxSeq + 1) /\ nextSeq' = nextSeq
  BY <1>1, <1>4 DEF SendInv, TypeOK, so
<1>13. /\ WellFormed(queue') /\ QueueAgrees(queue', history', nextSeq)
       /\ AudioLive(queue) => AudioLive(queue')
       /\ history' \in [Stored' -> Entry] /\ Stored' \subseteq Seqs
       /\ IsOrder(order', Stored') /\ Len(order') <= Capacity
       /\ rate' \in Nat \ {0} /\ debt' \in 0..DebtCap(rate')
       /\ idle' = idle /\ phase' = "draining"
  BY <1>2, <1>9, <1>10, <1>11, FinishKeeps
<1>. QED  BY <1>12, <1>13, InvariantAfterFinish

(* A handler that leaves queue and history to the end of the handler. *)
LEMMA PlainFinishKeeps ==
  ASSUME SendInv, NEW t \in Nat \ {0}, NEW r \in Nat \ {0}, NEW d \in 0..DebtCap(r),
         Finish(queue, history, t, r, d), nextSeq' = nextSeq,
         target' \in Targets, rtt' \in Rtts, limiter' \in Limiter
  PROVE  SendInv'
<1>1. /\ WellFormed(queue) /\ HistoryTyped /\ nextSeq \in Nat \ {0}
      /\ QueueAgrees(queue, history, nextSeq) /\ nextSeq \in 1..(MaxSeq + 1)
  BY InvariantParts DEF SendInv, TypeOK
<1>2. DOMAIN history = Stored /\ \A s \in Stored : history[s] \in Entry
  BY <1>1 DEF HistoryTyped, Stored
<1>3. /\ WellFormed(queue') /\ QueueAgrees(queue', history', nextSeq)
      /\ AudioLive(queue) => AudioLive(queue')
      /\ history' \in [Stored' -> Entry] /\ Stored' \subseteq Seqs
      /\ IsOrder(order', Stored') /\ Len(order') <= Capacity
      /\ rate' \in Nat \ {0} /\ debt' \in 0..DebtCap(rate')
      /\ idle' = idle /\ phase' = "draining"
  BY <1>1, <1>2, FinishKeeps
<1>. QED  BY <1>1, <1>3, InvariantAfterFinish

(* An arrival report, a round trip sample and a tick. *)
LEMMA ReportsKeep ==
  ASSUME SendInv, OnReport \/ OnRttSample \/ Tick
  PROVE  SendInv'
<1>1. /\ target \in Nat \ {0} /\ rate \in Nat \ {0} /\ debt \in 0..DebtCap(rate) /\ debt \in Nat
      /\ target \in Targets /\ rtt \in Rtts /\ limiter \in Limiter
  BY InvariantParts DEF SendInv, TypeOK
<1>2. CASE OnReport
  <2>1. PICK next \in Targets, sample \in Rtts :
          /\ Finish(queue, history, next, next * PacingFactor,
                    AtMost(debt, DebtCap(next * PacingFactor)))
          /\ target' = next /\ rtt' = sample /\ limiter' = FromTarget(next)
          /\ UNCHANGED nextSeq
    BY <1>2 DEF OnReport
  <2>. DEFINE paced == next * PacingFactor
  <2>2. next \in Nat \ {0} /\ paced \in Nat \ {0}
    BY ProductType, ConstantTypes
  <2>. HIDE DEF paced
  <2>3. DebtCap(paced) \in Nat
    BY <2>2, DebtCapType
  <2>4. AtMost(debt, DebtCap(paced)) \in 0..DebtCap(paced)
    BY <1>1, <2>3 DEF AtMost
  <2>5. FromTarget(next) \in Limiter
    BY <2>2, LimiterTyped
  <2>6. Finish(queue, history, next, paced, AtMost(debt, DebtCap(paced)))
    BY <2>1 DEF paced
  <2>. QED  BY <2>1, <2>2, <2>4, <2>5, <2>6, PlainFinishKeeps
<1>3. CASE OnRttSample
  <2>1. PICK sample \in Rtts :
          /\ Finish(queue, history, target, rate, debt)
          /\ rtt' = sample
          /\ UNCHANGED <<target, limiter, nextSeq>>
    BY <1>3 DEF OnRttSample
  <2>. QED  BY <1>1, <2>1, PlainFinishKeeps
<1>4. CASE Tick
  BY <1>1, <1>4, PlainFinishKeeps DEF Tick
<1>. QED  BY <1>2, <1>3, <1>4

---------------------------------------------------------------------------
(* The drain *)

(* A packet that leaves changes its own entry only, and an original becomes *)
(* the newest of the history, at the cost of the oldest when it is full.    *)
LEMMA DepartsKeeps ==
  ASSUME SendInv, CanPop(queue), Departs(Popped(queue))
  PROVE  /\ Sent(queue, history, history', nextSeq)
         /\ history' \in [Stored' -> Entry] /\ Stored' \subseteq Seqs
         /\ IsOrder(order', Stored') /\ Len(order') <= Capacity
<1>. DEFINE packet == Popped(queue)
<1>1. /\ WellFormed(queue) /\ HistoryTyped /\ IsOrder(order, Stored) /\ Len(order) <= Capacity
      /\ nextSeq \in Nat \ {0} /\ Len(order) \in Nat
  BY InvariantParts, LenProperties DEF IsOrder
<1>2. /\ PopBucket(queue) \in Priority /\ PopIndex(queue) \in 1..Len(queue[PopBucket(queue)])
      /\ packet = queue[PopBucket(queue)][PopIndex(queue)] /\ packet \in Packet
  BY <1>1, PopTakesLive DEF Popped
<1>3. PacketAgrees(packet, history, nextSeq)
  BY <1>2 DEF SendInv, QueueAgrees
<1>4. history \in [Stored -> Entry] /\ Stored \subseteq Seqs /\ NoSeq \notin Stored
  BY <1>1 DEF HistoryTyped, Seqs, NoSeq
<1>5. packet.seq < nextSeq /\ packet.seq \in 0..MaxSeq
  BY <1>2, <1>3 DEF PacketAgrees, Packet
<1>. HIDE DEF packet
<1>6. CASE packet.seq = NoSeq
  <2>1. history' = history /\ order' = order
    BY <1>6 DEF Departs, packet
  <2>2. Stored' = Stored
    BY <2>1 DEF Stored
  <2>. QED  BY <1>1, <1>4, <1>6, <2>1, <2>2 DEF Sent, packet, Stored
<1>7. CASE packet.seq # NoSeq /\ packet.retransmit
  <2>1. /\ history' = [s \in Stored |->
                        IF s = packet.seq THEN [history[s] EXCEPT !.pending = FALSE, !.age = 0]
                        ELSE history[s]]
        /\ order' = order
    BY <1>7 DEF Departs, MarkSent, packet
  <2>2. Stored' = Stored
    BY <2>1 DEF Stored
  <2>3. ASSUME NEW s \in Stored
        PROVE  /\ [history[s] EXCEPT !.pending = FALSE, !.age = 0] \in Entry
               /\ ~[history[s] EXCEPT !.pending = FALSE, !.age = 0].pending
    <3>1. history[s] \in Entry /\ 0 \in 0..MaxRtt
      BY <1>4, ConstantTypes
    <3>. QED  BY <3>1 DEF Entry
  <2>4. history' \in [Stored -> Entry]
    BY <1>4, <2>1, <2>3
  <2>5. ASSUME NEW s \in Stored
        PROVE  \/ s \in DOMAIN history /\ history'[s] = history[s] /\ s # packet.seq
               \/ /\ s = packet.seq /\ s # NoSeq /\ s < nextSeq
                  /\ history'[s] \in Entry /\ ~history'[s].pending
    BY <1>4, <1>5, <1>7, <2>1, <2>3
  <2>6. DOMAIN history' = Stored
    BY <2>1
  <2>. QED  BY <1>1, <1>4, <2>1, <2>2, <2>4, <2>5, <2>6 DEF Sent, packet
<1>8. CASE packet.seq # NoSeq /\ ~packet.retransmit
  <2>. DEFINE full == Len(order) >= Capacity
              kept == IF full THEN Without(Head(order)) ELSE history
              left == IF full THEN Tail(order) ELSE order
              entry == [audio |-> packet.priority = Audio, size |-> packet.size,
                        ttl |-> packet.ttl, age |-> 0, pending |-> FALSE]
  <2>1. packet.seq \notin Stored
    BY <1>3, <1>8 DEF PacketAgrees, Stored
  <2>2. Put(packet)
    BY <1>8 DEF Departs, packet
  <2>3. /\ history' = [s \in DOMAIN kept \union {packet.seq} |->
                        IF s = packet.seq THEN entry ELSE kept[s]]
        /\ order' = Append(left, packet.seq)
    BY <2>1, <2>2 DEF Put
  <2>4. entry \in Entry /\ ~entry.pending
    <3>1. 0 \in 0..MaxRtt
      BY ConstantTypes
    <3>. QED  BY <1>2, <3>1 DEF Entry, Packet
  <2>5. /\ DOMAIN kept \subseteq Stored /\ \A s \in DOMAIN kept : kept[s] = history[s]
        /\ IsOrder(left, DOMAIN kept) /\ Len(left) + 1 <= Capacity
    <3>1. CASE full
      <4>1. order # <<>>
        <5>1. Len(order) > 0
          BY <1>1, <3>1, ConstantTypes
        <5>. QED  BY <5>1
      <4>2. /\ IsOrder(Tail(order), Stored \ {Head(order)}) /\ Len(Tail(order)) = Len(order) - 1
        BY <1>1, <4>1, OrderTail
      <4>3. kept = [s \in Stored \ {Head(order)} |-> history[s]] /\ left = Tail(order)
        BY <3>1 DEF Without
      <4>4. DOMAIN kept = Stored \ {Head(order)} /\ \A s \in DOMAIN kept : kept[s] = history[s]
        BY <4>3
      <4>5. Len(left) + 1 <= Capacity
        BY <1>1, <4>2, <4>3, ConstantTypes
      <4>6. IsOrder(left, DOMAIN kept)
        BY <4>2, <4>3, <4>4
      <4>. QED  BY <4>4, <4>5, <4>6
    <3>2. CASE ~full
      <4>1. kept = history /\ left = order
        BY <3>2
      <4>2. Len(left) + 1 <= Capacity
        BY <1>1, <3>2, <4>1, ConstantTypes
      <4>. QED  BY <1>1, <4>1, <4>2 DEF Stored
    <3>. QED  BY <3>1, <3>2
  <2>. HIDE DEF kept, left, entry
  <2>6. packet.seq \in Seqs /\ packet.seq \notin DOMAIN kept
    BY <1>5, <1>8, <2>1, <2>5 DEF Seqs, NoSeq
  <2>7. Stored' = DOMAIN kept \union {packet.seq}
    BY <2>3 DEF Stored
  <2>8. IsOrder(order', Stored') /\ Len(order') <= Capacity
    BY <2>3, <2>5, <2>6, <2>7, OrderAppend
  <2>9. history' \in [Stored' -> Entry] /\ Stored' \subseteq Seqs
    BY <1>4, <2>3, <2>4, <2>5, <2>6, <2>7
  <2>10. ASSUME NEW s \in DOMAIN history'
         PROVE  \/ s \in DOMAIN history /\ history'[s] = history[s] /\ s # packet.seq
                \/ /\ s = packet.seq /\ s # NoSeq /\ s < nextSeq
                   /\ history'[s] \in Entry /\ ~history'[s].pending
    BY <1>5, <1>8, <2>3, <2>4, <2>5, <2>6 DEF Stored
  <2>. QED  BY <2>8, <2>9, <2>10 DEF Sent, packet
<1>. QED  BY <1>6, <1>7, <1>8

(* One turn of the drain. *)
LEMMA PollKeeps ==
  ASSUME SendInv, Poll
  PROVE  SendInv'
<1>1. /\ WellFormed(queue) /\ rate \in Nat \ {0} /\ debt \in Nat /\ nextSeq \in Nat
      /\ Drained \in Nat /\ Drained <= debt
      /\ QueueAgrees(queue, history, nextSeq) /\ debt \in 0..DebtCap(rate)
  BY InvariantParts DEF SendInv, TypeOK
<1>2. /\ CanPop(queue) /\ queue' = AfterPop(queue) /\ Departs(Popped(queue))
      /\ debt' = Charged(Popped(queue).size) \/ debt' = Drained
      /\ idle' = 0 /\ phase' = "draining"
      /\ UNCHANGED <<rate, target, limiter, rtt, nextSeq>>
  BY DEF Poll
<1>3. /\ Sent(queue, history, history', nextSeq)
      /\ history' \in [Stored' -> Entry] /\ Stored' \subseteq Seqs
      /\ IsOrder(order', Stored') /\ Len(order') <= Capacity
  BY <1>2, DepartsKeeps
<1>4. /\ WellFormed(queue') /\ QueueAgrees(queue', history', nextSeq)
      /\ AudioLive(queue) => AudioLive(queue')
  <2>1. DOMAIN history' \subseteq Seqs
    BY <1>3 DEF Stored
  <2>. QED  BY <1>1, <1>2, <1>3, <2>1, PopPlaces, PopAgrees
<1>5. debt' \in 0..DebtCap(rate)
  <2>1. DebtCap(rate) \in Nat
    BY <1>1, DebtCapType
  <2>2. Popped(queue).size \in Nat
    BY <1>1, <1>2, PopTakesLive DEF Packet
  <2>. QED  BY <1>1, <1>2, <2>1, <2>2 DEF Charged, AtMost
<1>6. TypeOK'
  BY <1>2, <1>3, <1>4, <1>5, ConstantTypes DEF SendInv, TypeOK, WellFormed, IsOrder
<1>7. HistoryConsistent' /\ AudioNeverWaits'
  BY <1>2, <1>3 DEF IsOrder, HistoryConsistent, AudioNeverWaits
<1>. QED  BY <1>2, <1>3, <1>4, <1>6, <1>7 DEF SendInv

(* No voice packet is left when the drain ends: as long as one waits the    *)
(* fast path is open, and there is a packet to pop.                         *)
LEMMA PollNothingKeeps ==
  ASSUME SendInv, PollNothing
  PROVE  SendInv'
<1>1. /\ WellFormed(queue) /\ rate \in Nat \ {0} /\ debt \in Nat /\ nextSeq \in Nat
      /\ Drained \in Nat /\ Drained <= debt /\ HistoryTyped
      /\ IsOrder(order, Stored) /\ Len(order) <= Capacity
      /\ QueueAgrees(queue, history, nextSeq) /\ debt \in 0..DebtCap(rate)
  BY InvariantParts DEF SendInv, TypeOK
<1>2. /\ IF Unpaced \/ CanSendPaced
         THEN ~CanPop(queue) /\ queue' = AfterPop(queue)
         ELSE UNCHANGED queue
      /\ debt' = Drained /\ idle' = 0 /\ phase' = "ready"
      /\ UNCHANGED <<rate, target, historyVars, nextSeq>>
  BY DEF PollNothing
<1>3. history' = history /\ order' = order /\ limiter' = limiter /\ rtt' = rtt /\ Stored' = Stored
  BY <1>2 DEF historyVars, Stored
<1>4. /\ Audio \in Priority /\ idle' \in 0..MaxIdle
      /\ debt' \in 0..DebtCap(rate')
  <2>1. DebtCap(rate) \in Nat /\ rate' = rate
    BY <1>1, <1>2, DebtCapType
  <2>2. debt' \in 0..DebtCap(rate')
    BY <1>1, <1>2, <2>1
  <2>. QED  BY <1>2, <2>2, ConstantTypes DEF Priority, Audio, Video
<1>5. CASE ~CanPop(queue) /\ queue' = AfterPop(queue)
  <2>1. Sent(queue, history, history, nextSeq) /\ DOMAIN history \subseteq Seqs
    BY <1>1, <1>5 DEF Sent, HistoryTyped, Stored
  <2>2. /\ WellFormed(queue') /\ QueueAgrees(queue', history, nextSeq)
        /\ AudioLive(queue) => AudioLive(queue')
    BY <1>1, <1>5, <2>1, PopPlaces, PopAgrees
  <2>3. queue'[Audio] = <<>>
    BY <1>4, <1>5 DEF AfterPop
  <2>4. TypeOK'
    BY <1>1, <1>2, <1>3, <1>4, <2>2 DEF SendInv, TypeOK, WellFormed
  <2>5. HistoryConsistent' /\ AudioNeverWaits'
    BY <1>3, <2>3 DEF SendInv, HistoryConsistent, AudioNeverWaits
  <2>. QED  BY <1>2, <1>3, <2>2, <2>4, <2>5 DEF SendInv
<1>6. CASE ~Unpaced /\ UNCHANGED queue
  <2>1. ~AccountForAudio => queue'[Audio] = <<>>
    BY <1>6 DEF Unpaced
  <2>2. TypeOK'
    BY <1>1, <1>2, <1>3, <1>4, <1>6 DEF SendInv, TypeOK
  <2>3. HistoryConsistent' /\ AudioNeverWaits'
    BY <1>3, <2>1 DEF SendInv, HistoryConsistent, AudioNeverWaits
  <2>4. ~AccountForAudio => AudioLive(queue')
    BY <1>6 DEF SendInv
  <2>. QED  BY <1>2, <1>3, <1>6, <2>2, <2>3, <2>4 DEF SendInv
<1>. QED  BY <1>2, <1>5, <1>6

(* A tick ages the queue and the history alike, and no voice waits.         *)
LEMMA PassKeeps ==
  ASSUME SendInv, Pass
  PROVE  SendInv'
<1>. DEFINE older(s) == [history[s] EXCEPT !.ttl = AtLeast(@ - 1, 0), !.age = AtMost(@ + 1, MaxRtt)]
            staler(b, k) == [queue[b][k] EXCEPT !.ttl = AtLeast(@ - 1, 0)]
<1>1. /\ WellFormed(queue) /\ HistoryTyped /\ idle \in Nat /\ limiter \in Limiter
      /\ IsOrder(order, Stored) /\ Len(order) <= Capacity /\ nextSeq \in Nat
      /\ QueueAgrees(queue, history, nextSeq)
  BY InvariantParts DEF SendInv
<1>2. /\ phase = "ready" /\ idle < MaxIdle /\ idle' = idle + 1
      /\ queue' = [b \in Priority |-> Aged(queue[b])]
      /\ history' = [s \in Stored |-> older(s)]
      /\ limiter' = Older(limiter)
      /\ UNCHANGED <<debt, rate, target, order, rtt, nextSeq, phase>>
  BY DEF Pass
<1>3. ASSUME NEW b \in Priority
      PROVE  /\ queue[b] \in Seq(Packet) /\ Len(queue[b]) \in Nat
             /\ DOMAIN queue[b] = 1..Len(queue[b])
             /\ \A k \in 1..Len(queue[b]) : queue[b][k] \in Packet
  <2>1. queue[b] \in Seq(Packet)
    BY <1>1 DEF WellFormed
  <2>. QED  BY <2>1, LenProperties, ElementOfSeq
<1>4. ASSUME NEW p \in Packet
      PROVE  LET stale == [p EXCEPT !.ttl = AtLeast(@ - 1, 0)]
             IN  /\ stale \in Packet /\ stale.seq = p.seq /\ stale.priority = p.priority
                 /\ stale.retransmit = p.retransmit /\ stale.ttl = AtLeast(p.ttl - 1, 0)
  <2>1. AtLeast(p.ttl - 1, 0) \in 0..Ttl
    BY ConstantTypes DEF Packet, AtLeast
  <2>. QED  BY <2>1 DEF Packet
<1>5. ASSUME NEW s \in Stored
      PROVE  /\ older(s) \in Entry /\ older(s).ttl = AtLeast(history[s].ttl - 1, 0)
             /\ older(s).pending = history[s].pending
  <2>1. history[s] \in Entry
    BY <1>1 DEF HistoryTyped
  <2>2. /\ AtLeast(history[s].ttl - 1, 0) \in 0..Ttl
        /\ AtMost(history[s].age + 1, MaxRtt) \in 0..MaxRtt
    BY <2>1, ConstantTypes DEF Entry, AtLeast, AtMost
  <2>. QED  BY <2>1, <2>2 DEF Entry
<1>6. ASSUME NEW b \in Priority
      PROVE  /\ queue'[b] \in Seq(Packet) /\ Len(queue'[b]) = Len(queue[b])
             /\ \A k \in 1..Len(queue[b]) :
                  /\ queue'[b][k].seq = queue[b][k].seq
                  /\ queue'[b][k].priority = queue[b][k].priority
                  /\ queue'[b][k].retransmit = queue[b][k].retransmit
                  /\ queue'[b][k].ttl = AtLeast(queue[b][k].ttl - 1, 0)
  <2>1. queue'[b] = [k \in 1..Len(queue[b]) |-> staler(b, k)]
    BY <1>2, <1>3 DEF Aged
  <2>2. \A k \in 1..Len(queue[b]) : staler(b, k) \in Packet
    BY <1>3, <1>4
  <2>3. queue'[b] \in Seq(Packet) /\ Len(queue'[b]) = Len(queue[b])
    <3>1. queue'[b] \in [1..Len(queue[b]) -> Packet]
      BY <2>1, <2>2
    <3>. QED  BY <1>3, <3>1
  <2>4. ASSUME NEW k \in 1..Len(queue[b])
        PROVE  /\ queue'[b][k].seq = queue[b][k].seq
               /\ queue'[b][k].priority = queue[b][k].priority
               /\ queue'[b][k].retransmit = queue[b][k].retransmit
               /\ queue'[b][k].ttl = AtLeast(queue[b][k].ttl - 1, 0)
    BY <1>3, <1>4, <2>1
  <2>. QED  BY <2>3, <2>4
<1>7. Stored' = Stored /\ history' \in [Stored -> Entry] /\ \A s \in Stored : history'[s] = older(s)
  BY <1>2, <1>5 DEF Stored
<1>. HIDE DEF older
<1>8. WellFormed(queue')
  <2>1. queue' = [b \in Priority |-> queue'[b]]
    BY <1>2
  <2>. QED  BY <1>1, <1>6, <2>1 DEF WellFormed
<1>9. Once(queue')
  <2>1. ASSUME NEW b \in Priority, NEW c \in Priority, NEW k \in 1..Len(queue'[b]),
               NEW l \in 1..Len(queue'[c]),
               queue'[b][k].seq = queue'[c][l].seq, queue'[b][k].seq # NoSeq
        PROVE  b = c /\ k = l
    <3>1. k \in 1..Len(queue[b]) /\ l \in 1..Len(queue[c])
      BY <1>6
    <3>2. queue[b][k].seq = queue[c][l].seq /\ queue[b][k].seq # NoSeq
      BY <1>6, <2>1, <3>1
    <3>. QED  BY <1>1, <3>1, <3>2 DEF QueueAgrees, Once
  <2>. QED  BY <2>1 DEF Once
<1>10. ASSUME NEW b \in Priority, NEW k \in 1..Len(queue'[b])
       PROVE  PacketAgrees(queue'[b][k], history', nextSeq)
  <2>1. k \in 1..Len(queue[b])
    BY <1>6
  <2>2. PacketAgrees(queue[b][k], history, nextSeq)
    BY <1>1, <2>1 DEF QueueAgrees
  <2>. QED  BY <1>5, <1>6, <1>7, <2>1, <2>2 DEF PacketAgrees, Stored
<1>11. ASSUME NEW s \in Stored  PROVE EntryAgrees(queue', history', nextSeq, s)
  <2>1. EntryAgrees(queue, history, nextSeq, s) /\ history[s] \in Entry
    BY <1>1 DEF QueueAgrees, HistoryTyped, Stored
  <2>2. history'[s].ttl > 0 => history[s].ttl > 0
    <3>1. history[s].ttl \in Nat
      BY <2>1 DEF Entry
    <3>. QED  BY <1>5, <1>7, <3>1 DEF AtLeast
  <2>3. Waits(queue, s) => Waits(queue', s)
    <3>1. ASSUME NEW b \in Priority, NEW k \in 1..Len(queue[b]), queue[b][k].seq = s
          PROVE  Waits(queue', s)
      <4>1. k \in 1..Len(queue'[b]) /\ queue'[b][k].seq = s
        BY <1>6, <3>1
      <4>. QED  BY <4>1 DEF Waits
    <3>. QED  BY <3>1 DEF Waits
  <2>. QED  BY <1>5, <1>7, <2>1, <2>2, <2>3 DEF EntryAgrees
<1>12. QueueAgrees(queue', history', nextSeq)
  BY <1>1, <1>7, <1>9, <1>10, <1>11 DEF QueueAgrees, Stored, HistoryTyped
<1>13. Audio \in Priority /\ (~AccountForAudio => queue[Audio] = <<>>)
  BY <1>2 DEF SendInv, AudioNeverWaits, Priority, Audio, Video
<1>14. ~AccountForAudio => queue'[Audio] = <<>>
  <2>1. Len(queue'[Audio]) = Len(queue[Audio]) /\ queue'[Audio] \in Seq(Packet)
    BY <1>6, <1>13
  <2>2. ASSUME Len(queue'[Audio]) = 0  PROVE queue'[Audio] = <<>>
    BY <2>1, <2>2, EmptySeq
  <2>. QED  BY <1>13, <2>1, <2>2
<1>15. ~AccountForAudio => AudioLive(queue')
  BY <1>14 DEF AudioLive
<1>16. Older(limiter) \in Limiter
  BY <1>1, LimiterTyped
<1>17. TypeOK'
  BY <1>1, <1>2, <1>7, <1>8, <1>16, ConstantTypes DEF SendInv, TypeOK, WellFormed
<1>18. HistoryConsistent' /\ AudioNeverWaits'
  BY <1>1, <1>2, <1>7, <1>14 DEF IsOrder, HistoryConsistent, AudioNeverWaits
<1>. QED  BY <1>2, <1>7, <1>12, <1>15, <1>17, <1>18 DEF SendInv

---------------------------------------------------------------------------
(* The invariant *)

(* Nothing waits and nothing is stored at first. *)
LEMMA InitSend ==
  ASSUME Init
  PROVE  SendInv
<1>1. /\ queue = [b \in Priority |-> <<>>] /\ debt = 0 /\ idle = 0
      /\ target \in Targets /\ rate = target * PacingFactor
      /\ history = << >> /\ order = <<>> /\ limiter = FromTarget(target)
      /\ rtt \in Rtts /\ nextSeq = 1 /\ phase = "ready"
  BY DEF Init
<1>2. <<>> \in Seq(Packet) /\ <<>> \in Seq(Seqs) /\ Len(<<>>) = 0
  OBVIOUS
<1>3. target \in Nat \ {0} /\ rate \in Nat \ {0}
  BY <1>1, ProductType, ConstantTypes
<1>4. limiter \in Limiter
  BY <1>1, <1>3, LimiterTyped
<1>5. debt \in 0..DebtCap(rate)
  <2>1. DebtCap(rate) \in Nat
    BY <1>3, DebtCapType
  <2>. QED  BY <1>1, <2>1
<1>6. Stored = {} /\ DOMAIN history = {} /\ history \in [Stored -> Entry]
  <2>1. DOMAIN history = {}
    BY <1>1
  <2>2. history = [s \in {} |-> 0]
    BY <1>1
  <2>. QED  BY <2>1, <2>2 DEF Stored
<1>7. \A b \in Priority : queue[b] = <<>>
  BY <1>1
<1>8. Audio \in Priority
  BY DEF Priority, Audio, Video
<1>9. TypeOK
  BY <1>1, <1>2, <1>3, <1>4, <1>5, <1>6, <1>7, ConstantTypes DEF TypeOK
<1>10. HistoryConsistent
  BY <1>1, <1>2, <1>6, ConstantTypes DEF HistoryConsistent
<1>11. QueueAgrees(queue, history, nextSeq)
  BY <1>2, <1>6, <1>7 DEF QueueAgrees, Once
<1>12. AudioLive(queue) /\ AudioNeverWaits
  BY <1>2, <1>7, <1>8 DEF AudioLive, AudioNeverWaits
<1>. QED  BY <1>6, <1>9, <1>10, <1>11, <1>12 DEF SendInv

(* A stutter keeps the invariant. *)
LEMMA UnchangedKeeps ==
  ASSUME SendInv, UNCHANGED vars
  PROVE  SendInv'
<1>1. /\ queue' = queue /\ debt' = debt /\ idle' = idle /\ rate' = rate /\ target' = target
      /\ history' = history /\ order' = order /\ limiter' = limiter /\ rtt' = rtt
      /\ nextSeq' = nextSeq /\ phase' = phase
  BY DEF vars, pacerVars, historyVars
<1>2. Stored' = Stored
  BY <1>1 DEF Stored
<1>3. TypeOK'
  BY <1>1, <1>2 DEF SendInv, TypeOK
<1>4. HistoryConsistent'
  BY <1>1, <1>2 DEF SendInv, HistoryConsistent
<1>5. AudioNeverWaits'
  BY <1>1 DEF SendInv, AudioNeverWaits
<1>. QED  BY <1>1, <1>2, <1>3, <1>4, <1>5 DEF SendInv

(* So does every step. *)
LEMMA NextSend ==
  ASSUME SendInv, [Next]_vars
  PROVE  SendInv'
<1>1. CASE PushFrame                     BY <1>1, PushFrameKeeps
<1>2. CASE OnNack                        BY <1>2, OnNackKeeps
<1>3. CASE OnReport \/ OnRttSample \/ Tick  BY <1>3, ReportsKeep
<1>4. CASE Poll                          BY <1>4, PollKeeps
<1>5. CASE PollNothing                   BY <1>5, PollNothingKeeps
<1>6. CASE Pass                          BY <1>6, PassKeeps
<1>7. CASE UNCHANGED vars                BY <1>7, UnchangedKeeps
<1>. QED  BY <1>1, <1>2, <1>3, <1>4, <1>5, <1>6, <1>7 DEF Next

(* The invariant holds in every state. *)
LEMMA SendInvariant == Spec => []SendInv
<1>1. Init => SendInv
  BY InitSend
<1>2. SendInv /\ [Next]_vars => SendInv'
  BY NextSend
<1>. QED  BY <1>1, <1>2, PTL DEF Spec

(* Every packet the queue holds, the debt and the history keep their types; *)
(* the debt never exceeds max_debt at the rate in force.                    *)
THEOREM SendTyped == Spec => []TypeOK
<1>1. SendInv => TypeOK
  BY DEF SendInv
<1>. QED  BY <1>1, SendInvariant, PTL

(* history.entries and history.order hold the same packets, each once and   *)
(* never more than the capacity.                                            *)
THEOREM HistoryCorrect == Spec => []HistoryConsistent
<1>1. SendInv => HistoryConsistent
  BY DEF SendInv
<1>. QED  BY <1>1, SendInvariant, PTL

(* Voice never waits outside a handler, whatever the media debt.            *)
THEOREM AudioCorrect == Spec => []AudioNeverWaits
<1>1. SendInv => AudioNeverWaits
  BY DEF SendInv
<1>. QED  BY <1>1, SendInvariant, PTL

(* The two promises say what the pending mark means. *)
LEMMA PendingFromInvariant ==
  ASSUME SendInv
  PROVE  PendingIsQueued
<1>. DEFINE places == UNION {{b} \X (1..Len(queue[b])) : b \in Priority}
            copies(s) == {bk \in places : /\ queue[bk[1]][bk[2]].retransmit
                                          /\ queue[bk[1]][bk[2]].seq = s
                                          /\ IsLive(queue[bk[1]][bk[2]])}
<1>1. QueueAgrees(queue, history, nextSeq) /\ HistoryTyped
  BY InvariantParts DEF SendInv
<1>2. ASSUME NEW s \in Stored, NEW c \in copies(s)
      PROVE  /\ c[1] \in Priority /\ c[2] \in 1..Len(queue[c[1]]) /\ c = <<c[1], c[2]>>
             /\ queue[c[1]][c[2]].seq = s
  OBVIOUS
<1>3. ASSUME NEW s \in Stored, NEW b \in Priority, NEW k \in 1..Len(queue[b]),
             queue[b][k].seq = s, history[s].ttl > 0
      PROVE  history[s].pending /\ <<b, k>> \in copies(s)
  <2>1. queue[b][k].retransmit /\ history[s].pending /\ history[s].ttl = queue[b][k].ttl
    BY <1>1, <1>3 DEF QueueAgrees, PacketAgrees, Stored
  <2>2. IsLive(queue[b][k])
    BY <1>3, <2>1 DEF IsLive
  <2>3. <<b, k>> \in places
    OBVIOUS
  <2>. QED  BY <1>3, <2>1, <2>2, <2>3
<1>. HIDE DEF copies
<1>4. ASSUME NEW s \in Stored, history[s].ttl > 0, history[s].pending
      PROVE  copies(s) # {}
  <2>1. Waits(queue, s)
    BY <1>1, <1>4 DEF QueueAgrees, EntryAgrees, Stored
  <2>. QED  BY <1>3, <1>4, <2>1 DEF Waits
<1>5. ASSUME NEW s \in Stored, history[s].ttl > 0, copies(s) # {}
      PROVE  history[s].pending
  <2>1. PICK c \in copies(s) : TRUE
    BY <1>5
  <2>. QED  BY <1>2, <1>3, <1>5, <2>1
<1>6. ASSUME NEW s \in Stored, NEW c \in copies(s), NEW d \in copies(s)
      PROVE  c = d
  <2>1. s # NoSeq
    BY <1>1 DEF HistoryTyped, Seqs, NoSeq
  <2>2. c[1] = d[1] /\ c[2] = d[2]
    BY <1>1, <1>2, <2>1 DEF QueueAgrees, Once
  <2>. QED  BY <1>2, <2>2
<1>7. \A s \in Stored : history[s].ttl > 0 =>
        /\ history[s].pending <=> copies(s) # {}
        /\ \A c, d \in copies(s) : c = d
  <2>. SUFFICES ASSUME NEW s \in Stored, history[s].ttl > 0
                PROVE  /\ history[s].pending <=> copies(s) # {}
                       /\ \A c, d \in copies(s) : c = d
    OBVIOUS
  <2>1. history[s].pending \in BOOLEAN
    BY <1>1 DEF HistoryTyped, Entry
  <2>. QED  BY <1>4, <1>5, <1>6, <2>1
<1>. QED  BY <1>7 DEF PendingIsQueued, copies

(* An entry that can still be asked for is marked pending exactly when one  *)
(* live copy of it waits in the queue, and no entry has two.                *)
THEOREM PendingCorrect == Spec => []PendingIsQueued
BY PendingFromInvariant, SendInvariant, PTL

---------------------------------------------------------------------------
(* The leaky bucket *)

(* A bucket has finitely many live packets. *)
LEMMA LiveCount ==
  ASSUME WellFormed(queue), NEW b \in Priority
  PROVE  Cardinality(LiveAt(queue, b)) \in Nat
<1>1. Len(queue[b]) \in Nat
  BY LenProperties DEF WellFormed
<1>2. IsFiniteSet(1..Len(queue[b]))
  BY <1>1, FS_Interval
<1>3. LiveAt(queue, b) \subseteq 1..Len(queue[b])
  BY DEF LiveAt
<1>4. IsFiniteSet(LiveAt(queue, b))
  BY <1>2, <1>3, FS_Subset
<1>. QED  BY <1>4, FS_CardinalityType

(* While voice waits pop takes voice. *)
LEMMA VoiceFirst ==
  ASSUME SendInv, Unpaced
  PROVE  CanPop(queue) /\ PopBucket(queue) = Audio
<1>1. WellFormed(queue) /\ AudioLive(queue) /\ queue[Audio] # <<>> /\ Audio \in Priority
  BY InvariantParts DEF SendInv, Unpaced, Priority, Audio, Video
<1>2. 1 \in 1..Len(queue[Audio])
  <2>1. Len(queue[Audio]) \in Nat \ {0}
    BY <1>1, EmptySeq DEF WellFormed
  <2>. QED  BY <2>1
<1>3. LiveAt(queue, Audio) # {}
  BY <1>1, <1>2 DEF AudioLive, LiveAt
<1>4. CanPop(queue)
  BY <1>1, <1>3 DEF CanPop
<1>5. PopBucket(queue) \in Priority /\ ~(Audio < PopBucket(queue))
  BY <1>1, <1>3, <1>4, PopTakesLive
<1>. QED  BY <1>4, <1>5 DEF Priority, Audio, Video

(* A step takes media off another bucket only within the burst budget.      *)
LEMMA PacedStep ==
  ASSUME SendInv, [Next]_vars, NEW b \in Priority \ {Audio},
         Cardinality(LiveAt(queue', b)) < Cardinality(LiveAt(queue, b)), phase = "draining"
  PROVE  CanSendPaced
<1>1. WellFormed(queue)
  BY InvariantParts
<1>2. queue'[b] # queue[b]
  <2>1. ASSUME queue'[b] = queue[b]  PROVE FALSE
    <3>1. LiveAt(queue', b) = LiveAt(queue, b)
      BY <2>1 DEF LiveAt
    <3>2. Cardinality(LiveAt(queue, b)) \in Nat
      BY <1>1, LiveCount
    <3>. QED  BY <3>1, <3>2
  <2>. QED  BY <2>1
<1>3. Poll \/ PollNothing
  BY <1>2 DEF Next, PushFrame, OnNack, OnReport, OnRttSample, Tick, Pass, Finish, vars
<1>4. CASE Poll
  <2>1. queue' = AfterPop(queue) /\ (Unpaced \/ CanSendPaced)
    BY <1>4 DEF Poll
  <2>2. ASSUME Unpaced  PROVE FALSE
    <3>1. CanPop(queue) /\ PopBucket(queue) = Audio
      BY <2>2, VoiceFirst
    <3>2. ~(b < Audio) /\ b # Audio
      BY DEF Priority, Audio, Video
    <3>3. AfterPop(queue)[b] = queue[b]
      BY <3>1, <3>2 DEF AfterPop
    <3>. QED  BY <1>2, <2>1, <3>3
  <2>. QED  BY <2>1, <2>2
<1>5. CASE PollNothing
  BY <1>2, <1>5, VoiceFirst DEF PollNothing
<1>. QED  BY <1>3, <1>4, <1>5

(* Nothing but voice leaves while the debt exceeds the burst budget: what   *)
(* takes the fast path is voice that has not expired.                       *)
THEOREM PacingCorrect == Spec => PacedWithinBudget
<1>1. SendInv /\ [Next]_vars =>
        \A b \in Priority \ {Audio} :
          Cardinality(LiveAt(queue', b)) < Cardinality(LiveAt(queue, b)) /\ phase = "draining"
            => CanSendPaced
  BY PacedStep
<1>2. SendInv /\ [Next]_vars =>
        [\A b \in Priority \ {Audio} :
          Cardinality(LiveAt(queue', b)) < Cardinality(LiveAt(queue, b)) /\ phase = "draining"
            => CanSendPaced]_vars
  BY <1>1
<1>. QED  BY <1>2, SendInvariant, PTL DEF Spec, PacedWithinBudget
===============================================================================
