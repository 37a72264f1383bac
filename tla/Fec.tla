-------------------------------- MODULE Fec --------------------------------
(***************************************************************************)
(* src/core/fec.rs: a generator that makes parity rows over blocks of      *)
(* media datagrams, and the receiver that repairs with them.  Rows and     *)
(* datagrams may be lost, overtaken and repeated on the way.  A datagram   *)
(* is known by its sequence, so the XOR of datagrams is the set of         *)
(* sequences it contains an odd number of times, and a set with one        *)
(* sequence left is what decodes.  The engine does not use this module of  *)
(* the library; its users are applications.                                *)
(***************************************************************************)
EXTENDS Integers, Sequences, FiniteSets, SequencesExt

CONSTANTS
  BlockSize,      \* MAX_MEDIA_PACKETS, 48
  FecRates,       \* fec_rate of the params an application sets, within 0..255
  Capacity,       \* of the receiver
  FecSpace,       \* number of sequences, 2^32 in the code
  Protected,      \* sequences the application pushes
  MaxPushes       \* bound

FecSeqs == 0..(FecSpace - 1)
Ahead(seq, base) == (seq - base) % FecSpace

(* The sequences lie within half the space of a first one: an order of more *)
(* would not be one, and the sort of evict_if_needed relies on it.          *)
FecAssumption ==
  /\ {BlockSize, Capacity, FecSpace} \subseteq Nat \ {0} /\ BlockSize < FecSpace
  /\ FecRates \subseteq 0..255 /\ Protected \subseteq FecSeqs
  /\ \E first \in FecSeqs : \A seq \in Protected : 2 * Ahead(seq, first) < FecSpace
  /\ MaxPushes \in Nat

VARIABLES
  fecRate, block,   \* params and pending of the generator
  pushes,           \* number of pushes
  rows,             \* rows flushed, for ever deliverable
  flushed,          \* history: the last block and the rows made of it
  media, fec,       \* the receiver's stores
  known             \* history: sequences the receiver was given or returned

generatorVars == <<fecRate, block, pushes, rows, flushed>>
receiverVars == <<media, fec, known>>
fecVars == <<generatorVars, receiverVars>>

Xor(a, b) == (a \ b) \union (b \ a)

(* Variant: a low rate rounds to no row. *)
NumFecRounded(count, rate) == (count * rate + 128) \div 256

(* num_fec_packets *)
NumFec(count, rate) ==
  LET rounded == (count * rate + 128) \div 256 IN
  IF count = 0 \/ rate = 0 THEN 0
  ELSE IF rounded < 1 THEN 1 ELSE IF rounded > count THEN count ELSE rounded

IsBase(base, seqs) == \A seq \in ToSet(seqs) : Ahead(seq, base) < BlockSize

(* window_base: the first sequence pushed from which a mask reaches all.    *)
HasBase(seqs) == \E k \in 1..Len(seqs) : IsBase(seqs[k], seqs)
WindowBase(seqs) == Min({k \in 1..Len(seqs) : IsBase(seqs[k], seqs)})

(* The bits of the block in order, dealt out to the rows in turn. *)
Rows(seqs, rate) ==
  LET base == seqs[WindowBase(seqs)]
      bits == {Ahead(seq, base) : seq \in ToSet(seqs)}
      Round(bit) == Cardinality({b \in bits : b < bit})
      count == NumFec(Len(seqs), rate)
      Mask(r) == {bit \in bits : Round(bit) % count = r}
  IN {[base |-> base, mask |-> Mask(r), payload |-> {(base + b) % FecSpace : b \in Mask(r)}] :
        r \in {q \in 0..(count - 1) : Mask(q) # {}}}

Flushed(seqs) ==
  /\ rows' = IF seqs = <<>> THEN rows ELSE rows \union Rows(seqs, fecRate)
  /\ flushed' = [seqs |-> seqs, rate |-> fecRate,
                 rows |-> IF seqs = <<>> THEN {} ELSE Rows(seqs, fecRate)]

(* push: a full block is flushed first, and a sequence no mask can hold     *)
(* together with the others is refused.  The caller may push one again.     *)
Push ==
  \E seq \in Protected :
    LET full == Len(block) >= BlockSize
        seqs == Append(IF full THEN <<>> ELSE block, seq)
    IN
    /\ pushes < MaxPushes /\ pushes' = pushes + 1
    /\ IF full THEN Flushed(block) ELSE UNCHANGED <<rows, flushed>>
    /\ block' = IF HasBase(seqs) THEN seqs ELSE block
    /\ UNCHANGED <<fecRate, receiverVars>>

Flush ==
  /\ block # <<>> /\ block' = <<>>
  /\ Flushed(block)
  /\ UNCHANGED <<fecRate, pushes, receiverVars>>

SetParams ==
  /\ fecRate' \in FecRates \ {fecRate}
  /\ UNCHANGED <<block, pushes, rows, flushed, receiverVars>>

---------------------------------------------------------------------------
Members(row) == {(row.base + bit) % FecSpace : bit \in row.mask}

(* try_recover_row: what is left of the row without the datagrams that are  *)
(* there must decode as the one that is not.                                *)
Recovered(row, store) ==
  LET missing == Members(row) \ store
      left == Xor(row.payload, Members(row) \intersect store)
  IN IF Cardinality(missing) = 1 /\ left = missing THEN missing ELSE {}

(* One pass over the rows, each with what the rows before it repaired. *)
OnePass(store, list) ==
  LET had[k \in 0..Len(list)] ==
        IF k = 0 THEN store ELSE had[k - 1] \union Recovered(list[k], had[k - 1])
  IN had[Len(list)]

(* Variant: the rows are looked at once. *)
RecoverAllOnce(store, list) == OnePass(store, list)

(* recover_all, before it evicts: as long as a pass makes progress. *)
RecoverAll(store, list) ==
  LET repaired[had \in SUBSET FecSeqs] ==
        IF OnePass(had, list) = had THEN had ELSE repaired[OnePass(had, list)]
  IN repaired[store]

(* evict_if_needed: the sequences furthest behind go. *)
Evicted(store) ==
  IF Cardinality(store) <= Capacity THEN store
  ELSE CHOOSE kept \in SUBSET store :
         /\ Cardinality(kept) = Capacity
         /\ \A s \in kept, t \in store \ kept : 2 * Ahead(s, t) < FecSpace

Settle(store, list, given) ==
  LET repaired == RecoverAll(store, list) IN
  /\ media' = IF repaired = store THEN store ELSE Evicted(repaired)
  /\ fec' = list
  /\ known' = known \union repaired \union given

(* insert_media; one that is still stored is ignored. *)
InsertMedia ==
  \E seq \in Protected \ media :
    /\ pushes > 0
    /\ Settle(Evicted(media \union {seq}), fec, {seq})
    /\ UNCHANGED generatorVars

(* insert_fec *)
InsertFec ==
  \E row \in rows :
    LET list == Append(fec, row) IN
    /\ Settle(media, IF Len(list) > Capacity THEN Tail(list) ELSE list, {})
    /\ UNCHANGED generatorVars

FecInit ==
  /\ fecRate \in FecRates /\ block = <<>> /\ pushes = 0 /\ rows = {}
  /\ flushed = [seqs |-> <<>>, rate |-> 0, rows |-> {}]
  /\ media = {} /\ fec = <<>> /\ known = {}

FecNext == Push \/ Flush \/ SetParams \/ InsertMedia \/ InsertFec

FecSpec == FecInit /\ [][FecNext]_fecVars

---------------------------------------------------------------------------
(* The stores keep to their capacity, and what waits for a flush fits one   *)
(* mask whatever the order it was pushed in.                                *)
FecTypeOK ==
  /\ fecRate \in FecRates /\ block \in Seq(Protected) /\ Len(block) <= BlockSize
  /\ block # <<>> => HasBase(block)
  /\ media \subseteq Protected /\ Cardinality(media) <= Capacity
  /\ Len(fec) <= Capacity /\ ToSet(fec) \subseteq rows

(* A flush at a rate above zero protects every datagram of the block, each  *)
(* in one row, at whatever place of the sequence space the block lies.      *)
BlockProtected ==
  flushed.rate > 0 => \A seq \in ToSet(flushed.seqs) :
    Cardinality({row \in flushed.rows : seq \in Members(row)}) = 1

(* "Cascading recoveries across multiple rows are attempted in a loop": no  *)
(* row is left with one loss that it could repair; what a row lacks alone   *)
(* has been given to the application before, and was evicted.               *)
RepairedAtOnce ==
  \A k \in 1..Len(fec) :
    Cardinality(Members(fec[k]) \ media) = 1 => Members(fec[k]) \ media \subseteq known
============================================================================
