------------------------------- MODULE HTable -------------------------------
(***************************************************************************)
(* lib/hash/htable.c: the hash table under the counters of a snapshot.     *)
(* Open addressing with deletion marks; the bits that all pointers of a    *)
(* table have in common are left out of its entries, and their places hold *)
(* bits of the hash and the "perfect" bit, which says that an entry is in  *)
(* the bucket of its hash.                                                 *)
(*                                                                         *)
(* A machine word (uintptr_t, size_t) is the set of its one bits, so that  *)
(* & | ^ ~ are the operations of sets.  An element is a pointer: a word.   *)
(***************************************************************************)
EXTENDS Integers, FiniteSets, FiniteSetsExt

CONSTANTS Width,      \* bits of a word
          Elements,   \* the pointers that may be added
          Hashes,     \* the hashes they may have
          MaxBits     \* bound: the table doubles up to 2^MaxBits slots

Word == SUBSET (0 .. Width - 1)

ASSUME WidthPositive == Width \in Nat \ {0}
ASSUME ElementsAreWords == Elements \subseteq Word \ {{}, {0}}
ASSUME HashesAreWords == Hashes \subseteq Word
ASSUME MaxBitsPositive == MaxBits \in 1 .. Width

VARIABLES ht,     \* the struct htable
          hash,   \* the hash of each element (rehash), fixed
          ret     \* the elements the last operation added, deleted or freed

vars == <<ht, hash, ret>>

Deleted == {0}
Valid(e) == e \notin {{}, Deleted}

PowerOf2[n \in 0 .. MaxBits] == IF n = 0 THEN 1 ELSE 2 * PowerOf2[n - 1]

Size(t) == PowerOf2[t.bits]
Slots(t) == 0 .. Size(t) - 1
Max_(t) == (3 * Size(t)) \div 4
MaxWithDeleted(t) == (9 * Size(t)) \div 10

(* htable_init: one empty slot, which is the perfect bit itself (0). *)
EmptyTable ==
  [bits |-> 0, elems |-> 0, deleted |-> 0, common_mask |-> 0 .. Width - 1,
   common_bits |-> {}, perfect_bit |-> {}, table |-> [i \in {0} |-> {}]]

(***************************************************************************)
(* Entries.                                                                *)
(***************************************************************************)
ExtraPtrBits(t, e) == e \cap t.common_mask
RawPtr(t, e) == (e \ t.common_mask) \cup t.common_bits
MakeHval(t, p, bits) == (p \ t.common_mask) \cup bits

ShiftRight(h, n) == {b - n : b \in {c \in h : c >= n}}
Folded(t, h) == SymDiff(h, ShiftRight(h, t.bits)) \cap t.common_mask
HashPtrBits(t, h) == Folded(t, h) \ t.perfect_bit
(* The bits an entry of h has n slots after its bucket. *)
Stamp(t, h, n) == HashPtrBits(t, h) \cup (IF n = 0 THEN t.perfect_bit ELSE {})

(* The number that the lower bits of h are. *)
LowBits(t, h) ==
  LET low[n \in 0 .. t.bits] ==
        IF n = 0 THEN 0 ELSE low[n - 1] + (IF n - 1 \in h THEN PowerOf2[n - 1] ELSE 0)
  IN low
Bucket(t, h) == LowBits(t, h)[t.bits]

(* The slot n places after slot i. *)
After(t, i, n) == (i + n) % Size(t)

(***************************************************************************)
(* Looking up: htable_firstval, then htable_nextval, until an empty slot.  *)
(* Of the entries met, those whose extra bits are the ones of h are        *)
(* candidates; only in the first slot are these to have the perfect bit.   *)
(***************************************************************************)
ProbeLength(t, h) ==
  Min({n \in 0 .. Size(t) - 1 : t.table[After(t, Bucket(t, h), n)] = {}})

Candidates(t, h) ==
  LET Slot(n) == After(t, Bucket(t, h), n)
  IN {Slot(n) : n \in {m \in 0 .. ProbeLength(t, h) - 1 :
                         /\ Valid(t.table[Slot(m)])
                         /\ ExtraPtrBits(t, t.table[Slot(m)]) = Stamp(t, h, m)}}

(* htable_get and the loop of htable_del, for the element that is p. *)
SlotsOf(t, h, p) == {i \in Candidates(t, h) : RawPtr(t, t.table[i]) = p}
Finds(t, h, p) == SlotsOf(t, h, p) # {}

(***************************************************************************)
(* Adding.  ht_add takes the first slot that holds no entry, be it empty   *)
(* or marked as deleted.                                                   *)
(***************************************************************************)
HtAdd(t, p, h) ==
  LET n == Min({m \in 0 .. Size(t) - 1 : ~Valid(t.table[After(t, Bucket(t, h), m)])})
  IN [t EXCEPT !.table[After(t, Bucket(t, h), n)] = MakeHval(t, p, Stamp(t, h, n))]

LowestBit(word) == IF word = {} THEN {} ELSE {Min(word)}

(* double_table: the perfect bit, if it was lost, is taken again. *)
Grown(t) ==
  [t EXCEPT !.bits = @ + 1,
            !.table = [i \in 0 .. 2 * Size(t) - 1 |-> {}],
            !.perfect_bit = IF @ = {} THEN LowestBit(t.common_mask) ELSE @,
            !.deleted = 0]

(* s, with the entry e of a table that had the same common bits. *)
Reinserted(s, e) ==
  LET p == RawPtr(s, e) IN IF Valid(e) THEN HtAdd(s, p, hash[p]) ELSE s

Moved(t) ==
  LET moved[i \in 0 .. Size(t)] ==
        IF i = 0 THEN Grown(t) ELSE Reinserted(moved[i - 1], t.table[i - 1])
  IN moved
DoubleTable(t) == Moved(t)[Size(t)]

FirstEmpty_Zero(t) == 0
FirstEmpty(t) == Min({i \in Slots(t) : t.table[i] = {}})

(* rehash_table: from the first empty slot on, deletion marks go and the   *)
(* entries that are not in their bucket are added again.                   *)
Rehashed(s, i) ==
  IF Valid(s.table[i]) /\ s.table[i] \cap s.perfect_bit # {} THEN s
  ELSE Reinserted([s EXCEPT !.table[i] = {}], s.table[i])

Walked(t) ==
  LET walked[n \in 0 .. Size(t)] ==
        IF n = 0 THEN t ELSE Rehashed(walked[n - 1], After(t, FirstEmpty(t), n - 1))
  IN walked
RehashTable(t) == [Walked(t)[Size(t)] EXCEPT !.deleted = 0]

Revealed(p) == Max(p)

(* update_common: p does not have the common bits.  The first element of a *)
(* table keeps its highest bit in the entry, all others become common.     *)
Reveal(t, p) ==
  LET mask == (0 .. Width - 1) \ {Revealed(p)}
  IN [t EXCEPT !.common_mask = mask, !.common_bits = p \cap mask, !.perfect_bit = {0}]

Stolen_KeepsPerfect(t, p) == SymDiff(t.common_bits, p \cap t.common_mask) \ t.perfect_bit
Stolen(t, p) == SymDiff(t.common_bits, p \cap t.common_mask)

ShrinkCommon(t, p) ==
  LET maskdiff == Stolen(t, p)
      bitsdiff == t.common_bits \cap maskdiff
  IN [t EXCEPT !.table = [i \in Slots(t) |-> IF Valid(@[i]) THEN (@[i] \ maskdiff) \cup bitsdiff
                                             ELSE @[i]],
               !.common_mask = @ \ maskdiff,
               !.common_bits = @ \ maskdiff,
               !.perfect_bit = @ \ maskdiff]

UpdateCommon(t, p) ==
  IF p \cap t.common_mask = t.common_bits THEN t
  ELSE IF t.elems = 0 THEN Reveal(t, p) ELSE ShrinkCommon(t, p)

Full(t) == t.elems + 1 > Max_(t)
Crowded_IgnoresMarks(t) == t.elems + 1 > MaxWithDeleted(t)
Crowded(t) == t.elems + 1 + t.deleted > MaxWithDeleted(t)

Added(t, p) ==
  LET roomy == IF Full(t) THEN DoubleTable(t) ELSE t
      clean == IF Crowded(roomy) THEN RehashTable(roomy) ELSE roomy
  IN [HtAdd(UpdateCommon(clean, p), p, hash[p]) EXCEPT !.elems = @ + 1]

(* htable_delval *)
DelVal(t, i) ==
  [t EXCEPT !.elems = @ - 1, !.table[i] = Deleted, !.deleted = @ + 1]

(***************************************************************************)
(* The operations, as the snapshots use them: an element is a fresh        *)
(* allocation, so it is not in the table when it is added.                 *)
(***************************************************************************)
Entries(t) == {i \in Slots(t) : Valid(t.table[i])}
Marks(t) == {i \in Slots(t) : t.table[i] = Deleted}

Pointers(t) == {RawPtr(t, t.table[i]) : i \in Entries(t)}
Members == Pointers(ht)

(* htable_add.  The table may fail to double (calloc). *)
Add(p) ==
  /\ p \notin Members
  /\ \/ /\ Full(ht) => ht.bits < MaxBits
        /\ ht' = Added(ht, p)
        /\ ret' = {p}
     \/ /\ Full(ht)
        /\ ret' = {}
        /\ UNCHANGED ht
  /\ UNCHANGED hash

(* htable_del *)
Del(p) ==
  /\ ret' = IF Finds(ht, hash[p], p) THEN {p} ELSE {}
  /\ ht' = IF Finds(ht, hash[p], p) THEN DelVal(ht, CHOOSE i \in SlotsOf(ht, hash[p], p) : TRUE) ELSE ht
  /\ UNCHANGED hash

(* faup_snapshot_item_free: a walk over the slots (htable_first,           *)
(* htable_next) that deletes what it meets, and htable_clear.  It returns  *)
(* what was freed.                                                         *)
FreeSlot(w, i) ==
  LET p == RawPtr(w.t, w.t.table[i])
      found == SlotsOf(w.t, hash[p], p)
  IN IF ~Valid(w.t.table[i]) THEN w
     ELSE [t |-> IF found = {} THEN w.t ELSE DelVal(w.t, CHOOSE j \in found : TRUE),
           freed |-> w.freed \cup {p}]

Freed ==
  LET freed[i \in 0 .. Size(ht)] ==
        IF i = 0 THEN [t |-> ht, freed |-> {}] ELSE FreeSlot(freed[i - 1], i - 1)
  IN freed

Free ==
  /\ ret' = Freed[Size(ht)].freed
  /\ ht' = EmptyTable
  /\ UNCHANGED hash

Init ==
  /\ ht = EmptyTable
  /\ hash \in [Elements -> Hashes]
  /\ ret = {}

Next ==
  \/ \E p \in Elements : Add(p) \/ Del(p)
  \/ Free

Spec == Init /\ [][Next]_vars

(***************************************************************************)
(* Properties.                                                             *)
(***************************************************************************)
(* Every probe ends: htable_val, ht_add and the search for the start in    *)
(* rehash_table have no other bound than an empty slot.  There is one      *)
(* because deleted, which ht_add does not decrease when it takes a slot    *)
(* with a mark, counts at least the marks, and elems the entries: none of  *)
(* them looks like an empty slot or a mark, whatever bits became common or *)
(* were given back.                                                        *)
ProbesEnd ==
  /\ ht.elems = Cardinality(Entries(ht))
  /\ \E i \in Slots(ht) : ht.table[i] = {}
  /\ ht.deleted >= Cardinality(Marks(ht))
  /\ ht.elems + ht.deleted <= MaxWithDeleted(ht)

(* htable_get finds exactly what is in the table, once: no move leaves an  *)
(* empty slot between an entry and its bucket, or the bits of an older     *)
(* table in it.                                                            *)
FindsMembers ==
  \A p \in Elements :
    Cardinality(SlotsOf(ht, hash[p], p)) = IF p \in Members THEN 1 ELSE 0

(* Whatever was added and deleted, moved or stripped of common bits, the   *)
(* table is a set: an operation changes it by its element only, does so    *)
(* when it says it did, and nothing is lost.                               *)
Set == INSTANCE ElementSet WITH members <- Members
IsASet == Set!Spec

=============================================================================
