---------------------------- MODULE HTableProofs -----------------------------
(***************************************************************************)
(* The hash table is a set, its probes end and it finds its members: for   *)
(* words of any width, any pointers of one heap, any hashes, and tables of *)
(* any size.                                                               *)
(***************************************************************************)
EXTENDS HTable, FiniteSetTheorems, WellFoundedInduction, TLAPS

(* Pointers that share their highest bit. *)
OneHeap == \E top \in 1 .. Width - 1 : \A p \in Elements : top \in p /\ Max(p) = top

(***************************************************************************)
(* Induction and recursion up to a number.                                 *)
(***************************************************************************)
LEMMA HasSmallest ==
  ASSUME NEW S \in SUBSET Nat, S # {}
  PROVE  Min(S) \in S /\ \A x \in S : Min(S) <= x
<1>1. PICK m \in S : \A y \in S : ~(<<y, m>> \in OpToRel(<, Nat))
  BY NatLessThanWellFounded, WFMin, Zenon
<1>2. ASSUME NEW y \in S PROVE m <= y
  <2>1. <<y, m>> \notin OpToRel(<, Nat) BY <1>1
  <2>2. ~(y < m) BY <2>1 DEF OpToRel
  <2> QED BY <2>2
<1>3. \E x \in S : \A y \in S : x <= y BY <1>2
<1> QED BY <1>3, Zenon DEF Min

LEMMA UpTo ==
  ASSUME NEW N \in Nat, NEW S, 0 \in S, \A i \in 1 .. N : i - 1 \in S => i \in S
  PROVE  \A i \in 0 .. N : i \in S
<1> DEFINE T == {i \in 0 .. N : i \notin S}
<1>1. SUFFICES ASSUME T # {} PROVE FALSE OBVIOUS
<1>2. T \in SUBSET Nat OBVIOUS
<1>3. PICK m : m = Min(T) OBVIOUS
<1>4. m \in T /\ \A x \in T : m <= x BY <1>1, <1>2, <1>3, HasSmallest
<1>5. m \in 1 .. N BY <1>4
<1>6. m - 1 \notin T BY <1>4, <1>5
<1> QED BY <1>4, <1>5, <1>6

StaysIn(T, N, G) == \A i \in 1 .. N : \A x \in T : G[i][x] \in T
Iterates(g, N, a, G) == g[0] = a /\ \A i \in 1 .. N : g[i] = G[i][g[i - 1]]

LEMMA Recursion ==
  ASSUME NEW N \in Nat, NEW T, NEW a \in T, NEW G, StaysIn(T, N, G)
  PROVE  \E g \in [0 .. N -> T] : Iterates(g, N, a, G)
<1> USE DEF StaysIn, Iterates
<1> DEFINE Is(g, n) == Iterates(g, n, a, G)
           S == {n \in 0 .. N : \E g \in [0 .. n -> T] : Is(g, n)}
<1>1. 0 \in S
  <2>1. [i \in 0 .. 0 |-> a] \in [0 .. 0 -> T] OBVIOUS
  <2>2. Is([i \in 0 .. 0 |-> a], 0) OBVIOUS
  <2>3. 0 \in 0 .. N OBVIOUS
  <2> HIDE DEF Is
  <2> QED BY <2>1, <2>2, <2>3
<1>2. ASSUME NEW n \in 1 .. N, n - 1 \in S PROVE n \in S
  <2>1. PICK g \in [0 .. n - 1 -> T] : Is(g, n - 1) BY <1>2
  <2> DEFINE h == [i \in 0 .. n |-> IF i = n THEN G[n][g[n - 1]] ELSE g[i]]
  <2>2. h \in [0 .. n -> T]
    <3>1. ASSUME NEW i \in 0 .. n PROVE h[i] \in T
      <4>1. g[n - 1] \in T OBVIOUS
      <4>2. i # n => g[i] \in T OBVIOUS
      <4> QED BY <4>1, <4>2
    <3> QED BY <3>1
  <2>3. h[0] = a BY <2>1
  <2>4. ASSUME NEW i \in 1 .. n PROVE h[i] = G[i][h[i - 1]]
    <3>1. h[i - 1] = g[i - 1] OBVIOUS
    <3>2. CASE i = n BY <3>1, <3>2
    <3>3. CASE i # n
      <4>1. i \in 1 .. n - 1 BY <3>3
      <4>2. g[i] = G[i][g[i - 1]] BY <2>1, <4>1
      <4>3. h[i] = g[i] BY <3>3
      <4> QED BY <3>1, <4>2, <4>3
    <3> QED BY <3>2, <3>3
  <2>5. Is(h, n) BY <2>3, <2>4
  <2> QED BY <2>2, <2>5
<1>3. \A n \in 0 .. N : n \in S
  <2> HIDE DEF S
  <2> QED BY <1>1, <1>2, UpTo
<1>4. N \in S BY <1>3
<1> QED BY <1>4

(***************************************************************************)
(* Sizes and buckets.                                                      *)
(***************************************************************************)
LEMMA Powers ==
  /\ PowerOf2[0] = 1
  /\ \A n \in 1 .. MaxBits : PowerOf2[n] = 2 * PowerOf2[n - 1]
  /\ \A n \in 0 .. MaxBits : PowerOf2[n] \in Nat \ {0}
<1>0. MaxBits \in Nat BY MaxBitsPositive, WidthPositive
<1> DEFINE G == [n \in 1 .. MaxBits |-> [x \in Nat \ {0} |-> 2 * x]]
           Eq(f) == f = [n \in 0 .. MaxBits |-> IF n = 0 THEN 1 ELSE 2 * f[n - 1]]
<1>1. PICK g \in [0 .. MaxBits -> Nat \ {0}] : Iterates(g, MaxBits, 1, G)
  <2>1. StaysIn(Nat \ {0}, MaxBits, G) BY DEF StaysIn
  <2>2. 1 \in Nat \ {0} OBVIOUS
  <2> HIDE DEF G
  <2> QED BY <1>0, <2>1, <2>2, Recursion, Zenon
<1> USE DEF Iterates
<1>2. Eq(g)
  <2>1. ASSUME NEW n \in 0 .. MaxBits PROVE g[n] = IF n = 0 THEN 1 ELSE 2 * g[n - 1]
    <3>1. CASE n = 0 BY <1>1, <3>1
    <3>2. CASE n # 0
      <4>1. n \in 1 .. MaxBits /\ n - 1 \in 0 .. MaxBits BY <1>0, <3>2
      <4>2. g[n - 1] \in Nat \ {0} BY <4>1
      <4> QED BY <1>1, <3>2, <4>1, <4>2
    <3> QED BY <3>1, <3>2
  <2> QED BY <2>1
<1>3. PowerOf2 = CHOOSE f : Eq(f) BY DEF PowerOf2
<1>4. Eq(PowerOf2)
  <2> HIDE DEF Eq
  <2> QED BY <1>2, <1>3
<1>5. PowerOf2[0] = 1 BY <1>0, <1>4
<1>6. \A n \in 1 .. MaxBits : PowerOf2[n] = 2 * PowerOf2[n - 1] BY <1>0, <1>4
<1> DEFINE S == {n \in 0 .. MaxBits : PowerOf2[n] \in Nat \ {0}}
<1>7. \A n \in 0 .. MaxBits : n \in S
  <2>1. 0 \in S BY <1>0, <1>5
  <2>2. ASSUME NEW n \in 1 .. MaxBits, n - 1 \in S PROVE n \in S
    <3>1. PowerOf2[n - 1] \in Nat \ {0} BY <2>2
    <3>2. 2 * PowerOf2[n - 1] \in Nat \ {0} BY <3>1
    <3> QED BY <1>6, <3>2
  <2> HIDE DEF S
  <2> QED BY <1>0, <2>1, <2>2, UpTo
<1> QED BY <1>5, <1>6, <1>7

LEMMA SizeIs ==
  ASSUME NEW t, t.bits \in 0 .. MaxBits
  PROVE  Size(t) \in Nat \ {0}
BY Powers DEF Size

LEMMA BucketIs ==
  ASSUME NEW t, t.bits \in 0 .. MaxBits, NEW h
  PROVE  Bucket(t, h) \in Slots(t)
<1>0. MaxBits \in Nat /\ t.bits \in Nat BY MaxBitsPositive, WidthPositive
<1> DEFINE N == t.bits
           Low(n) == IF n - 1 \in h THEN PowerOf2[n - 1] ELSE 0
           G == [n \in 1 .. N |-> [x \in Nat |-> x + Low(n)]]
           Eq(f) == f = [n \in 0 .. N |-> IF n = 0 THEN 0 ELSE f[n - 1] + Low(n)]
<1>a. \A n \in 1 .. N : Low(n) \in Nat /\ Low(n) <= PowerOf2[n - 1]
  <2>1. \A n \in 1 .. N : n - 1 \in 0 .. MaxBits BY <1>0
  <2> QED BY <2>1, Powers
<1> HIDE DEF Low
<1>1. PICK g \in [0 .. N -> Nat] : Iterates(g, N, 0, G)
  <2>1. StaysIn(Nat, N, G) BY <1>a DEF StaysIn
  <2>2. 0 \in Nat OBVIOUS
  <2> HIDE DEF G
  <2> QED BY <1>0, <2>1, <2>2, Recursion, Zenon
<1> USE DEF Iterates
<1>2. Eq(g)
  <2>1. ASSUME NEW n \in 0 .. N PROVE g[n] = IF n = 0 THEN 0 ELSE g[n - 1] + Low(n)
    <3>1. CASE n = 0 BY <1>1, <3>1
    <3>2. CASE n # 0
      <4>1. n \in 1 .. N /\ n - 1 \in 0 .. N BY <1>0, <3>2
      <4>2. g[n - 1] \in Nat BY <4>1
      <4> QED BY <1>1, <3>2, <4>1, <4>2
    <3> QED BY <3>1, <3>2
  <2> QED BY <2>1
<1>3. LowBits(t, h) = CHOOSE f : Eq(f) BY DEF LowBits, Low
<1> DEFINE f == LowBits(t, h)
<1>4. Eq(f)
  <2> HIDE DEF Eq
  <2> QED BY <1>2, <1>3
<1>5. f[0] = 0 BY <1>0, <1>4
<1>6. \A n \in 1 .. N : f[n] = f[n - 1] + Low(n) BY <1>0, <1>4
<1> HIDE DEF f
<1> DEFINE S == {n \in 0 .. N : f[n] \in Nat /\ f[n] < PowerOf2[n]}
<1>7. \A n \in 0 .. N : n \in S
  <2>1. 0 \in S BY <1>0, <1>5, Powers
  <2>2. ASSUME NEW n \in 1 .. N, n - 1 \in S PROVE n \in S
    <3>1. f[n - 1] \in Nat /\ f[n - 1] < PowerOf2[n - 1] BY <2>2
    <3>2. n \in 1 .. MaxBits /\ n - 1 \in 0 .. MaxBits BY <1>0
    <3>3. PowerOf2[n] = 2 * PowerOf2[n - 1] /\ PowerOf2[n - 1] \in Nat BY <3>2, Powers
    <3>4. Low(n) \in Nat /\ Low(n) <= PowerOf2[n - 1] BY <1>a
    <3>5. f[n] = f[n - 1] + Low(n) BY <1>6
    <3>6. f[n] \in Nat /\ f[n] < PowerOf2[n] BY <3>1, <3>3, <3>4, <3>5
    <3> QED BY <3>6
  <2> HIDE DEF S
  <2> QED BY <1>0, <2>1, <2>2, UpTo
<1>8. f[N] \in Nat /\ f[N] < PowerOf2[N] BY <1>0, <1>7
<1>9. Bucket(t, h) = f[N] BY DEF Bucket, f
<1>10. PowerOf2[N] \in Nat BY Powers
<1> QED BY <1>8, <1>9, <1>10 DEF Slots, Size

(***************************************************************************)
(* Tables, their slots and their entries.                                  *)
(***************************************************************************)
IsTable(t) ==
  /\ t \in [bits : 0 .. MaxBits, elems : Nat, deleted : Nat, common_mask : Word,
            common_bits : Word, perfect_bit : Word, table : [Slots(t) -> Word]]
  /\ t.common_bits \subseteq t.common_mask /\ t.perfect_bit \subseteq t.common_mask

PtrAt(t, i) == RawPtr(t, t.table[i])
Home(t, i) == Bucket(t, hash[PtrAt(t, i)])

(* The entry in slot i is n slots after its bucket, and a probe meets it.  *)
Way(t, i, n) ==
  /\ i = After(t, Home(t, i), n)
  /\ ExtraPtrBits(t, t.table[i]) = Stamp(t, hash[PtrAt(t, i)], n)
  /\ \A m \in 0 .. n - 1 : t.table[After(t, Home(t, i), m)] # {}
Placed(t, i) == \E n \in 0 .. Size(t) - 1 : Way(t, i, n)

(* No pointer is there twice. *)
Distinct(t) == \A i, j \in Entries(t) : PtrAt(t, i) = PtrAt(t, j) => i = j

IsTop(top) == top \in 1 .. Width - 1 /\ \A p \in Elements : top \in p /\ Max(p) = top

SameBits(s, t) ==
  /\ s.bits = t.bits /\ s.common_mask = t.common_mask
  /\ s.common_bits = t.common_bits /\ s.perfect_bit = t.perfect_bit

LEMMA Alike ==
  ASSUME NEW s, NEW t, SameBits(s, t)
  PROVE  /\ Size(s) = Size(t) /\ Slots(s) = Slots(t)
         /\ \A e : RawPtr(s, e) = RawPtr(t, e) /\ ExtraPtrBits(s, e) = ExtraPtrBits(t, e)
         /\ \A h : Bucket(s, h) = Bucket(t, h)
         /\ \A h, n : Stamp(s, h, n) = Stamp(t, h, n)
         /\ \A i, n : After(s, i, n) = After(t, i, n)
<1>1. Size(s) = Size(t) /\ Slots(s) = Slots(t) BY DEF SameBits, Size, Slots
<1>2. \A e : RawPtr(s, e) = RawPtr(t, e) /\ ExtraPtrBits(s, e) = ExtraPtrBits(t, e)
  BY DEF SameBits, RawPtr, ExtraPtrBits
<1>3. \A h : Bucket(s, h) = Bucket(t, h)
  <2>1. ASSUME NEW h PROVE LowBits(s, h) = LowBits(t, h) BY DEF SameBits, LowBits
  <2> QED BY <2>1 DEF SameBits, Bucket
<1>4. \A h, n : Stamp(s, h, n) = Stamp(t, h, n)
  BY DEF SameBits, Stamp, HashPtrBits, Folded
<1>5. \A i, n : After(s, i, n) = After(t, i, n) BY <1>1 DEF After
<1> QED BY <1>1, <1>2, <1>3, <1>4, <1>5

LEMMA AfterIs ==
  ASSUME NEW t, t.bits \in 0 .. MaxBits, NEW b \in Slots(t)
  PROVE  /\ \A n \in Slots(t) : /\ After(t, b, n) \in Slots(t)
                                /\ After(t, b, n) = IF b + n < Size(t) THEN b + n ELSE b + n - Size(t)
         /\ \A i \in Slots(t) : \E n \in Slots(t) : i = After(t, b, n)
         /\ \A n, m \in Slots(t) : After(t, b, n) = After(t, b, m) => n = m
<1>1. PICK S \in Nat \ {0} : S = Size(t) BY SizeIs
<1>2. b \in 0 .. S - 1 /\ Slots(t) = 0 .. S - 1 BY <1>1 DEF Slots
<1>3. ASSUME NEW n \in 0 .. S - 1
      PROVE  After(t, b, n) = IF b + n < S THEN b + n ELSE b + n - S
  <2>1. After(t, b, n) = (b + n) % S BY <1>1 DEF After
  <2> QED BY <1>2, <2>1
<1>4. ASSUME NEW i \in 0 .. S - 1 PROVE \E n \in 0 .. S - 1 : i = After(t, b, n)
  <2>1. CASE i >= b
    <3>1. i - b \in 0 .. S - 1 /\ b + (i - b) = i BY <1>2, <2>1
    <3>2. After(t, b, i - b) = i BY <1>3, <3>1
    <3> QED BY <3>1, <3>2
  <2>2. CASE i < b
    <3>1. i - b + S \in 0 .. S - 1 /\ b + (i - b + S) = i + S BY <1>2, <2>2
    <3>2. After(t, b, i - b + S) = i BY <1>2, <1>3, <3>1
    <3> QED BY <3>1, <3>2
  <2> QED BY <1>2, <2>1, <2>2
<1>5. ASSUME NEW n \in 0 .. S - 1, NEW m \in 0 .. S - 1, After(t, b, n) = After(t, b, m)
      PROVE  n = m
  BY <1>2, <1>3, <1>5
<1>6. ASSUME NEW n \in 0 .. S - 1 PROVE After(t, b, n) \in 0 .. S - 1
  BY <1>2, <1>3
<1> QED BY <1>1, <1>2, <1>3, <1>4, <1>5, <1>6

LEMMA StampIs ==
  ASSUME NEW t, IsTable(t), NEW h, NEW n
  PROVE  /\ Stamp(t, h, n) \subseteq t.common_mask
         /\ Stamp(t, h, n) \cap t.perfect_bit = IF n = 0 THEN t.perfect_bit ELSE {}
BY DEF IsTable, Stamp, HashPtrBits, Folded

LEMMA HvalIs ==
  ASSUME NEW t, IsTable(t), NEW top, IsTop(top), top \notin t.common_mask,
         NEW p \in Elements, p \cap t.common_mask = t.common_bits,
         NEW bits \in SUBSET t.common_mask
  PROVE  /\ MakeHval(t, p, bits) \in Word /\ Valid(MakeHval(t, p, bits))
         /\ RawPtr(t, MakeHval(t, p, bits)) = p
         /\ ExtraPtrBits(t, MakeHval(t, p, bits)) = bits
<1>1. p \in Word /\ top \in p /\ top # 0 BY ElementsAreWords, WidthPositive DEF IsTop
<1>2. t.common_mask \in Word BY DEF IsTable
<1> DEFINE e == MakeHval(t, p, bits)
<1>3. e \in Word BY <1>1, <1>2 DEF MakeHval, Word
<1>4. top \in e BY <1>1 DEF MakeHval
<1>5. Valid(e) BY <1>1, <1>4 DEF Valid, Deleted
<1>6. RawPtr(t, e) = p BY DEF RawPtr, MakeHval
<1>7. ExtraPtrBits(t, e) = bits BY DEF ExtraPtrBits, MakeHval
<1> QED BY <1>3, <1>5, <1>6, <1>7

(***************************************************************************)
(* ht_add takes the first slot after the bucket that has no entry.         *)
(***************************************************************************)
TakesSlot(t, u, p, i, n) ==
  /\ n \in Slots(t) /\ i = After(t, Bucket(t, hash[p]), n) /\ i \in Slots(t)
  /\ ~Valid(t.table[i])
  /\ \A m \in 0 .. n - 1 : Valid(t.table[After(t, Bucket(t, hash[p]), m)])
  /\ u = [t EXCEPT !.table[i] = u.table[i]]
  /\ Valid(u.table[i]) /\ PtrAt(u, i) = p
  /\ ExtraPtrBits(u, u.table[i]) = Stamp(t, hash[p], n)
  /\ IsTable(u) /\ SameBits(u, t) /\ u.elems = t.elems /\ u.deleted = t.deleted
  /\ u.table = [t.table EXCEPT ![i] = u.table[i]]

LEMMA HtAddTakes ==
  ASSUME NEW t, IsTable(t), NEW top, IsTop(top), top \notin t.common_mask,
         NEW p \in Elements, p \cap t.common_mask = t.common_bits,
         \E i \in Slots(t) : ~Valid(t.table[i])
  PROVE  \E i, n : TakesSlot(t, HtAdd(t, p, hash[p]), p, i, n)
<1> DEFINE h == hash[p]
           b == Bucket(t, h)
           Room == {m \in 0 .. Size(t) - 1 : ~Valid(t.table[After(t, b, m)])}
<1>1. b \in Slots(t) BY BucketIs DEF IsTable
<1>2. Slots(t) = 0 .. Size(t) - 1 /\ Size(t) \in Nat BY SizeIs DEF Slots, IsTable
<1>3. Room \in SUBSET Nat /\ Room # {}
  <2>1. PICK i \in Slots(t) : ~Valid(t.table[i]) OBVIOUS
  <2>2. PICK m \in Slots(t) : i = After(t, b, m) BY <1>1, AfterIs DEF IsTable
  <2> QED BY <1>2, <2>1, <2>2
<1> DEFINE n == Min(Room)
<1>4. n \in Room /\ \A m \in Room : n <= m BY <1>3, HasSmallest
<1> DEFINE i == After(t, b, n)
           e == MakeHval(t, p, Stamp(t, h, n))
           u == HtAdd(t, p, h)
<1>5. u = [t EXCEPT !.table[i] = e] BY DEF HtAdd
<1>6. n \in Slots(t) /\ ~Valid(t.table[i]) BY <1>2, <1>4
<1>7. \A m \in 0 .. n - 1 : Valid(t.table[After(t, b, m)])
  <2>1. ASSUME NEW m \in 0 .. n - 1 PROVE m \notin Room BY <1>2, <1>4
  <2>2. \A m \in 0 .. n - 1 : m \in 0 .. Size(t) - 1 BY <1>2, <1>6
  <2> QED BY <2>1, <2>2
<1> HIDE DEF n
<1>8. i \in Slots(t) BY <1>1, <1>6, AfterIs DEF IsTable
<1>9. /\ e \in Word /\ Valid(e) /\ RawPtr(t, e) = p
      /\ ExtraPtrBits(t, e) = Stamp(t, h, n)
  <2>1. Stamp(t, h, n) \in SUBSET t.common_mask BY StampIs
  <2> QED BY <2>1, HvalIs
<1> HIDE DEF i, e, h, u
<1>10. u = [bits |-> t.bits, elems |-> t.elems, deleted |-> t.deleted,
            common_mask |-> t.common_mask, common_bits |-> t.common_bits,
            perfect_bit |-> t.perfect_bit, table |-> [t.table EXCEPT ![i] = e]]
  BY <1>5 DEF IsTable
<1>11. SameBits(u, t) /\ u.elems = t.elems /\ u.deleted = t.deleted BY <1>10 DEF SameBits
<1>12. u.table = [t.table EXCEPT ![i] = e] /\ u.table \in [Slots(t) -> Word]
  BY <1>8, <1>9, <1>10 DEF IsTable
<1>13. u.table[i] = e BY <1>8, <1>12 DEF IsTable
<1>14. IsTable(u)
  <2>1. Slots(u) = Slots(t) BY <1>11, Alike
  <2> QED BY <1>10, <1>12, <2>1 DEF IsTable
<1>15. PtrAt(u, i) = p /\ ExtraPtrBits(u, u.table[i]) = Stamp(t, h, n)
  BY <1>9, <1>11, <1>13, Alike DEF PtrAt
<1>16. u = [t EXCEPT !.table[i] = u.table[i]] BY <1>5, <1>13
<1> QED
  <2>1. TakesSlot(t, u, p, i, n)
    BY <1>6, <1>7, <1>8, <1>9, <1>11, <1>12, <1>13, <1>14, <1>15, <1>16 DEF TakesSlot, i, h
  <2> QED BY <2>1 DEF u, h

LEMMA TakenFacts ==
  ASSUME NEW t, IsTable(t), NEW u, NEW p, NEW i, NEW n, TakesSlot(t, u, p, i, n)
  PROVE  /\ Slots(u) = Slots(t)
         /\ Entries(u) = Entries(t) \cup {i} /\ i \notin Entries(t)
         /\ \A j \in Slots(t) : j # i => u.table[j] = t.table[j] /\ PtrAt(u, j) = PtrAt(t, j)
         /\ \A j \in Slots(t) : t.table[j] # {} => u.table[j] # {}
         /\ Marks(u) \subseteq Marks(t)
<1>1. Slots(u) = Slots(t) BY Alike DEF TakesSlot
<1>2. i \in Slots(t) /\ ~Valid(t.table[i]) /\ Valid(u.table[i]) BY DEF TakesSlot
<1>3. \A j \in Slots(t) : j # i => u.table[j] = t.table[j]
  BY DEF TakesSlot, IsTable
<1>4. \A j \in Slots(t) : j # i => PtrAt(u, j) = PtrAt(t, j)
  BY <1>3, Alike DEF TakesSlot, PtrAt
<1>5. \A j \in Slots(t) : t.table[j] # {} => u.table[j] # {} BY <1>2, <1>3 DEF Valid
<1>6. Entries(u) = Entries(t) \cup {i} /\ i \notin Entries(t)
  BY <1>1, <1>2, <1>3 DEF Entries
<1>7. Marks(u) \subseteq Marks(t) BY <1>1, <1>2, <1>3 DEF Marks, Valid
<1> QED BY <1>1, <1>3, <1>4, <1>5, <1>6, <1>7

LEMMA TakenPointers ==
  ASSUME NEW t, IsTable(t), NEW u, NEW p, NEW i, NEW n, TakesSlot(t, u, p, i, n)
  PROVE  /\ Pointers(u) = Pointers(t) \cup {p}
         /\ Distinct(t) /\ p \notin Pointers(t) => Distinct(u)
<1>1. Entries(u) = Entries(t) \cup {i} /\ i \notin Entries(t) /\ Entries(t) \subseteq Slots(t)
  BY TakenFacts DEF Entries
<1>2. \A j \in Entries(t) : j # i /\ PtrAt(u, j) = PtrAt(t, j) BY <1>1, TakenFacts
<1>3. PtrAt(u, i) = p BY DEF TakesSlot
<1>4. Pointers(u) = {PtrAt(u, j) : j \in Entries(u)} /\ Pointers(t) = {PtrAt(t, j) : j \in Entries(t)}
  BY DEF Pointers, PtrAt
<1>5. Pointers(u) = Pointers(t) \cup {p} BY <1>1, <1>2, <1>3, <1>4
<1>6. ASSUME Distinct(t), p \notin Pointers(t) PROVE Distinct(u)
  BY <1>1, <1>2, <1>3, <1>4, <1>6 DEF Distinct
<1> QED BY <1>5, <1>6

LEMMA WayDistance ==
  ASSUME NEW t, IsTable(t), NEW j \in Slots(t), NEW n \in Slots(t), NEW m \in 0 .. n - 1
  PROVE  After(t, Home(t, j), m) \in Slots(t)
<1>1. Home(t, j) \in Slots(t) BY BucketIs DEF IsTable, Home
<1>2. m \in Slots(t) BY SizeIs DEF IsTable, Slots
<1> QED BY <1>1, <1>2, AfterIs DEF IsTable

LEMMA TakenPlaces ==
  ASSUME NEW t, IsTable(t), NEW u, NEW p, NEW i, NEW n, TakesSlot(t, u, p, i, n)
  PROVE  /\ Placed(u, i)
         /\ \A j \in Entries(t) : Placed(t, j) => Placed(u, j)
<1>1. /\ Size(u) = Size(t) /\ Slots(u) = Slots(t)
      /\ \A e : RawPtr(u, e) = RawPtr(t, e) /\ ExtraPtrBits(u, e) = ExtraPtrBits(t, e)
      /\ \A h : Bucket(u, h) = Bucket(t, h)
      /\ \A h, m : Stamp(u, h, m) = Stamp(t, h, m)
      /\ \A k, m : After(u, k, m) = After(t, k, m)
  BY Alike DEF TakesSlot
<1>2. Slots(t) = 0 .. Size(t) - 1 BY DEF Slots
<1>3. \A j \in Slots(t) : t.table[j] # {} => u.table[j] # {} BY TakenFacts
<1>4. Home(u, i) = Bucket(t, hash[p]) /\ PtrAt(u, i) = p BY <1>1 DEF TakesSlot, Home
<1>5. Way(u, i, n)
  <2>1. i = After(u, Home(u, i), n) BY <1>1, <1>4 DEF TakesSlot
  <2>2. ExtraPtrBits(u, u.table[i]) = Stamp(u, hash[PtrAt(u, i)], n) BY <1>1, <1>4 DEF TakesSlot
  <2>3. ASSUME NEW m \in 0 .. n - 1 PROVE u.table[After(u, Home(u, i), m)] # {}
    <3>1. After(u, Home(u, i), m) = After(t, Bucket(t, hash[p]), m) BY <1>1, <1>4
    <3>2. t.table[After(t, Bucket(t, hash[p]), m)] # {} BY DEF TakesSlot, Valid
    <3>3. After(t, Bucket(t, hash[p]), m) \in Slots(t)
      <4>1. n \in Slots(t) BY DEF TakesSlot
      <4>2. m \in Slots(t) BY <4>1, SizeIs DEF IsTable, Slots
      <4> QED BY <4>2, BucketIs, AfterIs DEF IsTable
    <3> QED BY <1>3, <3>1, <3>2, <3>3
  <2> QED BY <2>1, <2>2, <2>3 DEF Way
<1>6. ASSUME NEW j \in Entries(t), Placed(t, j) PROVE Placed(u, j)
  <2>1. PICK m \in Slots(t) : Way(t, j, m) BY <1>2, <1>6 DEF Placed
  <2>2. j \in Slots(t) /\ u.table[j] = t.table[j] /\ PtrAt(u, j) = PtrAt(t, j)
    BY TakenFacts DEF Entries
  <2>3. Home(u, j) = Home(t, j) BY <1>1, <2>2 DEF Home
  <2>4. ASSUME NEW k \in 0 .. m - 1 PROVE u.table[After(u, Home(u, j), k)] # {}
    <3>1. After(t, Home(t, j), k) \in Slots(t) BY <2>2, WayDistance
    <3>2. t.table[After(t, Home(t, j), k)] # {} BY <2>1 DEF Way
    <3> QED BY <1>1, <1>3, <2>3, <3>1, <3>2
  <2>5. Way(u, j, m) BY <1>1, <2>1, <2>2, <2>3, <2>4 DEF Way
  <2> QED BY <1>1, <1>2, <2>5 DEF Placed
<1>7. n \in 0 .. Size(u) - 1 BY <1>1, <1>2 DEF TakesSlot
<1> QED BY <1>5, <1>6, <1>7 DEF Placed

(***************************************************************************)
(* A slot that no longer has an entry.                                     *)
(***************************************************************************)
ClearsSlot(t, u, i) ==
  /\ IsTable(u) /\ SameBits(u, t) /\ i \in Slots(t) /\ ~Valid(u.table[i])
  /\ u.table = [t.table EXCEPT ![i] = u.table[i]]

LEMMA ClearedFacts ==
  ASSUME NEW t, IsTable(t), NEW u, NEW i, ClearsSlot(t, u, i)
  PROVE  /\ Slots(u) = Slots(t) /\ Entries(u) = Entries(t) \ {i}
         /\ \A j \in Slots(t) : j # i => u.table[j] = t.table[j] /\ PtrAt(u, j) = PtrAt(t, j)
         /\ Distinct(t) => Distinct(u)
         /\ Distinct(t) /\ i \in Entries(t) => Pointers(u) = Pointers(t) \ {PtrAt(t, i)}
         /\ i \notin Entries(t) => Pointers(u) = Pointers(t)
<1>1. Slots(u) = Slots(t) BY Alike DEF ClearsSlot
<1>2. \A j \in Slots(t) : j # i => u.table[j] = t.table[j]
  BY DEF ClearsSlot, IsTable
<1>3. \A j \in Slots(t) : j # i => PtrAt(u, j) = PtrAt(t, j)
  BY <1>2, Alike DEF ClearsSlot, PtrAt
<1>4. Entries(u) = Entries(t) \ {i} BY <1>1, <1>2 DEF Entries, ClearsSlot
<1>5. Entries(t) \subseteq Slots(t) BY DEF Entries
<1>6. Pointers(u) = {PtrAt(u, j) : j \in Entries(u)} /\ Pointers(t) = {PtrAt(t, j) : j \in Entries(t)}
  BY DEF Pointers, PtrAt
<1>7. \A j \in Entries(u) : PtrAt(u, j) = PtrAt(t, j) /\ j \in Entries(t) /\ j # i
  BY <1>3, <1>4, <1>5
<1>8. Distinct(t) => Distinct(u) BY <1>7 DEF Distinct
<1>9. ASSUME Distinct(t), i \in Entries(t) PROVE Pointers(u) = Pointers(t) \ {PtrAt(t, i)}
  <2>1. ASSUME NEW p \in Pointers(u) PROVE p \in Pointers(t) \ {PtrAt(t, i)}
    BY <1>6, <1>7, <1>9 DEF Distinct
  <2>2. ASSUME NEW p \in Pointers(t), p # PtrAt(t, i) PROVE p \in Pointers(u)
    BY <1>3, <1>4, <1>5, <1>6, <2>2
  <2> QED BY <2>1, <2>2
<1>10. ASSUME i \notin Entries(t) PROVE Pointers(u) = Pointers(t)
  BY <1>3, <1>4, <1>5, <1>6, <1>10
<1> QED BY <1>1, <1>2, <1>3, <1>4, <1>8, <1>9, <1>10

LEMMA ClearedPlaces ==
  ASSUME NEW t, IsTable(t), NEW u, NEW i, ClearsSlot(t, u, i), u.table[i] # {},
         NEW j \in Entries(t) \ {i}, Placed(t, j)
  PROVE  Placed(u, j)
<1>1. /\ Size(u) = Size(t) /\ Slots(u) = Slots(t)
      /\ \A e : RawPtr(u, e) = RawPtr(t, e) /\ ExtraPtrBits(u, e) = ExtraPtrBits(t, e)
      /\ \A h : Bucket(u, h) = Bucket(t, h)
      /\ \A h, m : Stamp(u, h, m) = Stamp(t, h, m)
      /\ \A k, m : After(u, k, m) = After(t, k, m)
  BY Alike DEF ClearsSlot
<1>2. Slots(t) = 0 .. Size(t) - 1 BY DEF Slots
<1>3. \A k \in Slots(t) : t.table[k] # {} => u.table[k] # {} BY ClearedFacts
<1>4. PICK m \in Slots(t) : Way(t, j, m) BY <1>2 DEF Placed
<1>5. j \in Slots(t) /\ u.table[j] = t.table[j] /\ PtrAt(u, j) = PtrAt(t, j)
  BY ClearedFacts DEF Entries
<1>6. Home(u, j) = Home(t, j) BY <1>1, <1>5 DEF Home
<1>7. ASSUME NEW k \in 0 .. m - 1 PROVE u.table[After(u, Home(u, j), k)] # {}
  <2>1. After(t, Home(t, j), k) \in Slots(t) BY <1>5, WayDistance
  <2>2. t.table[After(t, Home(t, j), k)] # {} BY <1>4 DEF Way
  <2> QED BY <1>1, <1>3, <1>6, <2>1, <2>2
<1>8. Way(u, j, m) BY <1>1, <1>4, <1>5, <1>6, <1>7 DEF Way
<1> QED BY <1>1, <1>2, <1>8 DEF Placed

(***************************************************************************)
(* Counting.                                                               *)
(***************************************************************************)
LEMMA SlotsAreFinite ==
  ASSUME NEW t, t.bits \in 0 .. MaxBits
  PROVE  IsFiniteSet(Slots(t)) /\ Cardinality(Slots(t)) = Size(t)
<1>1. PICK S \in Nat \ {0} : S = Size(t) BY SizeIs
<1>2. IsFiniteSet(0 .. S - 1) /\ Cardinality(0 .. S - 1) = S BY FS_Interval
<1> QED BY <1>1, <1>2 DEF Slots

LEMMA Counting ==
  ASSUME NEW t, IsTable(t)
  PROVE  /\ IsFiniteSet(Entries(t)) /\ Cardinality(Entries(t)) \in Nat
         /\ IsFiniteSet(Marks(t)) /\ Cardinality(Marks(t)) \in Nat
         /\ Cardinality(Entries(t)) <= Size(t)
         /\ Cardinality(Entries(t)) < Size(t) => \E i \in Slots(t) : ~Valid(t.table[i])
         /\ Cardinality(Entries(t)) + Cardinality(Marks(t)) < Size(t) =>
              \E i \in Slots(t) : t.table[i] = {}
<1>1. IsFiniteSet(Slots(t)) /\ Cardinality(Slots(t)) = Size(t)
  BY SlotsAreFinite DEF IsTable
<1>2. Entries(t) \in SUBSET Slots(t) /\ Marks(t) \in SUBSET Slots(t) BY DEF Entries, Marks
<1>3. /\ IsFiniteSet(Entries(t)) /\ Cardinality(Entries(t)) \in Nat
      /\ Cardinality(Entries(t)) <= Size(t)
  BY <1>1, <1>2, FS_Subset, FS_CardinalityType
<1>4. IsFiniteSet(Marks(t)) /\ Cardinality(Marks(t)) \in Nat
  BY <1>1, <1>2, FS_Subset, FS_CardinalityType
<1>5. ASSUME Cardinality(Entries(t)) < Size(t) PROVE \E i \in Slots(t) : ~Valid(t.table[i])
  <2>1. Entries(t) # Slots(t) BY <1>1, <1>3, <1>5, SizeIs DEF IsTable
  <2> QED BY <1>2, <2>1 DEF Entries
<1>6. ASSUME Cardinality(Entries(t)) + Cardinality(Marks(t)) < Size(t)
      PROVE  \E i \in Slots(t) : t.table[i] = {}
  <2>1. Entries(t) \cap Marks(t) = {} BY DEF Entries, Marks, Valid
  <2>2. Cardinality(Entries(t) \cup Marks(t)) = Cardinality(Entries(t)) + Cardinality(Marks(t))
    <3>1. Cardinality({}) = 0 BY FS_EmptySet
    <3>2. Cardinality(Entries(t) \cup Marks(t)) =
            Cardinality(Entries(t)) + Cardinality(Marks(t)) - Cardinality(Entries(t) \cap Marks(t))
      BY <1>3, <1>4, FS_Union, Zenon
    <3>3. PICK a, b, c : /\ a = Cardinality(Entries(t)) /\ b = Cardinality(Marks(t))
                         /\ c = Cardinality(Entries(t) \cup Marks(t))
      OBVIOUS
    <3>4. c = a + b - 0 BY <2>1, <3>1, <3>2, <3>3
    <3>5. a \in Nat /\ b \in Nat BY <1>3, <1>4, <3>3
    <3>6. c = a + b BY <3>4, <3>5
    <3> QED BY <3>3, <3>6
  <2>3. Entries(t) \cup Marks(t) # Slots(t) BY <1>1, <1>3, <1>4, <1>6, <2>2, SizeIs DEF IsTable
  <2> QED BY <1>2, <2>3 DEF Entries, Marks, Valid
<1> QED BY <1>3, <1>4, <1>5, <1>6

LEMMA PointersCount ==
  ASSUME NEW t, IsTable(t), Distinct(t)
  PROVE  IsFiniteSet(Pointers(t)) /\ Cardinality(Pointers(t)) = Cardinality(Entries(t))
<1> DEFINE f == [i \in Entries(t) |-> PtrAt(t, i)]
<1>1. f \in Bijection(Entries(t), Pointers(t))
  <2>1. f \in [Entries(t) -> Pointers(t)] BY DEF Pointers, PtrAt
  <2>2. f \in Injection(Entries(t), Pointers(t))
    BY <2>1 DEF Distinct, Injection, IsInjective
  <2>3. f \in Surjection(Entries(t), Pointers(t))
    BY <2>1 DEF Pointers, PtrAt, Surjection
  <2> QED BY <2>2, <2>3 DEF Bijection
<1>2. ExistsBijection(Entries(t), Pointers(t)) BY <1>1 DEF ExistsBijection
<1> QED BY <1>2, Counting, FS_Bijection

(***************************************************************************)
(* Tables that differ in their slots only.                                 *)
(***************************************************************************)
Like(t) ==
  [bits : {t.bits}, elems : {t.elems}, deleted : {t.deleted}, common_mask : {t.common_mask},
   common_bits : {t.common_bits}, perfect_bit : {t.perfect_bit}, table : [Slots(t) -> Word]]

LEMMA LikeIs ==
  ASSUME NEW t, IsTable(t)
  PROVE  /\ t \in Like(t)
         /\ \A x \in Like(t) : /\ IsTable(x) /\ SameBits(x, t) /\ Slots(x) = Slots(t)
                               /\ x.elems = t.elems /\ x.deleted = t.deleted
         /\ \A x : IsTable(x) /\ SameBits(x, t) /\ x.elems = t.elems /\ x.deleted = t.deleted
                     => x \in Like(t)
<1>1. t \in Like(t) BY DEF IsTable, Like
<1>2. ASSUME NEW x \in Like(t)
      PROVE  /\ IsTable(x) /\ SameBits(x, t) /\ Slots(x) = Slots(t)
             /\ x.elems = t.elems /\ x.deleted = t.deleted
  <2>1. SameBits(x, t) /\ x.elems = t.elems /\ x.deleted = t.deleted BY DEF Like, SameBits
  <2>2. Slots(x) = Slots(t) BY <2>1, Alike
  <2>3. IsTable(x) BY <2>2 DEF Like, IsTable
  <2> QED BY <2>1, <2>2, <2>3
<1>3. ASSUME NEW x, IsTable(x), SameBits(x, t), x.elems = t.elems, x.deleted = t.deleted
      PROVE  x \in Like(t)
  <2>1. Slots(x) = Slots(t) BY <1>3, Alike
  <2> QED BY <1>3, <2>1 DEF Like, IsTable, SameBits
<1> QED BY <1>1, <1>2, <1>3

LEMMA WrittenLike ==
  ASSUME NEW t, IsTable(t), NEW x \in Like(t), NEW i, NEW e \in Word
  PROVE  /\ [x EXCEPT !.table[i] = e] \in Like(t)
         /\ [x EXCEPT !.table[i] = e].table = [x.table EXCEPT ![i] = e]
<1> DEFINE y == [x EXCEPT !.table[i] = e]
<1>1. y = [bits |-> x.bits, elems |-> x.elems, deleted |-> x.deleted,
           common_mask |-> x.common_mask, common_bits |-> x.common_bits,
           perfect_bit |-> x.perfect_bit, table |-> [x.table EXCEPT ![i] = e]]
  BY DEF Like
<1>2. x.table \in [Slots(t) -> Word] BY DEF Like
<1>3. [x.table EXCEPT ![i] = e] \in [Slots(t) -> Word] BY <1>2
<1> QED BY <1>1, <1>3 DEF Like

LEMMA PointerBits ==
  ASSUME NEW t, IsTable(t), NEW e \in Word
  PROVE  /\ RawPtr(t, e) \in Word
         /\ RawPtr(t, e) \cap t.common_mask = t.common_bits
<1>1. t.common_bits \in Word /\ t.common_bits \subseteq t.common_mask BY DEF IsTable
<1>2. RawPtr(t, e) \in Word BY <1>1 DEF RawPtr, Word
<1> QED BY <1>1, <1>2 DEF RawPtr

LEMMA ReinsertedLike ==
  ASSUME NEW t, IsTable(t), NEW x \in Like(t), NEW e \in Word
  PROVE  Reinserted(x, e) \in Like(t)
<1>1. IsTable(x) BY LikeIs
<1> DEFINE p == RawPtr(x, e)
<1>2. p \in Word BY <1>1, PointerBits
<1>3. \A n : MakeHval(x, p, Stamp(x, hash[p], n)) \in Word
  <2>1. \A n : Stamp(x, hash[p], n) \subseteq x.common_mask BY <1>1, StampIs
  <2>2. x.common_mask \in Word BY <1>1 DEF IsTable
  <2> QED BY <1>2, <2>1, <2>2 DEF MakeHval, Word
<1>4. HtAdd(x, p, hash[p]) \in Like(t)
  <2> DEFINE n == Min({m \in 0 .. Size(x) - 1 : ~Valid(x.table[After(x, Bucket(x, hash[p]), m)])})
  <2>1. HtAdd(x, p, hash[p]) =
          [x EXCEPT !.table[After(x, Bucket(x, hash[p]), n)] = MakeHval(x, p, Stamp(x, hash[p], n))]
    BY DEF HtAdd
  <2> HIDE DEF n, p
  <2> QED BY <1>3, <2>1, WrittenLike
<1> QED BY <1>4 DEF Reinserted

(***************************************************************************)
(* double_table.                                                           *)
(***************************************************************************)
LEMMA GrownIs ==
  ASSUME NEW t, IsTable(t), t.bits < MaxBits
  PROVE  /\ IsTable(Grown(t)) /\ Size(Grown(t)) = 2 * Size(t)
         /\ Grown(t).common_mask = t.common_mask /\ Grown(t).common_bits = t.common_bits
         /\ Grown(t).elems = t.elems /\ Grown(t).deleted = 0
         /\ Grown(t).bits = t.bits + 1
         /\ Entries(Grown(t)) = {} /\ Marks(Grown(t)) = {}
<1> DEFINE g == Grown(t)
           perfect == IF t.perfect_bit = {} THEN LowestBit(t.common_mask) ELSE t.perfect_bit
           new == [i \in 0 .. 2 * Size(t) - 1 |-> {}]
<1>0. MaxBits \in Nat /\ t.bits + 1 \in 1 .. MaxBits /\ t.bits + 1 \in 0 .. MaxBits
  BY MaxBitsPositive, WidthPositive DEF IsTable
<1>a. /\ g = [t EXCEPT !.bits = t.bits + 1, !.table = new, !.perfect_bit = perfect, !.deleted = 0]
      /\ t.elems \in Nat /\ t.common_mask \in Word /\ t.common_bits \in Word
      /\ t.common_bits \subseteq t.common_mask
  BY DEF IsTable, Grown
<1>b. PICK q, w : q = perfect /\ w = new OBVIOUS
<1>1. g = [bits |-> t.bits + 1, elems |-> t.elems, deleted |-> 0,
           common_mask |-> t.common_mask, common_bits |-> t.common_bits,
           perfect_bit |-> q, table |-> w]
  <2> HIDE DEF g, perfect, new
  <2> QED BY <1>a, <1>b DEF IsTable
<1>c. /\ g.bits = t.bits + 1 /\ g.elems = t.elems /\ g.deleted = 0
      /\ g.common_mask = t.common_mask /\ g.common_bits = t.common_bits
      /\ g.perfect_bit = q /\ g.table = w
  <2> HIDE DEF g
  <2> QED BY <1>1
<1>2. PowerOf2[t.bits + 1] = 2 * PowerOf2[t.bits]
  <2>1. (t.bits + 1) - 1 = t.bits BY DEF IsTable
  <2> QED BY <1>0, <2>1, Powers
<1>3. Size(g) = 2 * Size(t)
  <2> HIDE DEF g
  <2> QED BY <1>2, <1>c DEF Size
<1>4. Slots(g) = 0 .. 2 * Size(t) - 1 BY <1>3 DEF Slots
<1>5. perfect \subseteq t.common_mask
  <2>1. CASE t.perfect_bit # {} BY <2>1 DEF IsTable
  <2>2. CASE t.perfect_bit = {}
    <3>1. t.common_mask \in SUBSET Nat BY WidthPositive DEF IsTable, Word
    <3>2. t.common_mask # {} => Min(t.common_mask) \in t.common_mask BY <3>1, HasSmallest
    <3> QED BY <2>2, <3>2 DEF LowestBit
  <2> QED BY <2>1, <2>2
<1>6. perfect \in Word BY <1>5 DEF IsTable, Word
<1>7. new \in [Slots(g) -> Word] BY <1>4 DEF Word
<1> HIDE DEF g, perfect, new
<1>8. IsTable(g) BY <1>0, <1>1, <1>5, <1>6, <1>7, <1>a, <1>b, <1>c DEF IsTable
<1>9. \A i \in Slots(g) : g.table[i] = {} BY <1>4, <1>b, <1>c DEF new
<1>10. Entries(g) = {} /\ Marks(g) = {} BY <1>9 DEF Entries, Marks, Valid, Deleted
<1> QED BY <1>3, <1>8, <1>10, <1>c DEF g

LEMMA MovedIs ==
  ASSUME NEW t, IsTable(t), t.bits < MaxBits
  PROVE  /\ Moved(t)[0] = Grown(t)
         /\ \A i \in 1 .. Size(t) : Moved(t)[i] = Reinserted(Moved(t)[i - 1], t.table[i - 1])
         /\ \A i \in 0 .. Size(t) : Moved(t)[i] \in Like(Grown(t))
<1>0. PICK N \in Nat : N = Size(t) BY SizeIs DEF IsTable
<1> DEFINE T == Like(Grown(t))
           G == [i \in 1 .. N |-> [x \in T |-> Reinserted(x, t.table[i - 1])]]
           Eq(f) == f = [i \in 0 .. N |-> IF i = 0 THEN Grown(t) ELSE Reinserted(f[i - 1], t.table[i - 1])]
<1>1. IsTable(Grown(t)) /\ Grown(t) \in T BY GrownIs, LikeIs
<1>2. \A i \in 1 .. N : t.table[i - 1] \in Word
  <2>1. \A i \in 1 .. N : i - 1 \in Slots(t) BY <1>0 DEF Slots
  <2> QED BY <2>1 DEF IsTable
<1>3. \A i \in 1 .. N : \A x \in T : Reinserted(x, t.table[i - 1]) \in T
  BY <1>1, <1>2, ReinsertedLike
<1> HIDE DEF T
<1>4. PICK g \in [0 .. N -> T] : Iterates(g, N, Grown(t), G)
  <2>1. StaysIn(T, N, G) BY <1>3 DEF StaysIn
  <2> HIDE DEF G
  <2> QED BY <1>1, <2>1, Recursion, Zenon
<1> USE DEF Iterates
<1>5. Eq(g)
  <2>1. ASSUME NEW i \in 0 .. N
        PROVE  g[i] = IF i = 0 THEN Grown(t) ELSE Reinserted(g[i - 1], t.table[i - 1])
    <3>1. CASE i = 0 BY <1>4, <3>1
    <3>2. CASE i # 0
      <4>1. i \in 1 .. N /\ i - 1 \in 0 .. N BY <3>2
      <4>2. g[i - 1] \in T BY <4>1
      <4> QED BY <1>4, <3>2, <4>1, <4>2
    <3> QED BY <3>1, <3>2
  <2> QED BY <2>1
<1>6. Moved(t) = CHOOSE f : Eq(f) BY <1>0 DEF Moved
<1> DEFINE f == Moved(t)
<1>7. Eq(f)
  <2> HIDE DEF Eq
  <2> QED BY <1>5, <1>6
<1>8. f[0] = Grown(t) /\ \A i \in 1 .. N : f[i] = Reinserted(f[i - 1], t.table[i - 1])
  <2> HIDE DEF f
  <2> QED BY <1>7
<1> HIDE DEF f
<1> DEFINE S == {i \in 0 .. N : f[i] \in T}
<1>9. \A i \in 0 .. N : i \in S
  <2>1. 0 \in S BY <1>1, <1>8
  <2>2. ASSUME NEW i \in 1 .. N, i - 1 \in S PROVE i \in S
    <3>1. f[i - 1] \in T BY <2>2
    <3>2. f[i] \in T BY <1>3, <1>8, <3>1
    <3> QED BY <3>2
  <2> HIDE DEF S
  <2> QED BY <2>1, <2>2, UpTo
<1> QED BY <1>0, <1>8, <1>9 DEF f, T

(***************************************************************************)
(* A sound table: its pointers are elements, each there once, and every    *)
(* entry shows the highest bit of its pointer.                             *)
(***************************************************************************)
Sound(t, top) ==
  /\ IsTable(t) /\ Distinct(t) /\ Pointers(t) \subseteq Elements
  /\ Entries(t) # {} => top \notin t.common_mask
AllPlaced(t) == \A i \in Entries(t) : Placed(t, i)

LEMMA EntryIs ==
  ASSUME NEW t, NEW top, Sound(t, top), NEW i \in Entries(t)
  PROVE  /\ i \in Slots(t) /\ t.table[i] \in Word /\ Valid(t.table[i])
         /\ PtrAt(t, i) \in Elements /\ PtrAt(t, i) \in Pointers(t)
         /\ PtrAt(t, i) \cap t.common_mask = t.common_bits
         /\ top \notin t.common_mask
<1>1. i \in Slots(t) /\ Valid(t.table[i]) BY DEF Entries
<1>2. t.table[i] \in Word BY <1>1 DEF Sound, IsTable
<1>3. PtrAt(t, i) \in Pointers(t) BY DEF Pointers, PtrAt
<1>4. PtrAt(t, i) \cap t.common_mask = t.common_bits
  BY <1>2, PointerBits DEF Sound, PtrAt
<1> QED BY <1>1, <1>2, <1>3, <1>4 DEF Sound

(* A table takes the entry of another with the same common bits. *)
LEMMA Reinserts ==
  ASSUME NEW t, IsTable(t), NEW top, IsTop(top), top \notin t.common_mask,
         NEW e \in Word, Valid(e), RawPtr(t, e) \in Elements,
         \E i \in Slots(t) : ~Valid(t.table[i])
  PROVE  \E i, n : TakesSlot(t, Reinserted(t, e), RawPtr(t, e), i, n)
<1> DEFINE p == RawPtr(t, e)
<1>1. p \cap t.common_mask = t.common_bits BY PointerBits
<1>2. Reinserted(t, e) = HtAdd(t, p, hash[p]) BY DEF Reinserted
<1> QED BY <1>1, <1>2, HtAddTakes

(* The first i entries have moved. *)
MovedUpTo(t, x, i) ==
  /\ Distinct(x) /\ AllPlaced(x) /\ Marks(x) = {}
  /\ Pointers(x) = {PtrAt(t, j) : j \in {k \in Entries(t) : k < i}}

LEMMA MovesEntry ==
  ASSUME NEW t, NEW top, Sound(t, top), IsTop(top), t.bits < MaxBits,
         NEW i \in 1 .. Size(t), NEW x \in Like(Grown(t)), MovedUpTo(t, x, i - 1)
  PROVE  MovedUpTo(t, Reinserted(x, t.table[i - 1]), i)
<1> DEFINE e == t.table[i - 1]
           u == Reinserted(x, e)
<1>0. IsTable(t) BY DEF Sound
<1>1. IsTable(x) /\ SameBits(x, Grown(t)) /\ Slots(x) = Slots(Grown(t))
  BY <1>0, GrownIs, LikeIs
<1>2. i - 1 \in Slots(t) /\ Size(t) \in Nat BY <1>0, SizeIs DEF IsTable, Slots
<1>3. Entries(t) \subseteq Slots(t) /\ \A j \in Slots(t) : j \in Nat BY DEF Entries, Slots
<1>4. CASE ~Valid(e)
  <2>1. u = x BY <1>4 DEF Reinserted
  <2>2. i - 1 \notin Entries(t) BY <1>4 DEF Entries
  <2>3. {k \in Entries(t) : k < i} = {k \in Entries(t) : k < i - 1} BY <1>2, <1>3, <2>2
  <2> QED BY <2>1, <2>3 DEF MovedUpTo
<1>5. CASE Valid(e)
  <2>1. i - 1 \in Entries(t) BY <1>2, <1>5 DEF Entries
  <2>2. /\ e \in Word /\ PtrAt(t, i - 1) \in Elements /\ top \notin t.common_mask
    BY <2>1, EntryIs
  <2>3. x.common_mask = t.common_mask /\ x.common_bits = t.common_bits
    BY <1>0, <1>1, GrownIs DEF SameBits
  <2>4. RawPtr(x, e) = PtrAt(t, i - 1) BY <2>3 DEF RawPtr, PtrAt
  <2> DEFINE p == PtrAt(t, i - 1)
  <2>5. p \notin Pointers(x) BY <1>2, <1>3, <2>1 DEF MovedUpTo, Sound, Distinct
  <2>6. \E k \in Slots(x) : ~Valid(x.table[k])
    <3>1. Pointers(x) \in SUBSET Pointers(t) BY DEF MovedUpTo, Pointers, PtrAt
    <3>2. Cardinality(Pointers(x)) <= Cardinality(Pointers(t))
      BY <3>1, PointersCount, FS_Subset DEF Sound
    <3>3. Cardinality(Pointers(t)) = Cardinality(Entries(t)) /\ Cardinality(Entries(t)) <= Size(t)
      BY <1>0, PointersCount, Counting DEF Sound
    <3>4. Cardinality(Pointers(x)) = Cardinality(Entries(x)) /\ Cardinality(Entries(x)) \in Nat
      BY <1>1, PointersCount, Counting DEF MovedUpTo
    <3>5. Size(x) = 2 * Size(t) BY <1>0, <1>1, Alike, GrownIs
    <3>6. Size(t) \in Nat \ {0} /\ Cardinality(Entries(t)) \in Nat BY <1>0, SizeIs, Counting DEF IsTable
    <3>7. Cardinality(Entries(x)) < Size(x) BY <3>2, <3>3, <3>4, <3>5, <3>6
    <3> QED BY <1>1, <3>7, Counting
  <2>7. PICK k, n : TakesSlot(x, u, p, k, n) BY <1>1, <1>5, <2>2, <2>3, <2>4, <2>6, Reinserts
  <2>8. Pointers(u) = Pointers(x) \cup {p} /\ Distinct(u)
    BY <1>1, <2>5, <2>7, TakenPointers DEF MovedUpTo
  <2>9. AllPlaced(u)
    <3>1. Entries(u) = Entries(x) \cup {k} BY <1>1, <2>7, TakenFacts
    <3>2. Placed(u, k) /\ \A j \in Entries(x) : Placed(x, j) => Placed(u, j)
      BY <1>1, <2>7, TakenPlaces
    <3> QED BY <3>1, <3>2 DEF AllPlaced, MovedUpTo
  <2>10. Marks(u) = {} BY <1>1, <2>7, TakenFacts DEF MovedUpTo
  <2>11. {j \in Entries(t) : j < i} = {j \in Entries(t) : j < i - 1} \cup {i - 1} BY <1>2, <1>3, <2>1
  <2>12. Pointers(u) = {PtrAt(t, j) : j \in {k2 \in Entries(t) : k2 < i}}
    BY <2>8, <2>11 DEF MovedUpTo
  <2> QED BY <2>8, <2>9, <2>10, <2>12 DEF MovedUpTo
<1> QED BY <1>4, <1>5

LEMMA Doubles ==
  ASSUME NEW t, NEW top, Sound(t, top), IsTop(top), t.bits < MaxBits
  PROVE  /\ Sound(DoubleTable(t), top) /\ AllPlaced(DoubleTable(t))
         /\ Pointers(DoubleTable(t)) = Pointers(t) /\ Marks(DoubleTable(t)) = {}
         /\ Size(DoubleTable(t)) = 2 * Size(t)
         /\ DoubleTable(t).elems = t.elems /\ DoubleTable(t).deleted = 0
         /\ DoubleTable(t).common_mask = t.common_mask /\ DoubleTable(t).common_bits = t.common_bits
<1>0. IsTable(t) BY DEF Sound
<1>1. PICK N \in Nat : N = Size(t) BY <1>0, SizeIs DEF IsTable
<1>2. PICK f : f = Moved(t) OBVIOUS
<1> DEFINE S == {i \in 0 .. N : MovedUpTo(t, f[i], i)}
<1>3. \A i \in 0 .. N : i \in S
  <2>1. 0 \in S
    <3>1. f[0] = Grown(t) /\ Entries(f[0]) = {} /\ Marks(f[0]) = {} BY <1>0, <1>2, MovedIs, GrownIs
    <3>2. {k \in Entries(t) : k < 0} = {} BY <1>0, SizeIs DEF Entries, Slots, IsTable
    <3>3. Pointers(f[0]) = {} BY <3>1 DEF Pointers
    <3>4. Distinct(f[0]) /\ AllPlaced(f[0]) BY <3>1 DEF Distinct, AllPlaced
    <3>5. MovedUpTo(t, f[0], 0) BY <3>1, <3>2, <3>3, <3>4 DEF MovedUpTo
    <3> QED BY <3>5
  <2>2. ASSUME NEW i \in 1 .. N, i - 1 \in S PROVE i \in S
    <3>1. f[i] = Reinserted(f[i - 1], t.table[i - 1]) BY <1>0, <1>1, <1>2, MovedIs
    <3>2. f[i - 1] \in Like(Grown(t))
      <4>1. i - 1 \in 0 .. N OBVIOUS
      <4> QED BY <1>0, <1>1, <1>2, <4>1, MovedIs
    <3>3. MovedUpTo(t, f[i - 1], i - 1) BY <2>2
    <3>4. MovedUpTo(t, f[i], i) BY <1>1, <3>1, <3>2, <3>3, MovesEntry
    <3> QED BY <3>4
  <2> HIDE DEF S
  <2> QED BY <2>1, <2>2, UpTo
<1>4. PICK d : d = DoubleTable(t) OBVIOUS
<1>5. d = f[N] BY <1>1, <1>2, <1>4 DEF DoubleTable
<1>6. MovedUpTo(t, d, N) BY <1>3, <1>5
<1>7. d \in Like(Grown(t)) BY <1>0, <1>1, <1>2, <1>5, MovedIs
<1>8. IsTable(d) /\ SameBits(d, Grown(t)) /\ d.elems = t.elems /\ d.deleted = 0
  BY <1>0, <1>7, GrownIs, LikeIs
<1>9. d.common_mask = t.common_mask /\ d.common_bits = t.common_bits
  BY <1>0, <1>8, GrownIs DEF SameBits
<1>10. Size(d) = 2 * Size(t) BY <1>0, <1>8, GrownIs, Alike
<1>11. Pointers(d) = Pointers(t)
  <2>1. {k \in Entries(t) : k < N} = Entries(t) BY <1>1 DEF Entries, Slots
  <2> QED BY <1>6, <2>1 DEF MovedUpTo, Pointers, PtrAt
<1>12. Entries(d) # {} => Entries(t) # {} BY <1>11 DEF Pointers
<1>13. Sound(d, top) BY <1>6, <1>8, <1>9, <1>11, <1>12 DEF Sound, MovedUpTo
<1> QED BY <1>4, <1>6, <1>8, <1>9, <1>10, <1>11, <1>13 DEF MovedUpTo

(***************************************************************************)
(* rehash_table: the slots in the order of its walk.                       *)
(***************************************************************************)
HasEmpty(t) == \E i \in Slots(t) : t.table[i] = {}
At(t, m) == After(t, FirstEmpty(t), m)

LEMMA FirstEmptyIs ==
  ASSUME NEW t, IsTable(t), HasEmpty(t)
  PROVE  FirstEmpty(t) \in Slots(t) /\ t.table[FirstEmpty(t)] = {}
<1> DEFINE S == {i \in Slots(t) : t.table[i] = {}}
<1>1. S \in SUBSET Nat /\ S # {} BY DEF HasEmpty, Slots
<1>2. Min(S) \in S BY <1>1, HasSmallest
<1> QED BY <1>2 DEF FirstEmpty

LEMMA AtIs ==
  ASSUME NEW t, IsTable(t), HasEmpty(t)
  PROVE  /\ \A m \in Slots(t) : At(t, m) \in Slots(t)
         /\ \A i \in Slots(t) : \E m \in Slots(t) : i = At(t, m)
         /\ \A m, k \in Slots(t) : At(t, m) = At(t, k) => m = k
         /\ \A a, d \in Slots(t) : a + d < Size(t) => After(t, At(t, a), d) = At(t, a + d)
         /\ \A a, d \in Slots(t) : a + d >= Size(t) =>
              Size(t) - a \in Slots(t) /\ After(t, At(t, a), Size(t) - a) = FirstEmpty(t)
<1> DEFINE s == FirstEmpty(t)
<1>1. s \in Slots(t) BY FirstEmptyIs
<1>2. PICK S \in Nat \ {0} : S = Size(t) BY SizeIs DEF IsTable
<1>3. Slots(t) = 0 .. S - 1 BY <1>2 DEF Slots
<1>4. \A m \in Slots(t) : At(t, m) \in Slots(t) /\ At(t, m) = IF s + m < S THEN s + m ELSE s + m - S
  BY <1>1, <1>2, AfterIs DEF IsTable, At
<1>5. /\ \A i \in Slots(t) : \E m \in Slots(t) : i = At(t, m)
      /\ \A m, k \in Slots(t) : At(t, m) = At(t, k) => m = k
  BY <1>1, AfterIs DEF IsTable, At
<1>6. \A a, d \in Slots(t) : After(t, At(t, a), d) =
        IF At(t, a) + d < S THEN At(t, a) + d ELSE At(t, a) + d - S
  <2>1. ASSUME NEW a \in Slots(t), NEW d \in Slots(t)
        PROVE  After(t, At(t, a), d) = IF At(t, a) + d < Size(t) THEN At(t, a) + d ELSE At(t, a) + d - Size(t)
    <3>1. At(t, a) \in Slots(t) BY <1>4
    <3> QED BY <3>1, AfterIs DEF IsTable
  <2> QED BY <1>2, <2>1
<1> HIDE DEF s
<1>7. ASSUME NEW a \in 0 .. S - 1, NEW d \in 0 .. S - 1, a + d < S
      PROVE  After(t, At(t, a), d) = At(t, a + d)
  <2>1. a + d \in 0 .. S - 1 BY <1>7
  <2>2. At(t, a + d) = IF s + (a + d) < S THEN s + (a + d) ELSE s + (a + d) - S BY <1>3, <1>4, <2>1
  <2>3. At(t, a) = IF s + a < S THEN s + a ELSE s + a - S BY <1>3, <1>4
  <2>4. After(t, At(t, a), d) = IF At(t, a) + d < S THEN At(t, a) + d ELSE At(t, a) + d - S
    BY <1>3, <1>6
  <2> QED BY <1>1, <1>3, <1>7, <2>2, <2>3, <2>4
<1>8. ASSUME NEW a \in 0 .. S - 1, NEW d \in 0 .. S - 1, a + d >= S
      PROVE  S - a \in 0 .. S - 1 /\ After(t, At(t, a), S - a) = s
  <2>1. S - a \in 0 .. S - 1 BY <1>8
  <2>2. At(t, a) = IF s + a < S THEN s + a ELSE s + a - S BY <1>3, <1>4
  <2>3. After(t, At(t, a), S - a) =
          IF At(t, a) + (S - a) < S THEN At(t, a) + (S - a) ELSE At(t, a) + (S - a) - S
    BY <1>3, <1>6, <2>1
  <2> QED BY <1>1, <1>3, <2>1, <2>2, <2>3
<1> QED BY <1>2, <1>3, <1>4, <1>5, <1>7, <1>8 DEF s

(* Between an entry and its bucket the walk does not begin. *)
LEMMA WayIsAhead ==
  ASSUME NEW t, IsTable(t), HasEmpty(t), NEW m \in Slots(t), At(t, m) \in Entries(t),
         NEW d \in Slots(t), Way(t, At(t, m), d)
  PROVE  d <= m /\ m - d \in Slots(t) /\ Home(t, At(t, m)) = At(t, m - d)
<1>1. PICK S \in Nat \ {0} : S = Size(t) BY SizeIs DEF IsTable
<1>2. Slots(t) = 0 .. S - 1 BY <1>1 DEF Slots
<1> DEFINE i == At(t, m)
<1>3. Home(t, i) \in Slots(t) BY BucketIs DEF IsTable, Home
<1>4. PICK a \in Slots(t) : Home(t, i) = At(t, a) BY <1>3, AtIs
<1>5. a + d < S
  <2>1. SUFFICES ASSUME a + d >= S PROVE FALSE BY <1>2
  <2>2. S - a \in Slots(t) /\ After(t, Home(t, i), S - a) = FirstEmpty(t)
    BY <1>1, <1>4, <2>1, AtIs
  <2>3. t.table[FirstEmpty(t)] = {} BY FirstEmptyIs
  <2>4. CASE S - a = d
    <3>1. i = FirstEmpty(t) BY <2>2, <2>4 DEF Way
    <3> QED BY <2>3, <3>1 DEF Entries, Valid
  <2>5. CASE S - a # d
    <3>1. S - a \in 0 .. d - 1 BY <1>2, <2>1, <2>5
    <3> QED BY <2>2, <2>3, <3>1 DEF Way
  <2> QED BY <2>4, <2>5
<1>6. i = At(t, a + d) BY <1>1, <1>4, <1>5, AtIs DEF Way
<1>7. a + d \in Slots(t) BY <1>2, <1>5
<1>8. m = a + d BY <1>6, <1>7, AtIs
<1>9. d <= m /\ m - d = a BY <1>2, <1>8
<1> QED BY <1>4, <1>9

(* The entry m slots on is d slots after its bucket; there are entries     *)
(* between.                                                                *)
Settled(t, x, m, d) ==
  /\ d \in 0 .. m
  /\ Home(x, At(t, m)) = At(t, m - d)
  /\ ExtraPtrBits(x, x.table[At(t, m)]) = Stamp(x, hash[PtrAt(x, At(t, m))], d)
  /\ \A k \in m - d .. m - 1 : Valid(x.table[At(t, k)])

WalkedUpTo(t, x, n) ==
  /\ \A m \in Slots(t) : m >= n => x.table[At(t, m)] = t.table[At(t, m)]
  /\ \A m \in Slots(t) : m < n => x.table[At(t, m)] # Deleted
  /\ \A m \in Slots(t) : m < n /\ At(t, m) \in Entries(x) => \E d \in 0 .. m : Settled(t, x, m, d)
  /\ Distinct(x) /\ Pointers(x) = Pointers(t)

LEMMA SettledKept ==
  ASSUME NEW t, IsTable(t), HasEmpty(t), NEW x \in Like(t), NEW u \in Like(t),
         NEW m \in Slots(t), NEW d \in 0 .. m, Settled(t, x, m, d),
         u.table[At(t, m)] = x.table[At(t, m)],
         \A k \in Slots(t) : k < m /\ Valid(x.table[At(t, k)]) => Valid(u.table[At(t, k)])
  PROVE  Settled(t, u, m, d)
<1>1. /\ \A e : RawPtr(u, e) = RawPtr(x, e) /\ ExtraPtrBits(u, e) = ExtraPtrBits(x, e)
      /\ \A h : Bucket(u, h) = Bucket(x, h)
      /\ \A h, k : Stamp(u, h, k) = Stamp(x, h, k)
  <2>1. SameBits(u, x) BY LikeIs DEF SameBits
  <2> QED BY <2>1, Alike
<1>2. PtrAt(u, At(t, m)) = PtrAt(x, At(t, m)) /\ Home(u, At(t, m)) = Home(x, At(t, m))
  BY <1>1 DEF PtrAt, Home
<1>3. ASSUME NEW k \in m - d .. m - 1 PROVE Valid(u.table[At(t, k)])
  <2>1. k \in Slots(t) /\ k < m BY SizeIs DEF IsTable, Slots
  <2> QED BY <2>1 DEF Settled
<1> QED BY <1>1, <1>2, <1>3 DEF Settled

LEMMA RehashedLike ==
  ASSUME NEW t, IsTable(t), NEW x \in Like(t), NEW i \in Slots(t)
  PROVE  /\ Rehashed(x, i) \in Like(t)
         /\ [x EXCEPT !.table[i] = {}] \in Like(t)
         /\ ClearsSlot(x, [x EXCEPT !.table[i] = {}], i)
         /\ [x EXCEPT !.table[i] = {}].table[i] = {}
<1>1. x.table[i] \in Word /\ {} \in Word BY DEF Like, Word
<1> DEFINE y == [x EXCEPT !.table[i] = {}]
<1>2. y \in Like(t) /\ y.table = [x.table EXCEPT ![i] = {}]
  <2>1. y = [bits |-> x.bits, elems |-> x.elems, deleted |-> x.deleted,
             common_mask |-> x.common_mask, common_bits |-> x.common_bits,
             perfect_bit |-> x.perfect_bit, table |-> [x.table EXCEPT ![i] = {}]]
    BY DEF Like
  <2>2. [x.table EXCEPT ![i] = {}] \in [Slots(t) -> Word] BY <1>1 DEF Like
  <2> QED BY <2>1, <2>2 DEF Like
<1>3. y.table[i] = {} BY <1>2 DEF Like
<1>4. Reinserted(y, x.table[i]) \in Like(t) BY <1>1, <1>2, ReinsertedLike
<1>5. Rehashed(x, i) \in Like(t) BY <1>4 DEF Rehashed
<1>6. ClearsSlot(x, y, i)
  <2>1. IsTable(y) /\ SameBits(y, x) BY <1>2, LikeIs DEF SameBits
  <2>2. Slots(x) = Slots(t) BY LikeIs
  <2> QED BY <1>2, <1>3, <2>1, <2>2 DEF ClearsSlot, Valid
<1> QED BY <1>2, <1>3, <1>5, <1>6

LEMMA PerfectIsHome ==
  ASSUME NEW t, IsTable(t), NEW i \in Entries(t), Placed(t, i),
         t.table[i] \cap t.perfect_bit # {}
  PROVE  Home(t, i) = i /\ ExtraPtrBits(t, t.table[i]) = Stamp(t, hash[PtrAt(t, i)], 0)
<1>1. PICK n \in Slots(t) : Way(t, i, n) BY DEF Placed, Slots
<1>2. ExtraPtrBits(t, t.table[i]) \cap t.perfect_bit # {} BY DEF IsTable, ExtraPtrBits
<1>3. n = 0 BY <1>1, <1>2, StampIs DEF Way
<1>4. Home(t, i) \in Slots(t) BY BucketIs DEF IsTable, Home
<1>5. After(t, Home(t, i), 0) = Home(t, i)
  <2>1. PICK S \in Nat \ {0} : S = Size(t) BY SizeIs DEF IsTable
  <2>2. 0 \in Slots(t) /\ Home(t, i) \in 0 .. S - 1 BY <1>4, <2>1 DEF Slots
  <2> QED BY <1>4, <2>1, <2>2, AfterIs DEF IsTable
<1> QED BY <1>1, <1>3, <1>5 DEF Way

LEMMA WalksOver ==
  ASSUME NEW t, NEW top, Sound(t, top), IsTop(top), AllPlaced(t), HasEmpty(t),
         NEW n \in 1 .. Size(t), NEW x \in Like(t), WalkedUpTo(t, x, n - 1)
  PROVE  WalkedUpTo(t, Rehashed(x, At(t, n - 1)), n)
<1> DEFINE i == At(t, n - 1)
           e == x.table[i]
           y == [x EXCEPT !.table[i] = {}]
           u == Rehashed(x, i)
<1>0. IsTable(t) BY DEF Sound
<1>1. PICK S \in Nat \ {0} : S = Size(t) BY <1>0, SizeIs DEF IsTable
<1>2. Slots(t) = 0 .. S - 1 /\ n - 1 \in Slots(t) BY <1>1 DEF Slots
<1>3. i \in Slots(t) /\ \A m \in Slots(t) : At(t, m) \in Slots(t) /\ (m # n - 1 => At(t, m) # i)
  BY <1>0, <1>2, AtIs
<1>4. IsTable(x) /\ SameBits(x, t) /\ Slots(x) = Slots(t) BY <1>0, LikeIs
<1>5. u \in Like(t) /\ y \in Like(t) /\ ClearsSlot(x, y, i) /\ y.table[i] = {}
  BY <1>0, <1>3, RehashedLike
<1>6. e = t.table[i] BY <1>2 DEF WalkedUpTo
<1>7. PtrAt(x, i) = PtrAt(t, i) /\ Home(x, i) = Home(t, i)
  <2>1. PtrAt(x, i) = PtrAt(t, i) BY <1>4, <1>6, Alike DEF PtrAt
  <2> QED BY <1>4, <2>1, Alike DEF Home
<1>8. Entries(x) \subseteq Slots(t) /\ Entries(y) \subseteq Slots(t) BY <1>4, <1>5, ClearedFacts DEF Entries
<1>9. /\ Entries(y) = Entries(x) \ {i}
      /\ \A j \in Slots(t) : j # i => y.table[j] = x.table[j]
      /\ Distinct(y)
      /\ i \in Entries(x) => Pointers(y) = Pointers(t) \ {PtrAt(t, i)}
      /\ i \notin Entries(x) => Pointers(y) = Pointers(t)
  <2>1. Distinct(x) /\ Pointers(x) = Pointers(t) BY DEF WalkedUpTo
  <2>2. /\ Entries(y) = Entries(x) \ {i}
        /\ \A j \in Slots(x) : j # i => y.table[j] = x.table[j] /\ PtrAt(y, j) = PtrAt(x, j)
        /\ Distinct(x) => Distinct(y)
        /\ Distinct(x) /\ i \in Entries(x) => Pointers(y) = Pointers(x) \ {PtrAt(x, i)}
        /\ i \notin Entries(x) => Pointers(y) = Pointers(x)
    <3> HIDE DEF i, y
    <3> QED BY <1>4, <1>5, ClearedFacts
  <2> QED BY <1>4, <1>7, <2>1, <2>2
<1> HIDE DEF i, e, y, u
<1>10. CASE Valid(e) /\ e \cap x.perfect_bit # {}
  <2>1. u = x BY <1>10 DEF Rehashed, u, e
  <2>2. i \in Entries(t) BY <1>3, <1>6, <1>10 DEF Entries
  <2>3. Home(t, i) = i /\ ExtraPtrBits(t, t.table[i]) = Stamp(t, hash[PtrAt(t, i)], 0)
    <3>1. t.table[i] \cap t.perfect_bit # {} BY <1>4, <1>6, <1>10 DEF SameBits
    <3>2. Placed(t, i) BY <2>2 DEF AllPlaced
    <3> QED BY <1>0, <2>2, <3>1, <3>2, PerfectIsHome
  <2>4. Settled(t, x, n - 1, 0)
    <3>1. ExtraPtrBits(x, x.table[i]) = Stamp(x, hash[PtrAt(x, i)], 0)
      BY <1>4, <1>6, <1>7, <2>3, Alike DEF e
    <3>2. Home(x, i) = At(t, (n - 1) - 0) BY <1>7, <2>3 DEF i
    <3>3. 0 \in 0 .. n - 1 BY <1>2
    <3>4. \A k \in (n - 1) - 0 .. (n - 1) - 1 : Valid(x.table[At(t, k)]) BY <1>2
    <3> QED BY <3>1, <3>2, <3>3, <3>4 DEF Settled, i
  <2>5. x.table[i] # Deleted BY <1>10 DEF Valid, e
  <2>6. \A m \in Slots(t) : m >= n => x.table[At(t, m)] = t.table[At(t, m)] BY <1>2 DEF WalkedUpTo
  <2>7. ASSUME NEW m \in Slots(t), m < n
        PROVE  /\ x.table[At(t, m)] # Deleted
               /\ At(t, m) \in Entries(x) => \E d \in 0 .. m : Settled(t, x, m, d)
    <3>1. CASE m = n - 1
      <4>1. 0 \in 0 .. m BY <1>2
      <4> QED BY <2>4, <2>5, <3>1, <4>1 DEF i
    <3>2. CASE m # n - 1
      <4>1. m < n - 1 BY <1>2, <2>7, <3>2
      <4> QED BY <4>1 DEF WalkedUpTo
    <3> QED BY <3>1, <3>2
  <2> QED BY <2>1, <2>6, <2>7 DEF WalkedUpTo, u, i
<1>11. CASE ~Valid(e)
  <2>1. u = y BY <1>11 DEF Rehashed, Reinserted, u, e, y
  <2>2. i \notin Entries(x) BY <1>11 DEF Entries, e
  <2>3. \A m \in Slots(t) : m >= n => y.table[At(t, m)] = t.table[At(t, m)]
    BY <1>2, <1>3, <1>9 DEF WalkedUpTo
  <2>4. ASSUME NEW m \in Slots(t), m < n
        PROVE  /\ y.table[At(t, m)] # Deleted
               /\ At(t, m) \in Entries(y) => \E d \in 0 .. m : Settled(t, y, m, d)
    <3>1. CASE m = n - 1
      <4>1. At(t, m) = i BY <3>1 DEF i
      <4> QED BY <1>5, <1>9, <4>1 DEF Deleted
    <3>2. CASE m # n - 1
      <4>1. m < n - 1 /\ At(t, m) # i BY <1>2, <1>3, <2>4, <3>2
      <4>2. y.table[At(t, m)] = x.table[At(t, m)] BY <1>3, <1>9, <4>1
      <4>3. ASSUME At(t, m) \in Entries(y) PROVE \E d \in 0 .. m : Settled(t, y, m, d)
        <5>1. PICK d \in 0 .. m : Settled(t, x, m, d) BY <1>9, <4>1, <4>3 DEF WalkedUpTo
        <5>2. \A k \in Slots(t) : k < m /\ Valid(x.table[At(t, k)]) => Valid(y.table[At(t, k)])
          BY <1>2, <1>3, <1>9, <4>1
        <5>3. Settled(t, y, m, d) BY <1>0, <1>5, <4>2, <5>1, <5>2, SettledKept
        <5> QED BY <5>3
      <4>4. x.table[At(t, m)] # Deleted BY <4>1 DEF WalkedUpTo
      <4> QED BY <4>2, <4>3, <4>4
    <3> QED BY <3>1, <3>2
  <2>5. Distinct(y) /\ Pointers(y) = Pointers(t) BY <1>9, <2>2
  <2> QED BY <2>1, <2>3, <2>4, <2>5 DEF WalkedUpTo, u, i
<1>12. CASE Valid(e) /\ e \cap x.perfect_bit = {}
  <2>1. i \in Entries(t) /\ i \in Entries(x) BY <1>3, <1>4, <1>6, <1>12 DEF Entries, e
  <2> DEFINE p == PtrAt(t, i)
  <2>2. p \in Elements /\ e \in Word /\ top \notin x.common_mask /\ p \in Pointers(t)
    BY <1>4, <1>6, <2>1, EntryIs DEF SameBits
  <2>3. IsTable(y) /\ SameBits(y, t) /\ Slots(y) = Slots(t) BY <1>0, <1>5, LikeIs
  <2>4. RawPtr(y, e) = p BY <1>6, <2>3, Alike DEF PtrAt
  <2>5. u = Reinserted(y, e) BY <1>12 DEF Rehashed, u, e, y
  <2>6. PICK j, d : TakesSlot(y, u, p, j, d)
    <3>1. ~Valid(y.table[i]) BY <1>5 DEF Valid
    <3>2. top \notin y.common_mask BY <1>4, <2>2, <2>3 DEF SameBits
    <3> QED BY <1>3, <1>12, <2>2, <2>3, <2>4, <2>5, <3>1, <3>2, Reinserts
  <2>7. PICK dt \in Slots(t) : Way(t, i, dt) BY <2>1 DEF AllPlaced, Placed, Slots
  <2>8. dt <= n - 1 /\ (n - 1) - dt \in Slots(t) /\ Home(t, i) = At(t, (n - 1) - dt)
    BY <1>0, <1>2, <2>1, <2>7, WayIsAhead DEF i
  <2> DEFINE a == (n - 1) - dt
  <2>9. Bucket(y, hash[p]) = At(t, a) BY <2>3, <2>8, Alike DEF Home
  <2>10. \A k \in Slots(t) : a + k < S => After(y, At(t, a), k) = At(t, a + k)
    <3>1. \A k \in Slots(t) : a + k < S => After(t, At(t, a), k) = At(t, a + k)
      BY <1>0, <1>1, <2>8, AtIs
    <3>2. \A b, k : After(y, b, k) = After(t, b, k) BY <2>3, Alike
    <3> QED BY <3>1, <3>2
  <2>11. d \in Slots(t) /\ d <= dt
    <3>1. d \in Slots(t) BY <2>3, <2>6 DEF TakesSlot
    <3>2. SUFFICES ASSUME d > dt PROVE FALSE BY <1>2, <3>1
    <3>3. dt \in 0 .. d - 1 BY <1>2, <3>1, <3>2
    <3>4. Valid(y.table[After(y, At(t, a), dt)]) BY <2>6, <2>9, <3>3 DEF TakesSlot
    <3>5. After(y, At(t, a), dt) = i
      <4>1. a + dt = n - 1 BY <1>2
      <4> QED BY <1>2, <2>10, <4>1 DEF i
    <3> QED BY <1>5, <3>4, <3>5 DEF Valid
  <2>12. a + d \in Slots(t) /\ a + d <= n - 1 /\ j = At(t, a + d)
    <3>1. a + d \in Slots(t) /\ a + d <= n - 1 BY <1>2, <2>8, <2>11
    <3>2. j = After(y, At(t, a), d) BY <2>6, <2>9 DEF TakesSlot
    <3> QED BY <1>2, <2>10, <2>11, <3>1, <3>2
  <2> HIDE DEF a, p
  <2>13. /\ Entries(u) = Entries(y) \cup {j} /\ j \notin Entries(y)
         /\ \A k \in Slots(t) : k # j => u.table[k] = y.table[k]
    BY <2>3, <2>6, TakenFacts
  <2>14. Valid(u.table[j]) BY <2>6 DEF TakesSlot
  <2>15. ASSUME NEW k \in Slots(t), Valid(y.table[k]) PROVE Valid(u.table[k])
    BY <2>13, <2>14, <2>15
  <2>16. Pointers(u) = Pointers(t) /\ Distinct(u)
    <3>1. Pointers(u) = Pointers(y) \cup {p} /\ (Distinct(y) /\ p \notin Pointers(y) => Distinct(u))
      BY <2>3, <2>6, TakenPointers
    <3>2. Pointers(y) = Pointers(t) \ {p} BY <1>9, <2>1 DEF p
    <3> QED BY <1>9, <2>2, <3>1, <3>2
  <2>17. Settled(t, u, a + d, d)
    <3>1. PtrAt(u, j) = p /\ ExtraPtrBits(u, u.table[j]) = Stamp(y, hash[p], d) /\ SameBits(u, y)
      BY <2>6 DEF TakesSlot
    <3>2. ExtraPtrBits(u, u.table[j]) = Stamp(u, hash[p], d) BY <3>1, Alike
    <3>3. Home(u, j) = At(t, a) BY <2>9, <3>1, Alike DEF Home
    <3>4. d \in 0 .. a + d /\ (a + d) - d = a BY <1>2, <2>8, <2>11 DEF a
    <3>5. ASSUME NEW k \in a .. a + d - 1 PROVE Valid(u.table[At(t, k)])
      <4>1. k \in Slots(t) /\ k - a \in 0 .. d - 1 /\ k - a \in Slots(t) /\ a + (k - a) = k
        <5>1. a \in 0 .. S - 1 /\ d \in 0 .. S - 1 /\ a + d \in 0 .. S - 1
          BY <1>2, <2>8, <2>11, <2>12 DEF a
        <5>2. PICK b : b = a OBVIOUS
        <5>3. b \in 0 .. S - 1 /\ b + d \in 0 .. S - 1 /\ k \in b .. b + d - 1 BY <5>1, <5>2
        <5>4. k \in 0 .. S - 1 /\ k - b \in 0 .. d - 1 /\ k - b \in 0 .. S - 1 /\ b + (k - b) = k
          BY <5>1, <5>3
        <5> QED BY <1>2, <5>2, <5>4
      <4>2. a + (k - a) < S BY <1>2, <4>1
      <4>3. After(y, At(t, a), k - a) = At(t, k) BY <2>10, <4>1, <4>2
      <4>4. Valid(y.table[After(y, At(t, a), k - a)]) BY <2>6, <2>9, <4>1 DEF TakesSlot
      <4>5. At(t, k) \in Slots(t) BY <1>3, <4>1
      <4> QED BY <2>15, <4>3, <4>4, <4>5
    <3>6. PICK q : q = a + d OBVIOUS
    <3>7. q - d = a /\ d \in 0 .. q BY <3>4, <3>6
    <3>8. \A k \in q - d .. q - 1 : Valid(u.table[At(t, k)]) BY <3>5, <3>6, <3>7
    <3>9. j = At(t, q) BY <2>12, <3>6
    <3>10. Settled(t, u, q, d) BY <3>1, <3>2, <3>3, <3>7, <3>8, <3>9 DEF Settled
    <3> QED BY <3>6, <3>10
  <2>18. ASSUME NEW m \in Slots(t), m >= n PROVE u.table[At(t, m)] = t.table[At(t, m)]
    <3>1. m # n - 1 /\ m # a + d BY <1>2, <2>12, <2>18
    <3>2. At(t, m) # i /\ At(t, m) # j BY <1>0, <1>3, <2>12, <3>1, AtIs
    <3>3. x.table[At(t, m)] = t.table[At(t, m)]
      <4>1. m >= n - 1 BY <1>2, <2>18
      <4> QED BY <4>1 DEF WalkedUpTo
    <3> QED BY <1>3, <1>9, <2>13, <3>2, <3>3
  <2>19. ASSUME NEW m \in Slots(t), m < n
         PROVE  /\ u.table[At(t, m)] # Deleted
                /\ At(t, m) \in Entries(u) => \E dd \in 0 .. m : Settled(t, u, m, dd)
    <3>1. CASE At(t, m) = j
      <4>1. m = a + d BY <1>0, <2>12, <3>1, AtIs
      <4>2. d \in 0 .. m BY <2>17, <4>1 DEF Settled
      <4> QED BY <2>14, <2>17, <3>1, <4>1, <4>2 DEF Valid
    <3>2. CASE At(t, m) # j /\ m = n - 1
      <4>1. At(t, m) = i BY <3>2 DEF i
      <4>2. u.table[i] = {} BY <1>3, <1>5, <2>13, <3>2, <4>1
      <4>3. i \notin Entries(u) BY <1>9, <2>13, <3>2, <4>1
      <4> QED BY <4>1, <4>2, <4>3 DEF Deleted
    <3>3. CASE At(t, m) # j /\ m # n - 1
      <4>1. m < n - 1 /\ At(t, m) # i /\ At(t, m) \in Slots(t) BY <1>2, <1>3, <2>19, <3>3
      <4>2. u.table[At(t, m)] = x.table[At(t, m)] BY <1>9, <2>13, <3>3, <4>1
      <4>3. ASSUME At(t, m) \in Entries(u) PROVE \E dd \in 0 .. m : Settled(t, u, m, dd)
        <5>1. PICK dd \in 0 .. m : Settled(t, x, m, dd) BY <1>9, <2>13, <3>3, <4>1, <4>3 DEF WalkedUpTo
        <5>2. ASSUME NEW k \in Slots(t), k < m, Valid(x.table[At(t, k)]) PROVE Valid(u.table[At(t, k)])
          <6>1. k # n - 1 BY <1>2, <4>1, <5>2
          <6>2. At(t, k) \in Slots(t) /\ At(t, k) # i BY <1>3, <6>1
          <6> QED BY <1>9, <2>15, <5>2, <6>2
        <5>3. Settled(t, u, m, dd) BY <1>0, <1>5, <4>2, <5>1, <5>2, SettledKept
        <5> QED BY <5>3
      <4>4. x.table[At(t, m)] # Deleted BY <4>1 DEF WalkedUpTo
      <4> QED BY <4>2, <4>3, <4>4
    <3> QED BY <3>1, <3>2, <3>3
  <2> QED BY <2>16, <2>18, <2>19 DEF WalkedUpTo, u, i
<1> QED BY <1>10, <1>11, <1>12 DEF u, i

(***************************************************************************)
(* Tables that differ in their counters only.                              *)
(***************************************************************************)
LEMMA SameTable ==
  ASSUME NEW t, IsTable(t), NEW u, SameBits(u, t), u.table = t.table
  PROVE  /\ Slots(u) = Slots(t) /\ Size(u) = Size(t)
         /\ Entries(u) = Entries(t) /\ Marks(u) = Marks(t) /\ Pointers(u) = Pointers(t)
         /\ \A i : PtrAt(u, i) = PtrAt(t, i)
         /\ Distinct(t) => Distinct(u)
         /\ AllPlaced(t) => AllPlaced(u)
         /\ \A top : IsTable(u) /\ Sound(t, top) => Sound(u, top)
<1>1. /\ Size(u) = Size(t) /\ Slots(u) = Slots(t)
      /\ \A e : RawPtr(u, e) = RawPtr(t, e) /\ ExtraPtrBits(u, e) = ExtraPtrBits(t, e)
      /\ \A h : Bucket(u, h) = Bucket(t, h)
      /\ \A h, m : Stamp(u, h, m) = Stamp(t, h, m)
      /\ \A k, m : After(u, k, m) = After(t, k, m)
  BY Alike
<1>2. Entries(u) = Entries(t) /\ Marks(u) = Marks(t) BY <1>1 DEF Entries, Marks
<1>3. \A i : PtrAt(u, i) = PtrAt(t, i) BY <1>1 DEF PtrAt
<1>4. Pointers(u) = Pointers(t) BY <1>2, <1>3 DEF Pointers, PtrAt
<1>5. Distinct(t) => Distinct(u) BY <1>2, <1>3 DEF Distinct
<1>6. \A i : Home(u, i) = Home(t, i) BY <1>1, <1>3 DEF Home
<1>7. ASSUME NEW i, Placed(t, i) PROVE Placed(u, i)
  <2>1. PICK n \in 0 .. Size(t) - 1 : Way(t, i, n) BY <1>7 DEF Placed
  <2>2. Way(u, i, n) BY <1>1, <1>3, <1>6, <2>1 DEF Way
  <2> QED BY <1>1, <2>2 DEF Placed
<1>8. AllPlaced(t) => AllPlaced(u) BY <1>2, <1>7 DEF AllPlaced
<1>9. ASSUME NEW top, IsTable(u), Sound(t, top) PROVE Sound(u, top)
  BY <1>2, <1>4, <1>5, <1>9 DEF Sound, SameBits
<1> QED BY <1>1, <1>2, <1>3, <1>4, <1>5, <1>8, <1>9

LEMMA WalkedIs ==
  ASSUME NEW t, IsTable(t), HasEmpty(t)
  PROVE  /\ Walked(t)[0] = t
         /\ \A n \in 1 .. Size(t) : Walked(t)[n] = Rehashed(Walked(t)[n - 1], At(t, n - 1))
         /\ \A n \in 0 .. Size(t) : Walked(t)[n] \in Like(t)
<1>0. PICK N \in Nat : N = Size(t) BY SizeIs DEF IsTable
<1> DEFINE T == Like(t)
           G == [n \in 1 .. N |-> [x \in T |-> Rehashed(x, At(t, n - 1))]]
           Eq(f) == f = [n \in 0 .. N |-> IF n = 0 THEN t ELSE Rehashed(f[n - 1], At(t, n - 1))]
<1>1. t \in T BY LikeIs
<1>2. \A n \in 1 .. N : At(t, n - 1) \in Slots(t)
  <2>1. \A n \in 1 .. N : n - 1 \in Slots(t) BY <1>0 DEF Slots
  <2> QED BY <2>1, AtIs
<1>3. \A n \in 1 .. N : \A x \in T : Rehashed(x, At(t, n - 1)) \in T BY <1>2, RehashedLike
<1> HIDE DEF T
<1>4. PICK g \in [0 .. N -> T] : Iterates(g, N, t, G)
  <2>1. StaysIn(T, N, G) BY <1>3 DEF StaysIn
  <2> HIDE DEF G
  <2> QED BY <1>1, <2>1, Recursion, Zenon
<1> USE DEF Iterates
<1>5. Eq(g)
  <2>1. ASSUME NEW n \in 0 .. N
        PROVE  g[n] = IF n = 0 THEN t ELSE Rehashed(g[n - 1], At(t, n - 1))
    <3>1. CASE n = 0 BY <1>4, <3>1
    <3>2. CASE n # 0
      <4>1. n \in 1 .. N /\ n - 1 \in 0 .. N BY <3>2
      <4>2. g[n - 1] \in T BY <4>1
      <4> QED BY <1>4, <3>2, <4>1, <4>2
    <3> QED BY <3>1, <3>2
  <2> QED BY <2>1
<1>6. Walked(t) = CHOOSE f : Eq(f) BY <1>0 DEF Walked, At
<1> DEFINE f == Walked(t)
<1>7. Eq(f)
  <2> HIDE DEF Eq
  <2> QED BY <1>5, <1>6
<1>8. f[0] = t /\ \A n \in 1 .. N : f[n] = Rehashed(f[n - 1], At(t, n - 1))
  <2> HIDE DEF f
  <2> QED BY <1>7
<1> HIDE DEF f
<1> DEFINE S == {n \in 0 .. N : f[n] \in T}
<1>9. \A n \in 0 .. N : n \in S
  <2>1. 0 \in S BY <1>1, <1>8
  <2>2. ASSUME NEW n \in 1 .. N, n - 1 \in S PROVE n \in S
    <3>1. f[n - 1] \in T BY <2>2
    <3>2. f[n] \in T BY <1>3, <1>8, <3>1
    <3> QED BY <3>2
  <2> HIDE DEF S
  <2> QED BY <2>1, <2>2, UpTo
<1> QED BY <1>0, <1>8, <1>9 DEF f, T

(* At the end of the walk every entry can be met from its bucket. *)
LEMMA SettledAreMet ==
  ASSUME NEW t, IsTable(t), HasEmpty(t), NEW x \in Like(t), WalkedUpTo(t, x, Size(t))
  PROVE  AllPlaced(x) /\ Marks(x) = {}
<1>1. PICK S \in Nat \ {0} : S = Size(t) BY SizeIs DEF IsTable
<1>2. Slots(t) = 0 .. S - 1 BY <1>1 DEF Slots
<1>3. SameBits(x, t) /\ Slots(x) = Slots(t) /\ Size(x) = Size(t)
      /\ \A i, n : After(x, i, n) = After(t, i, n)
  BY LikeIs, Alike
<1>4. \A m \in Slots(t) : m < S BY <1>2
<1>5. ASSUME NEW i \in Slots(x) PROVE i \notin Marks(x)
  <2>1. PICK m \in Slots(t) : i = At(t, m) BY <1>3, AtIs
  <2> QED BY <1>1, <1>4, <2>1 DEF WalkedUpTo, Marks
<1>6. ASSUME NEW i \in Entries(x) PROVE Placed(x, i)
  <2>1. PICK m \in Slots(t) : i = At(t, m) BY <1>3, AtIs DEF Entries
  <2>2. PICK d \in 0 .. m : Settled(t, x, m, d) BY <1>1, <1>4, <2>1 DEF WalkedUpTo
  <2>3. PICK a : a = m - d OBVIOUS
  <2>4. a \in Slots(t) /\ d \in Slots(t) /\ a + d = m BY <1>2, <2>3
  <2>5. Home(x, i) = At(t, a) BY <2>1, <2>2, <2>3 DEF Settled
  <2>6. \A k \in Slots(t) : a + k < S => After(x, Home(x, i), k) = At(t, a + k)
    BY <1>1, <1>3, <2>4, <2>5, AtIs
  <2>7. i = After(x, Home(x, i), d) BY <1>4, <2>1, <2>4, <2>6
  <2>8. ASSUME NEW k \in 0 .. d - 1 PROVE x.table[After(x, Home(x, i), k)] # {}
    <3>1. k \in Slots(t) /\ a + k < S /\ a + k \in a .. m - 1 BY <1>2, <2>4
    <3>2. Valid(x.table[At(t, a + k)]) BY <2>2, <2>3, <3>1 DEF Settled
    <3> QED BY <2>6, <3>1, <3>2 DEF Valid
  <2>9. Way(x, i, d) BY <2>1, <2>2, <2>7, <2>8 DEF Way, Settled
  <2> QED BY <1>1, <1>2, <1>3, <2>4, <2>9 DEF Placed
<1> QED BY <1>5, <1>6 DEF AllPlaced, Marks

LEMMA Rehashes ==
  ASSUME NEW t, NEW top, Sound(t, top), IsTop(top), AllPlaced(t), HasEmpty(t)
  PROVE  /\ Sound(RehashTable(t), top) /\ AllPlaced(RehashTable(t))
         /\ Pointers(RehashTable(t)) = Pointers(t) /\ Marks(RehashTable(t)) = {}
         /\ SameBits(RehashTable(t), t)
         /\ RehashTable(t).elems = t.elems /\ RehashTable(t).deleted = 0
<1>0. IsTable(t) BY DEF Sound
<1>1. PICK N \in Nat : N = Size(t) BY <1>0, SizeIs DEF IsTable
<1>2. PICK f : f = Walked(t) OBVIOUS
<1> DEFINE S == {n \in 0 .. N : WalkedUpTo(t, f[n], n)}
<1>3. \A n \in 0 .. N : n \in S
  <2>1. 0 \in S
    <3>1. f[0] = t BY <1>0, <1>2, WalkedIs
    <3>2. \A m \in Slots(t) : ~(m < 0) BY <1>1 DEF Slots
    <3>3. WalkedUpTo(t, t, 0) BY <3>2 DEF WalkedUpTo, Sound
    <3> QED BY <3>1, <3>3
  <2>2. ASSUME NEW n \in 1 .. N, n - 1 \in S PROVE n \in S
    <3>1. f[n] = Rehashed(f[n - 1], At(t, n - 1)) BY <1>0, <1>1, <1>2, WalkedIs
    <3>2. f[n - 1] \in Like(t)
      <4>1. n - 1 \in 0 .. N OBVIOUS
      <4> QED BY <1>0, <1>1, <1>2, <4>1, WalkedIs
    <3>3. WalkedUpTo(t, f[n - 1], n - 1) BY <2>2
    <3>4. WalkedUpTo(t, f[n], n) BY <1>1, <3>1, <3>2, <3>3, WalksOver
    <3> QED BY <3>4
  <2> HIDE DEF S
  <2> QED BY <2>1, <2>2, UpTo
<1>4. PICK x : x = f[N] OBVIOUS
<1>5. WalkedUpTo(t, x, N) /\ x \in Like(t) BY <1>0, <1>1, <1>2, <1>3, <1>4, WalkedIs
<1>6. AllPlaced(x) /\ Marks(x) = {} BY <1>0, <1>1, <1>5, SettledAreMet
<1>7. IsTable(x) /\ SameBits(x, t) /\ x.elems = t.elems BY <1>0, <1>5, LikeIs
<1>8. Pointers(x) = Pointers(t) /\ Distinct(x) BY <1>5 DEF WalkedUpTo
<1>9. Sound(x, top)
  <2>1. Entries(x) # {} => Entries(t) # {} BY <1>8 DEF Pointers
  <2> QED BY <1>7, <1>8, <2>1 DEF Sound, SameBits
<1>10. PICK r : r = RehashTable(t) OBVIOUS
<1>11. r = [x EXCEPT !.deleted = 0] BY <1>1, <1>2, <1>4, <1>10 DEF RehashTable
<1>12. /\ IsTable(r) /\ SameBits(r, x) /\ r.table = x.table
       /\ r.elems = x.elems /\ r.deleted = 0
  <2>1. SameBits(r, x) /\ r.table = x.table /\ r.elems = x.elems /\ r.deleted = 0
    BY <1>7, <1>11 DEF IsTable, SameBits
  <2>2. Slots(r) = Slots(x) BY <2>1, Alike
  <2> QED BY <1>7, <1>11, <2>1, <2>2 DEF IsTable
<1>13. Sound(r, top) /\ AllPlaced(r) /\ Pointers(r) = Pointers(x) /\ Marks(r) = Marks(x)
  BY <1>6, <1>7, <1>9, <1>12, SameTable
<1>14. SameBits(r, t) BY <1>7, <1>12 DEF SameBits
<1> QED BY <1>6, <1>7, <1>8, <1>10, <1>12, <1>13, <1>14

(***************************************************************************)
(* update_common: the bits that are no longer common go back into the      *)
(* entries.                                                                *)
(***************************************************************************)
LEMMA Shrinks ==
  ASSUME NEW t, NEW top, Sound(t, top), IsTop(top), AllPlaced(t), Entries(t) # {},
         NEW p \in Elements
  PROVE  LET u == ShrinkCommon(t, p)
         IN /\ Sound(u, top) /\ AllPlaced(u)
            /\ Entries(u) = Entries(t) /\ Marks(u) = Marks(t) /\ Pointers(u) = Pointers(t)
            /\ u.bits = t.bits /\ u.elems = t.elems /\ u.deleted = t.deleted
            /\ top \notin u.common_mask /\ p \cap u.common_mask = u.common_bits
<1>0. IsTable(t) /\ top \notin t.common_mask BY DEF Sound
<1>1. /\ t.common_mask \in Word /\ t.common_bits \subseteq t.common_mask
      /\ t.perfect_bit \subseteq t.common_mask
  BY <1>0 DEF IsTable
<1>2. PICK diff : diff = Stolen(t, p) OBVIOUS
<1>3. diff \subseteq t.common_mask /\ (p \cap t.common_mask) \ diff = t.common_bits \ diff
  BY <1>1, <1>2 DEF Stolen, SymDiff
<1> DEFINE New(e) == IF Valid(e) THEN (e \ diff) \cup (t.common_bits \cap diff) ELSE e
<1>4. PICK w : w = [i \in Slots(t) |-> New(t.table[i])] OBVIOUS
<1>5. PICK u : u = ShrinkCommon(t, p) OBVIOUS
<1>6. u = [t EXCEPT !.table = w, !.common_mask = t.common_mask \ diff,
                    !.common_bits = t.common_bits \ diff, !.perfect_bit = t.perfect_bit \ diff]
  BY <1>2, <1>4, <1>5 DEF ShrinkCommon
<1>7. u = [bits |-> t.bits, elems |-> t.elems, deleted |-> t.deleted,
           common_mask |-> t.common_mask \ diff, common_bits |-> t.common_bits \ diff,
           perfect_bit |-> t.perfect_bit \ diff, table |-> w]
  BY <1>0, <1>6 DEF IsTable
<1>8. /\ u.bits = t.bits /\ u.elems = t.elems /\ u.deleted = t.deleted /\ u.table = w
      /\ u.common_mask = t.common_mask \ diff /\ u.common_bits = t.common_bits \ diff
      /\ u.perfect_bit = t.perfect_bit \ diff
  BY <1>7
<1>9. Size(u) = Size(t) /\ Slots(u) = Slots(t) BY <1>8 DEF Size, Slots
<1>10. \A h : Bucket(u, h) = Bucket(t, h)
  <2>1. ASSUME NEW h PROVE LowBits(u, h) = LowBits(t, h) BY <1>8 DEF LowBits
  <2> QED BY <1>8, <2>1 DEF Bucket
<1>11. \A h, n : Stamp(u, h, n) = Stamp(t, h, n) \ diff
  <2>1. \A h : Folded(u, h) = Folded(t, h) \ diff BY <1>8 DEF Folded
  <2>2. \A h : HashPtrBits(u, h) = HashPtrBits(t, h) \ diff
    BY <1>8, <2>1 DEF HashPtrBits
  <2> QED BY <1>8, <2>2 DEF Stamp
<1>12. \A i, n : After(u, i, n) = After(t, i, n) BY <1>9 DEF After
<1>13. ASSUME NEW i \in Entries(t)
       PROVE  /\ u.table[i] \in Word /\ Valid(u.table[i])
              /\ PtrAt(u, i) = PtrAt(t, i)
              /\ ExtraPtrBits(u, u.table[i]) = ExtraPtrBits(t, t.table[i]) \ diff
  <2>1. PICK e : e = t.table[i] OBVIOUS
  <2>2. i \in Slots(t) /\ e \in Word /\ Valid(e) /\ PtrAt(t, i) \in Elements BY <2>1, EntryIs
  <2>3. u.table[i] = (e \ diff) \cup (t.common_bits \cap diff) BY <1>4, <1>8, <2>1, <2>2
  <2>4. top \in e /\ top # 0
    <3>1. top \in RawPtr(t, e) BY <2>1, <2>2 DEF IsTop, PtrAt
    <3> QED BY <1>0, <1>1, <3>1 DEF RawPtr, IsTop
  <2>5. u.table[i] \in Word BY <1>1, <2>2, <2>3 DEF Word
  <2>6. top \in u.table[i] BY <1>0, <1>3, <2>3, <2>4
  <2>7. RawPtr(u, u.table[i]) = RawPtr(t, e) BY <1>1, <1>3, <1>8, <2>3 DEF RawPtr
  <2>8. ExtraPtrBits(u, u.table[i]) = ExtraPtrBits(t, e) \ diff
    BY <1>1, <1>3, <1>8, <2>3 DEF ExtraPtrBits
  <2> QED BY <2>1, <2>4, <2>5, <2>6, <2>7, <2>8 DEF PtrAt, Valid, Deleted
<1>14. ASSUME NEW i \in Slots(t), i \notin Entries(t) PROVE u.table[i] = t.table[i]
  BY <1>4, <1>8, <1>14 DEF Entries
<1>15. IsTable(u)
  <2>1. u.table \in [Slots(u) -> Word]
    <3>1. \A i \in Slots(t) : u.table[i] \in Word BY <1>0, <1>13, <1>14 DEF IsTable
    <3> QED BY <1>4, <1>8, <1>9, <3>1
  <2>2. u.common_mask \in Word /\ u.common_bits \in Word /\ u.perfect_bit \in Word
    BY <1>1, <1>8 DEF Word
  <2>3. u.common_bits \subseteq u.common_mask /\ u.perfect_bit \subseteq u.common_mask
    BY <1>1, <1>8
  <2> QED BY <1>0, <1>7, <1>8, <1>9, <2>1, <2>2, <2>3 DEF IsTable
<1>16. Entries(u) = Entries(t) BY <1>9, <1>13, <1>14 DEF Entries
<1>17. Marks(u) = Marks(t) BY <1>9, <1>13, <1>14 DEF Entries, Marks, Valid
<1>18. Pointers(u) = Pointers(t) BY <1>13, <1>16 DEF Pointers, PtrAt
<1>19. Distinct(u) BY <1>13, <1>16 DEF Distinct, Sound
<1>20. ASSUME NEW i \in Entries(t) PROVE Placed(u, i)
  <2>1. PICK n \in Slots(t) : Way(t, i, n) BY DEF AllPlaced, Placed, Slots
  <2>2. Home(u, i) = Home(t, i) BY <1>10, <1>13 DEF Home
  <2>3. ExtraPtrBits(u, u.table[i]) = Stamp(u, hash[PtrAt(u, i)], n)
    BY <1>11, <1>13, <2>1 DEF Way
  <2>4. ASSUME NEW m \in 0 .. n - 1 PROVE u.table[After(u, Home(u, i), m)] # {}
    <3>1. After(t, Home(t, i), m) \in Slots(t) BY <1>0, WayDistance DEF Entries
    <3>2. t.table[After(t, Home(t, i), m)] # {} BY <2>1 DEF Way
    <3> QED BY <1>12, <1>13, <1>14, <2>2, <3>1, <3>2 DEF Valid
  <2>5. Way(u, i, n) BY <1>12, <2>1, <2>2, <2>3, <2>4 DEF Way
  <2> QED BY <1>9, <2>5 DEF Placed, Slots
<1>21. top \notin u.common_mask /\ p \cap u.common_mask = u.common_bits BY <1>0, <1>3, <1>8
<1>22. Sound(u, top) BY <1>15, <1>18, <1>19, <1>21 DEF Sound
<1>23. AllPlaced(u) BY <1>16, <1>20 DEF AllPlaced
<1> QED BY <1>5, <1>8, <1>16, <1>17, <1>18, <1>21, <1>22, <1>23

(* The first element shows its highest bit. *)
LEMMA Reveals ==
  ASSUME NEW t, IsTable(t), NEW top, IsTop(top), Entries(t) = {}, NEW p \in Elements
  PROVE  LET u == Reveal(t, p)
         IN /\ Sound(u, top) /\ AllPlaced(u)
            /\ Entries(u) = Entries(t) /\ Marks(u) = Marks(t) /\ Pointers(u) = Pointers(t)
            /\ u.bits = t.bits /\ u.elems = t.elems /\ u.deleted = t.deleted
            /\ top \notin u.common_mask /\ p \cap u.common_mask = u.common_bits
<1>1. Revealed(p) = top /\ top # 0 BY DEF Revealed, IsTop
<1>2. PICK mask : mask = (0 .. Width - 1) \ {top} OBVIOUS
<1>3. PICK u : u = Reveal(t, p) OBVIOUS
<1>4. u = [bits |-> t.bits, elems |-> t.elems, deleted |-> t.deleted, common_mask |-> mask,
           common_bits |-> p \cap mask, perfect_bit |-> {0}, table |-> t.table]
  BY <1>1, <1>2, <1>3 DEF Reveal, IsTable
<1>5. 0 \in mask /\ mask \in Word /\ p \cap mask \in Word /\ {0} \in Word /\ {0} \subseteq mask
  BY <1>1, <1>2, WidthPositive DEF Word
<1>6. Size(u) = Size(t) /\ Slots(u) = Slots(t) BY <1>4 DEF Size, Slots
<1>7. IsTable(u) BY <1>4, <1>5, <1>6 DEF IsTable
<1>8. Entries(u) = {} /\ Marks(u) = Marks(t) BY <1>4, <1>6 DEF Entries, Marks
<1>9. Pointers(u) = {} /\ Pointers(t) = {} BY <1>8 DEF Pointers
<1>10. Sound(u, top) /\ AllPlaced(u) BY <1>7, <1>8, <1>9 DEF Sound, Distinct, AllPlaced
<1>11. /\ u.bits = t.bits /\ u.elems = t.elems /\ u.deleted = t.deleted
       /\ top \notin u.common_mask /\ p \cap u.common_mask = u.common_bits
  BY <1>2, <1>4
<1> QED BY <1>3, <1>8, <1>9, <1>10, <1>11

LEMMA Updates ==
  ASSUME NEW t, NEW top, Sound(t, top), IsTop(top), AllPlaced(t), top \notin t.common_bits,
         t.elems = 0 <=> Entries(t) = {}, NEW p \in Elements
  PROVE  LET u == UpdateCommon(t, p)
         IN /\ Sound(u, top) /\ AllPlaced(u)
            /\ Entries(u) = Entries(t) /\ Marks(u) = Marks(t) /\ Pointers(u) = Pointers(t)
            /\ u.bits = t.bits /\ u.elems = t.elems /\ u.deleted = t.deleted
            /\ top \notin u.common_mask /\ p \cap u.common_mask = u.common_bits
<1>1. CASE p \cap t.common_mask = t.common_bits
  <2>1. UpdateCommon(t, p) = t BY <1>1 DEF UpdateCommon
  <2>2. top \notin t.common_mask BY <1>1 DEF IsTop
  <2> QED BY <1>1, <2>1, <2>2
<1>2. CASE p \cap t.common_mask # t.common_bits /\ t.elems = 0
  <2>1. UpdateCommon(t, p) = Reveal(t, p) BY <1>2 DEF UpdateCommon
  <2> QED BY <1>2, <2>1, Reveals DEF Sound
<1>3. CASE p \cap t.common_mask # t.common_bits /\ t.elems # 0
  <2>1. UpdateCommon(t, p) = ShrinkCommon(t, p) BY <1>3 DEF UpdateCommon
  <2> QED BY <1>3, <2>1, Shrinks
<1> QED BY <1>1, <1>2, <1>3

(***************************************************************************)
(* The counters, and what htable_add and htable_del leave.                 *)
(***************************************************************************)
Counted(t) ==
  /\ t.elems = Cardinality(Entries(t))
  /\ Cardinality(Marks(t)) <= t.deleted
  /\ t.elems + t.deleted <= MaxWithDeleted(t)

GoodTable(t, top) ==
  Sound(t, top) /\ AllPlaced(t) /\ Counted(t) /\ top \notin t.common_bits

LEMMA Bounds ==
  ASSUME NEW S \in Nat \ {0}
  PROVE  /\ (9 * S) \div 10 \in Nat /\ (9 * S) \div 10 < S
         /\ (3 * S) \div 4 <= (9 * S) \div 10
         /\ (9 * S) \div 10 + 1 <= (9 * (2 * S)) \div 10
OBVIOUS

LEMMA SomeAreEmpty ==
  ASSUME NEW t, IsTable(t), Counted(t)
  PROVE  HasEmpty(t) /\ t.elems <= (9 * Size(t)) \div 10 /\ (t.elems = 0 <=> Entries(t) = {})
<1>1. PICK S \in Nat \ {0} : S = Size(t) BY SizeIs DEF IsTable
<1>2. PICK c, m, e, d : /\ c = Cardinality(Entries(t)) /\ m = Cardinality(Marks(t))
                        /\ e = t.elems /\ d = t.deleted
  OBVIOUS
<1>3. e \in Nat /\ d \in Nat /\ c \in Nat /\ m \in Nat BY <1>2, Counting DEF IsTable
<1>4. e = c /\ m <= d /\ e + d <= (9 * S) \div 10 BY <1>1, <1>2 DEF Counted, MaxWithDeleted
<1>5. e <= (9 * S) \div 10 /\ c + m < S BY <1>1, <1>3, <1>4, Bounds
<1>6. HasEmpty(t) BY <1>1, <1>2, <1>5, Counting DEF HasEmpty
<1>7. e = 0 <=> Entries(t) = {} BY <1>2, <1>4, Counting, FS_EmptySet
<1> QED BY <1>1, <1>2, <1>5, <1>6, <1>7

(* Room for one more: in the table itself, or in a doubled one. *)
LEMMA MakesRoom ==
  ASSUME NEW t, NEW top, GoodTable(t, top), IsTop(top), Full(t) => t.bits < MaxBits
  PROVE  LET r == IF Full(t) THEN DoubleTable(t) ELSE t
         IN /\ GoodTable(r, top) /\ Pointers(r) = Pointers(t) /\ r.elems = t.elems
            /\ r.elems + 1 <= MaxWithDeleted(r)
<1>0. IsTable(t) /\ t.elems \in Nat BY DEF GoodTable, Sound, IsTable
<1>1. PICK S \in Nat \ {0} : S = Size(t) BY <1>0, SizeIs DEF IsTable
<1>2. PICK e \in Nat : e = t.elems BY <1>0
<1>3. e <= (9 * S) \div 10 BY <1>0, <1>1, <1>2, SomeAreEmpty DEF GoodTable
<1>4. CASE ~Full(t)
  <2>1. e + 1 <= (3 * S) \div 4 BY <1>1, <1>2, <1>4 DEF Full, Max_
  <2>2. e + 1 <= (9 * S) \div 10 BY <1>1, <2>1, Bounds
  <2> QED BY <1>1, <1>2, <1>4, <2>2 DEF MaxWithDeleted
<1>5. CASE Full(t)
  <2>1. PICK d : d = DoubleTable(t) OBVIOUS
  <2>2. /\ Sound(d, top) /\ AllPlaced(d) /\ Pointers(d) = Pointers(t) /\ Marks(d) = {}
        /\ Size(d) = 2 * S /\ d.elems = e /\ d.deleted = 0
        /\ d.common_bits = t.common_bits
    BY <1>1, <1>2, <1>5, <2>1, Doubles DEF GoodTable
  <2>3. e + 1 <= (9 * (2 * S)) \div 10 BY <1>1, <1>3, Bounds
  <2>4. e = Cardinality(Entries(d))
    <3>1. Cardinality(Pointers(d)) = Cardinality(Entries(d)) BY <2>2, PointersCount DEF Sound
    <3>2. Cardinality(Pointers(t)) = Cardinality(Entries(t)) BY PointersCount DEF GoodTable, Sound
    <3> QED BY <1>2, <2>2, <3>1, <3>2 DEF GoodTable, Counted
  <2>5. Cardinality(Marks(d)) = 0 BY <2>2, FS_EmptySet
  <2>6. Counted(d) BY <1>1, <2>2, <2>3, <2>4, <2>5 DEF Counted, MaxWithDeleted
  <2> QED BY <1>1, <1>2, <1>5, <2>1, <2>2, <2>3, <2>6 DEF GoodTable, MaxWithDeleted
<1> QED BY <1>4, <1>5

LEMMA Cleans ==
  ASSUME NEW t, NEW top, GoodTable(t, top), IsTop(top), t.elems + 1 <= MaxWithDeleted(t)
  PROVE  LET c == IF Crowded(t) THEN RehashTable(t) ELSE t
         IN /\ GoodTable(c, top) /\ Pointers(c) = Pointers(t) /\ c.elems = t.elems
            /\ c.elems + 1 + c.deleted <= MaxWithDeleted(c)
<1>0. IsTable(t) /\ t.elems \in Nat /\ t.deleted \in Nat BY DEF GoodTable, Sound, IsTable
<1>1. PICK S \in Nat \ {0} : S = Size(t) BY <1>0, SizeIs DEF IsTable
<1>2. CASE ~Crowded(t)
  <2>1. t.elems + 1 + t.deleted <= MaxWithDeleted(t)
    BY <1>0, <1>1, <1>2, Bounds DEF Crowded, MaxWithDeleted
  <2> QED BY <1>2, <2>1
<1>3. CASE Crowded(t)
  <2>1. PICK c : c = RehashTable(t) OBVIOUS
  <2>2. HasEmpty(t) BY <1>0, SomeAreEmpty DEF GoodTable
  <2>3. /\ Sound(c, top) /\ AllPlaced(c) /\ Pointers(c) = Pointers(t) /\ Marks(c) = {}
        /\ SameBits(c, t) /\ c.elems = t.elems /\ c.deleted = 0
    BY <2>1, <2>2, Rehashes DEF GoodTable
  <2>4. Size(c) = Size(t) /\ c.common_bits = t.common_bits BY <2>3, Alike DEF SameBits
  <2>5. c.elems = Cardinality(Entries(c))
    <3>1. Cardinality(Pointers(c)) = Cardinality(Entries(c)) BY <2>3, PointersCount DEF Sound
    <3>2. Cardinality(Pointers(t)) = Cardinality(Entries(t)) BY PointersCount DEF GoodTable, Sound
    <3> QED BY <2>3, <3>1, <3>2 DEF GoodTable, Counted
  <2>6. Cardinality(Marks(c)) = 0 BY <2>3, FS_EmptySet
  <2>7. c.elems + 1 + 0 <= MaxWithDeleted(c) BY <1>0, <2>3, <2>4 DEF MaxWithDeleted
  <2>8. c.elems + 0 <= MaxWithDeleted(c)
    BY <1>0, <1>1, <2>3, <2>4, <2>7, Bounds DEF MaxWithDeleted
  <2>9. Counted(c) BY <2>3, <2>5, <2>6, <2>8 DEF Counted
  <2> QED BY <1>3, <2>1, <2>3, <2>4, <2>7, <2>9 DEF GoodTable
<1> QED BY <1>2, <1>3

LEMMA Adds ==
  ASSUME NEW t, NEW top, GoodTable(t, top), IsTop(top), Full(t) => t.bits < MaxBits,
         NEW p \in Elements, p \notin Pointers(t)
  PROVE  GoodTable(Added(t, p), top) /\ Pointers(Added(t, p)) = Pointers(t) \cup {p}
<1>1. PICK r : r = IF Full(t) THEN DoubleTable(t) ELSE t OBVIOUS
<1>2. /\ GoodTable(r, top) /\ Pointers(r) = Pointers(t) /\ r.elems + 1 <= MaxWithDeleted(r)
  BY <1>1, MakesRoom
<1>3. PICK c : c = IF Crowded(r) THEN RehashTable(r) ELSE r OBVIOUS
<1>4. /\ GoodTable(c, top) /\ Pointers(c) = Pointers(t)
      /\ c.elems + 1 + c.deleted <= MaxWithDeleted(c)
  BY <1>2, <1>3, Cleans
<1>5. PICK v : v = UpdateCommon(c, p) OBVIOUS
<1>6. IsTable(c) /\ HasEmpty(c) /\ (c.elems = 0 <=> Entries(c) = {}) /\ c.elems \in Nat /\ c.deleted \in Nat
  BY <1>4, SomeAreEmpty DEF GoodTable, Sound, IsTable
<1>7. /\ Sound(v, top) /\ AllPlaced(v) /\ Entries(v) = Entries(c) /\ Marks(v) = Marks(c)
      /\ Pointers(v) = Pointers(t) /\ v.bits = c.bits /\ v.elems = c.elems /\ v.deleted = c.deleted
      /\ top \notin v.common_mask /\ p \cap v.common_mask = v.common_bits
  BY <1>4, <1>5, <1>6, Updates DEF GoodTable
<1>8. IsTable(v) /\ Slots(v) = Slots(c) /\ Size(v) = Size(c) BY <1>7 DEF Sound, Slots, Size
<1>9. \E i \in Slots(v) : ~Valid(v.table[i])
  <2>1. PICK i \in Slots(c) : c.table[i] = {} BY <1>6 DEF HasEmpty
  <2>2. i \notin Entries(v) BY <1>7, <2>1 DEF Entries, Valid
  <2> QED BY <1>8, <2>2 DEF Entries
<1>10. PICK w : w = HtAdd(v, p, hash[p]) OBVIOUS
<1>11. PICK i, n : TakesSlot(v, w, p, i, n) BY <1>7, <1>8, <1>9, <1>10, HtAddTakes
<1>12. IsTable(w) /\ SameBits(w, v) /\ w.elems = c.elems /\ w.deleted = c.deleted
  BY <1>7, <1>11 DEF TakesSlot
<1>13. Pointers(w) = Pointers(t) \cup {p} /\ Distinct(w)
  BY <1>7, <1>8, <1>11, TakenPointers DEF Sound
<1>14. Entries(w) = Entries(c) \cup {i} /\ i \notin Entries(c) /\ Marks(w) \subseteq Marks(c)
  BY <1>7, <1>8, <1>11, TakenFacts
<1>15. AllPlaced(w)
  <2>1. Placed(w, i) /\ \A j \in Entries(v) : Placed(v, j) => Placed(w, j)
    BY <1>8, <1>11, TakenPlaces
  <2> QED BY <1>7, <1>14, <2>1 DEF AllPlaced
<1>16. PICK u : u = Added(t, p) OBVIOUS
<1>17. u = [w EXCEPT !.elems = w.elems + 1] BY <1>1, <1>3, <1>5, <1>10, <1>16 DEF Added
<1>18. /\ IsTable(u) /\ SameBits(u, w) /\ u.table = w.table
       /\ u.elems = c.elems + 1 /\ u.deleted = c.deleted
  <2>1. SameBits(u, w) /\ u.table = w.table /\ u.elems = c.elems + 1 /\ u.deleted = c.deleted
    BY <1>12, <1>17 DEF IsTable, SameBits
  <2>2. Slots(u) = Slots(w) BY <2>1, Alike
  <2>3. c.elems + 1 \in Nat BY <1>6
  <2> QED BY <1>12, <1>17, <2>1, <2>2, <2>3 DEF IsTable
<1>19. Sound(w, top)
  <2>1. top \notin w.common_mask BY <1>7, <1>12 DEF SameBits
  <2>2. Pointers(t) \subseteq Elements BY DEF GoodTable, Sound
  <2> QED BY <1>12, <1>13, <2>1, <2>2 DEF Sound
<1>20. /\ Sound(u, top) /\ AllPlaced(u) /\ Pointers(u) = Pointers(w)
       /\ Entries(u) = Entries(w) /\ Marks(u) = Marks(w) /\ Size(u) = Size(w)
  BY <1>12, <1>15, <1>18, <1>19, SameTable
<1>21. Size(u) = Size(c) BY <1>8, <1>12, <1>20, Alike
<1>22. u.elems = Cardinality(Entries(u))
  <2>1. PICK E : E = Entries(c) /\ IsFiniteSet(E) BY <1>6, Counting
  <2>2. Cardinality(E \cup {i}) = Cardinality(E) + 1
    <3>1. i \notin E BY <1>14, <2>1
    <3> QED BY <2>1, <3>1, FS_AddElement
  <2> QED BY <1>4, <1>14, <1>18, <1>20, <2>1, <2>2 DEF GoodTable, Counted
<1>23. Cardinality(Marks(u)) <= u.deleted
  <2>1. Cardinality(Marks(w)) <= Cardinality(Marks(c)) BY <1>6, <1>14, Counting, FS_Subset
  <2>2. Cardinality(Marks(c)) <= c.deleted BY <1>4 DEF GoodTable, Counted
  <2>3. Cardinality(Marks(w)) \in Nat /\ Cardinality(Marks(c)) \in Nat BY <1>6, <1>12, Counting
  <2> QED BY <1>6, <1>18, <1>20, <2>1, <2>2, <2>3
<1>24. Counted(u) BY <1>4, <1>18, <1>21, <1>22, <1>23 DEF Counted, MaxWithDeleted
<1>25. top \notin u.common_bits BY <1>7, <1>8, <1>12, <1>18 DEF SameBits, IsTable
<1> QED BY <1>13, <1>16, <1>20, <1>24, <1>25 DEF GoodTable

LEMMA Deletes ==
  ASSUME NEW t, NEW top, GoodTable(t, top), NEW i \in Entries(t)
  PROVE  GoodTable(DelVal(t, i), top) /\ Pointers(DelVal(t, i)) = Pointers(t) \ {PtrAt(t, i)}
         /\ Entries(DelVal(t, i)) = Entries(t) \ {i} /\ SameBits(DelVal(t, i), t)
         /\ \A j \in Slots(t) : j # i => DelVal(t, i).table[j] = t.table[j]
<1>0. IsTable(t) /\ t.elems \in Nat /\ t.deleted \in Nat /\ i \in Slots(t)
  BY DEF GoodTable, Sound, IsTable, Entries
<1>1. PICK u : u = DelVal(t, i) OBVIOUS
<1>2. u = [t EXCEPT !.elems = t.elems - 1, !.table[i] = Deleted, !.deleted = t.deleted + 1]
  BY <1>1 DEF DelVal
<1>3. u = [bits |-> t.bits, elems |-> t.elems - 1, deleted |-> t.deleted + 1,
           common_mask |-> t.common_mask, common_bits |-> t.common_bits,
           perfect_bit |-> t.perfect_bit, table |-> [t.table EXCEPT ![i] = Deleted]]
  BY <1>0, <1>2 DEF IsTable
<1>4. /\ SameBits(u, t) /\ u.elems = t.elems - 1 /\ u.deleted = t.deleted + 1
      /\ u.table = [t.table EXCEPT ![i] = Deleted]
  BY <1>3 DEF SameBits
<1>5. u.table[i] = Deleted BY <1>0, <1>4 DEF IsTable
<1>6. Cardinality(Entries(t)) = t.elems /\ t.elems - 1 \in Nat
      /\ Cardinality(Entries(t) \ {i}) = t.elems - 1
  <2>1. Cardinality(Entries(t)) = t.elems BY DEF GoodTable, Counted
  <2>2. Cardinality(Entries(t) \ {i}) = Cardinality(Entries(t)) - 1 BY <1>0, Counting, FS_RemoveElement
  <2>3. t.elems # 0 BY <1>0, SomeAreEmpty DEF GoodTable
  <2> QED BY <1>0, <2>1, <2>2, <2>3
<1>7. IsTable(u)
  <2>1. Slots(u) = Slots(t) BY <1>4, Alike
  <2>2. Deleted \in Word BY WidthPositive DEF Word, Deleted
  <2>3. t.deleted + 1 \in Nat BY <1>0
  <2> QED BY <1>0, <1>3, <1>4, <1>6, <2>1, <2>2, <2>3 DEF IsTable
<1>8. ClearsSlot(t, u, i) /\ u.table[i] # {} BY <1>0, <1>4, <1>5, <1>7 DEF ClearsSlot, Valid, Deleted
<1>9. /\ Entries(u) = Entries(t) \ {i} /\ Distinct(u) /\ Pointers(u) = Pointers(t) \ {PtrAt(t, i)}
      /\ Slots(u) = Slots(t) /\ \A j \in Slots(t) : j # i => u.table[j] = t.table[j]
  BY <1>0, <1>8, ClearedFacts DEF GoodTable, Sound
<1>10. AllPlaced(u) BY <1>0, <1>8, <1>9, ClearedPlaces DEF AllPlaced, GoodTable
<1>11. Sound(u, top) BY <1>4, <1>7, <1>9 DEF Sound, GoodTable, SameBits
<1>12. Marks(u) = Marks(t) \cup {i} /\ i \notin Marks(t)
  BY <1>0, <1>5, <1>9 DEF Marks, Entries, Valid
<1>13. Cardinality(Marks(u)) <= t.deleted + 1
  <2>1. Cardinality(Marks(u)) = Cardinality(Marks(t)) + 1 BY <1>0, <1>12, Counting, FS_AddElement
  <2>2. Cardinality(Marks(t)) <= t.deleted /\ Cardinality(Marks(t)) \in Nat
    BY <1>0, Counting DEF GoodTable, Counted
  <2> QED BY <1>0, <2>1, <2>2
<1>14. Counted(u)
  <2>1. MaxWithDeleted(u) = MaxWithDeleted(t) BY <1>4, Alike DEF MaxWithDeleted
  <2>2. t.elems + t.deleted <= MaxWithDeleted(t) BY DEF GoodTable, Counted
  <2>3. (t.elems - 1) + (t.deleted + 1) = t.elems + t.deleted BY <1>0
  <2> QED BY <1>4, <1>6, <1>9, <1>13, <2>1, <2>2, <2>3 DEF Counted
<1>15. top \notin u.common_bits BY <1>4 DEF GoodTable, SameBits
<1> QED BY <1>1, <1>4, <1>9, <1>10, <1>11, <1>14, <1>15 DEF GoodTable

(***************************************************************************)
(* htable_get and htable_del: a probe meets exactly the entries of its     *)
(* pointer.                                                                *)
(***************************************************************************)
LEMMA ProbesMeet ==
  ASSUME NEW t, IsTable(t), AllPlaced(t), HasEmpty(t), NEW p
  PROVE  SlotsOf(t, hash[p], p) = {i \in Entries(t) : PtrAt(t, i) = p}
<1>1. PICK h, b : h = hash[p] /\ b = Bucket(t, h) OBVIOUS
<1>a. b \in Slots(t) BY <1>1, BucketIs DEF IsTable
<1>2. b \in Slots(t) /\ Slots(t) = 0 .. Size(t) - 1 BY <1>a DEF Slots
<1>3. PICK L : L = ProbeLength(t, h) OBVIOUS
<1>4. L \in Slots(t) /\ t.table[After(t, b, L)] = {}
  <2> DEFINE Ends == {n \in 0 .. Size(t) - 1 : t.table[After(t, b, n)] = {}}
  <2>1. PICK i \in Slots(t) : t.table[i] = {} BY DEF HasEmpty
  <2>2. PICK n \in Slots(t) : i = After(t, b, n)
    <3>1. \A k \in Slots(t) : \E n \in Slots(t) : k = After(t, b, n) BY <1>a, AfterIs DEF IsTable
    <3> QED BY <2>1, <3>1
  <2>3. Ends \in SUBSET Nat /\ Ends # {} BY <1>2, <2>1, <2>2
  <2>4. L = Min(Ends) BY <1>1, <1>3 DEF ProbeLength
  <2>5. L \in Ends
    <3> HIDE DEF Ends
    <3> QED BY <2>3, <2>4, HasSmallest
  <2> QED BY <1>2, <2>5
<1>5. Size(t) \in Nat BY SizeIs DEF IsTable
<1>6. Candidates(t, h) =
        {After(t, b, n) : n \in {m \in 0 .. L - 1 : /\ Valid(t.table[After(t, b, m)])
                                                   /\ ExtraPtrBits(t, t.table[After(t, b, m)]) = Stamp(t, h, m)}}
  BY <1>1, <1>3 DEF Candidates
<1>7. ASSUME NEW i \in SlotsOf(t, h, p) PROVE i \in Entries(t) /\ PtrAt(t, i) = p
  <2>1. i \in Candidates(t, h) /\ PtrAt(t, i) = p BY DEF SlotsOf, PtrAt
  <2>2. PICK n \in 0 .. L - 1 : i = After(t, b, n) /\ Valid(t.table[i]) BY <1>6, <2>1
  <2>3. n \in Slots(t) BY <1>2, <1>4, <1>5
  <2>4. i \in Slots(t) BY <1>2, <2>2, <2>3, AfterIs DEF IsTable
  <2> QED BY <2>1, <2>2, <2>4 DEF Entries
<1>8. ASSUME NEW i \in Entries(t), PtrAt(t, i) = p PROVE i \in SlotsOf(t, h, p)
  <2>1. PICK n \in 0 .. Size(t) - 1 : Way(t, i, n) BY DEF AllPlaced, Placed
  <2>2. Home(t, i) = b BY <1>1, <1>8 DEF Home
  <2>3. i = After(t, b, n) /\ Valid(t.table[i]) /\ ExtraPtrBits(t, t.table[i]) = Stamp(t, h, n)
    BY <1>1, <1>8, <2>1, <2>2 DEF Way, Entries
  <2>4. n < L
    <3>1. CASE n = L BY <1>4, <2>3, <3>1 DEF Valid
    <3>2. CASE n > L
      <4>1. L \in 0 .. n - 1 BY <1>2, <1>4, <1>5, <3>2
      <4> QED BY <1>4, <2>1, <2>2, <4>1 DEF Way
    <3> QED BY <1>2, <1>4, <1>5, <3>1, <3>2
  <2>5. n \in 0 .. L - 1 BY <1>2, <1>4, <1>5, <2>4
  <2>6. i \in Candidates(t, h) BY <1>6, <2>3, <2>5
  <2> QED BY <1>8, <2>6 DEF SlotsOf, PtrAt
<1>9. SlotsOf(t, h, p) = {i \in Entries(t) : PtrAt(t, i) = p} BY <1>7, <1>8
<1> QED BY <1>1, <1>9

LEMMA ProbesFind ==
  ASSUME NEW t, NEW top, GoodTable(t, top), NEW p
  PROVE  /\ p \in Pointers(t) => \E i \in Entries(t) : PtrAt(t, i) = p /\ SlotsOf(t, hash[p], p) = {i}
         /\ p \notin Pointers(t) => SlotsOf(t, hash[p], p) = {}
<1>1. IsTable(t) /\ HasEmpty(t) BY SomeAreEmpty DEF GoodTable, Sound
<1>2. SlotsOf(t, hash[p], p) = {i \in Entries(t) : PtrAt(t, i) = p}
  BY <1>1, ProbesMeet DEF GoodTable
<1>3. Pointers(t) = {PtrAt(t, i) : i \in Entries(t)} BY DEF Pointers, PtrAt
<1>4. ASSUME p \in Pointers(t)
      PROVE  \E i \in Entries(t) : PtrAt(t, i) = p /\ SlotsOf(t, hash[p], p) = {i}
  <2>1. PICK i \in Entries(t) : PtrAt(t, i) = p BY <1>3, <1>4
  <2>2. \A j \in Entries(t) : PtrAt(t, j) = p => j = i BY <2>1 DEF GoodTable, Sound, Distinct
  <2> QED BY <1>2, <2>1, <2>2
<1>5. ASSUME p \notin Pointers(t) PROVE SlotsOf(t, hash[p], p) = {} BY <1>2, <1>3, <1>5
<1> QED BY <1>4, <1>5

(***************************************************************************)
(* faup_snapshot_item_free.                                                *)
(***************************************************************************)
FreeState ==
  [t : [bits : {ht.bits}, elems : Int, deleted : Int, common_mask : {ht.common_mask},
        common_bits : {ht.common_bits}, perfect_bit : {ht.perfect_bit},
        table : [Slots(ht) -> Word]],
   freed : SUBSET Word]

LEMMA FreeSlotStays ==
  ASSUME IsTable(ht), NEW w \in FreeState, NEW i \in Slots(ht)
  PROVE  FreeSlot(w, i) \in FreeState
<1>1. PICK x, e : x = w.t /\ e = x.table[i] OBVIOUS
<1>2. /\ x \in [bits : {ht.bits}, elems : Int, deleted : Int, common_mask : {ht.common_mask},
                common_bits : {ht.common_bits}, perfect_bit : {ht.perfect_bit},
                table : [Slots(ht) -> Word]]
      /\ w.freed \in SUBSET Word
  BY <1>1 DEF FreeState
<1>3. PICK p : p = RawPtr(x, e) OBVIOUS
<1>4. p \in Word
  <2>1. e \in Word /\ x.common_bits = ht.common_bits /\ ht.common_bits \in Word
    BY <1>1, <1>2 DEF IsTable
  <2> QED BY <1>3, <2>1 DEF RawPtr, Word
<1>5. PICK j : j = CHOOSE k \in SlotsOf(x, hash[p], p) : TRUE OBVIOUS
<1>6. PICK d : d = DelVal(x, j) OBVIOUS
<1>7. d \in [bits : {ht.bits}, elems : Int, deleted : Int, common_mask : {ht.common_mask},
             common_bits : {ht.common_bits}, perfect_bit : {ht.perfect_bit},
             table : [Slots(ht) -> Word]]
  <2>1. [x.table EXCEPT ![j] = Deleted] \in [Slots(ht) -> Word]
    <3>1. Deleted \in Word BY WidthPositive DEF Word, Deleted
    <3> QED BY <1>2, <3>1
  <2>2. x.elems - 1 \in Int /\ x.deleted + 1 \in Int BY <1>2
  <2>3. d = [x EXCEPT !.elems = x.elems - 1, !.table[j] = Deleted, !.deleted = x.deleted + 1]
    BY <1>6 DEF DelVal
  <2>4. d = [bits |-> x.bits, elems |-> x.elems - 1, deleted |-> x.deleted + 1,
             common_mask |-> x.common_mask, common_bits |-> x.common_bits,
             perfect_bit |-> x.perfect_bit, table |-> [x.table EXCEPT ![j] = Deleted]]
    BY <1>2, <2>3
  <2> QED BY <1>2, <2>1, <2>2, <2>4
<1>8. w.freed \cup {p} \in SUBSET Word BY <1>2, <1>4
<1>9. FreeSlot(w, i) = IF ~Valid(e) THEN w
                       ELSE [t |-> IF SlotsOf(x, hash[p], p) = {} THEN x ELSE d,
                             freed |-> w.freed \cup {p}]
  BY <1>1, <1>3, <1>5, <1>6 DEF FreeSlot
<1> QED BY <1>2, <1>7, <1>8, <1>9 DEF FreeState

LEMMA FreedIs ==
  ASSUME IsTable(ht)
  PROVE  /\ Freed[0] = [t |-> ht, freed |-> {}]
         /\ \A i \in 1 .. Size(ht) : Freed[i] = FreeSlot(Freed[i - 1], i - 1)
<1>0. PICK N \in Nat : N = Size(ht) BY SizeIs DEF IsTable
<1> DEFINE T == FreeState
           a == [t |-> ht, freed |-> {}]
           G == [i \in 1 .. N |-> [w \in T |-> FreeSlot(w, i - 1)]]
           Eq(f) == f = [i \in 0 .. N |-> IF i = 0 THEN a ELSE FreeSlot(f[i - 1], i - 1)]
<1>1. a \in T BY DEF FreeState, IsTable
<1>3. \A i \in 1 .. N : \A w \in T : FreeSlot(w, i - 1) \in T
  <2>1. \A i \in 1 .. N : i - 1 \in Slots(ht) BY <1>0 DEF Slots
  <2> QED BY <2>1, FreeSlotStays
<1> HIDE DEF T
<1>4. PICK g \in [0 .. N -> T] : Iterates(g, N, a, G)
  <2>1. StaysIn(T, N, G) BY <1>3 DEF StaysIn
  <2> HIDE DEF G, a
  <2> QED BY <1>1, <2>1, Recursion, Zenon
<1> HIDE DEF a
<1> USE DEF Iterates
<1>5. Eq(g)
  <2>1. ASSUME NEW i \in 0 .. N
        PROVE  g[i] = IF i = 0 THEN a ELSE FreeSlot(g[i - 1], i - 1)
    <3>1. CASE i = 0 BY <1>4, <3>1
    <3>2. CASE i # 0
      <4>1. i \in 1 .. N /\ i - 1 \in 0 .. N BY <3>2
      <4>2. g[i - 1] \in T BY <4>1
      <4> QED BY <1>4, <3>2, <4>1, <4>2
    <3> QED BY <3>1, <3>2
  <2> QED BY <2>1
<1>6. Freed = CHOOSE f : Eq(f) BY <1>0 DEF Freed, a
<1> DEFINE f == Freed
<1>7. Eq(f)
  <2> HIDE DEF Eq
  <2> QED BY <1>5, <1>6
<1>8. f[0] = a /\ \A i \in 1 .. N : f[i] = FreeSlot(f[i - 1], i - 1)
  <2> HIDE DEF f
  <2> QED BY <1>7
<1> QED BY <1>0, <1>8 DEF a

FreedUpTo(w, i, top) ==
  /\ GoodTable(w.t, top) /\ SameBits(w.t, ht)
  /\ Entries(w.t) = {k \in Entries(ht) : k >= i}
  /\ \A k \in Entries(w.t) : w.t.table[k] = ht.table[k]
  /\ w.freed = {PtrAt(ht, k) : k \in {j \in Entries(ht) : j < i}}

LEMMA FreesSlot ==
  ASSUME NEW top, GoodTable(ht, top), NEW i \in 1 .. Size(ht), NEW w, FreedUpTo(w, i - 1, top)
  PROVE  FreedUpTo(FreeSlot(w, i - 1), i, top)
<1>0. IsTable(ht) /\ \A k \in Entries(ht) : k \in Nat /\ k \in Slots(ht)
  BY DEF GoodTable, Sound, Entries, Slots
<1>1. PICK n : n = i - 1 OBVIOUS
<1>2. PICK x, e, p : x = w.t /\ e = x.table[n] /\ p = RawPtr(x, e) OBVIOUS
<1>3. /\ GoodTable(x, top) /\ SameBits(x, ht) /\ Entries(x) = {k \in Entries(ht) : k >= n}
      /\ \A k \in Entries(x) : x.table[k] = ht.table[k]
      /\ w.freed = {PtrAt(ht, k) : k \in {j \in Entries(ht) : j < n}}
  BY <1>1, <1>2 DEF FreedUpTo
<1>4. n \in Slots(ht) /\ Slots(x) = Slots(ht) /\ i = n + 1 /\ n \in Nat
  BY <1>0, <1>1, <1>3, Alike, SizeIs DEF IsTable, Slots
<1>5. CASE ~Valid(e)
  <2>1. FreeSlot(w, n) = w BY <1>2, <1>5 DEF FreeSlot
  <2>2. n \notin Entries(ht)
    <3>1. n \notin Entries(x) BY <1>2, <1>5 DEF Entries
    <3> QED BY <1>3, <1>4, <3>1
  <2>3. \A k \in Entries(ht) : (k >= n <=> k >= i) /\ (k < n <=> k < i) BY <1>0, <1>4, <2>2
  <2>4. /\ {k \in Entries(ht) : k >= n} = {k \in Entries(ht) : k >= i}
        /\ {k \in Entries(ht) : k < n} = {k \in Entries(ht) : k < i}
    BY <2>3
  <2>5. FreedUpTo(w, i, top) BY <1>2, <1>3, <2>4 DEF FreedUpTo
  <2> QED BY <1>1, <2>1, <2>5
<1>6. CASE Valid(e)
  <2>1. n \in Entries(x) /\ n \in Entries(ht) BY <1>2, <1>3, <1>4, <1>6 DEF Entries
  <2>2. p = PtrAt(x, n) /\ p \in Pointers(x) BY <1>2, <2>1 DEF PtrAt, Pointers
  <2>3. p = PtrAt(ht, n) BY <1>2, <1>3, <2>1, Alike DEF PtrAt
  <2>4. PICK j \in Entries(x) : PtrAt(x, j) = p /\ SlotsOf(x, hash[p], p) = {j}
    BY <1>3, <2>2, ProbesFind
  <2>5. j = n BY <1>3, <2>1, <2>2, <2>4 DEF GoodTable, Sound, Distinct
  <2>6. (CHOOSE k \in SlotsOf(x, hash[p], p) : TRUE) = n BY <2>4, <2>5
  <2>7. PICK d, v : d = DelVal(x, n) /\ v = [t |-> d, freed |-> w.freed \cup {p}] OBVIOUS
  <2>8. FreeSlot(w, n) = v
    <3>1. SlotsOf(x, hash[p], p) # {} BY <2>4
    <3>2. FreeSlot(w, n) =
            [t |-> IF SlotsOf(x, hash[p], p) = {} THEN x
                   ELSE DelVal(x, CHOOSE k \in SlotsOf(x, hash[p], p) : TRUE),
             freed |-> w.freed \cup {p}]
      BY <1>2, <1>6 DEF FreeSlot
    <3> QED BY <2>6, <2>7, <3>1, <3>2
  <2>9. /\ GoodTable(d, top) /\ Entries(d) = Entries(x) \ {n} /\ SameBits(d, x)
        /\ \A k \in Slots(x) : k # n => d.table[k] = x.table[k]
    BY <1>3, <2>1, <2>7, Deletes
  <2>10. SameBits(d, ht) BY <1>3, <2>9 DEF SameBits
  <2>11. Entries(d) = {k \in Entries(ht) : k >= i} BY <1>0, <1>3, <1>4, <2>9
  <2>12. \A k \in Entries(d) : d.table[k] = ht.table[k] BY <1>0, <1>3, <1>4, <2>9
  <2>13. {k \in Entries(ht) : k < i} = {k \in Entries(ht) : k < n} \cup {n}
    <3>1. \A k \in Entries(ht) : k < i <=> (k < n \/ k = n) BY <1>0, <1>4
    <3> QED BY <2>1, <3>1
  <2>14. v.freed = {PtrAt(ht, k) : k \in {j2 \in Entries(ht) : j2 < i}}
    BY <1>3, <2>3, <2>7, <2>13
  <2>15. FreedUpTo(v, i, top) BY <2>7, <2>9, <2>10, <2>11, <2>12, <2>14 DEF FreedUpTo
  <2> QED BY <1>1, <2>8, <2>15
<1> QED BY <1>5, <1>6

LEMMA FreesAll ==
  ASSUME NEW top, GoodTable(ht, top)
  PROVE  Freed[Size(ht)].freed = Pointers(ht)
<1>0. IsTable(ht) BY DEF GoodTable, Sound
<1>1. PICK N \in Nat : N = Size(ht) BY <1>0, SizeIs DEF IsTable
<1>2. PICK f : f = Freed OBVIOUS
<1>3. f[0] = [t |-> ht, freed |-> {}] /\ \A i \in 1 .. N : f[i] = FreeSlot(f[i - 1], i - 1)
  BY <1>0, <1>1, <1>2, FreedIs
<1>4. \A k \in Entries(ht) : k \in Nat /\ k < N BY <1>1 DEF Entries, Slots
<1> DEFINE S == {i \in 0 .. N : FreedUpTo(f[i], i, top)}
<1>5. \A i \in 0 .. N : i \in S
  <2>1. 0 \in S
    <3>1. {k \in Entries(ht) : k < 0} = {} /\ {k \in Entries(ht) : k >= 0} = Entries(ht) BY <1>4
    <3>2. f[0].t = ht /\ f[0].freed = {} BY <1>3
    <3>3. FreedUpTo(f[0], 0, top) BY <3>1, <3>2 DEF FreedUpTo, SameBits
    <3> QED BY <3>3
  <2>2. ASSUME NEW i \in 1 .. N, i - 1 \in S PROVE i \in S
    <3>1. FreedUpTo(f[i - 1], i - 1, top) BY <2>2
    <3>2. FreedUpTo(FreeSlot(f[i - 1], i - 1), i, top) BY <1>1, <3>1, FreesSlot
    <3> QED BY <1>3, <3>2
  <2> HIDE DEF S
  <2> QED BY <2>1, <2>2, UpTo
<1>6. FreedUpTo(f[N], N, top) BY <1>5
<1>7. {k \in Entries(ht) : k < N} = Entries(ht) BY <1>4
<1> QED BY <1>1, <1>2, <1>6, <1>7 DEF FreedUpTo, Pointers, PtrAt

(***************************************************************************)
(* The specification keeps the table good.                                 *)
(***************************************************************************)
GoodHt(top) == IsTop(top) /\ GoodTable(ht, top)

LEMMA EmptyIsGood ==
  ASSUME NEW top, IsTop(top)
  PROVE  GoodTable(EmptyTable, top) /\ Pointers(EmptyTable) = {}
<1>1. PICK t : t = EmptyTable OBVIOUS
<1>2. /\ t.bits = 0 /\ t.elems = 0 /\ t.deleted = 0 /\ t.common_mask = 0 .. Width - 1
      /\ t.common_bits = {} /\ t.perfect_bit = {} /\ t.table = [i \in {0} |-> {}]
  BY <1>1 DEF EmptyTable
<1>3. Size(t) = 1 /\ Slots(t) = {0} BY <1>2, Powers DEF Size, Slots
<1>4. IsTable(t)
  <2>1. 0 \in 0 .. MaxBits BY MaxBitsPositive, WidthPositive
  <2> QED BY <1>1, <1>2, <1>3, <2>1 DEF EmptyTable, IsTable, Word
<1>5. Entries(t) = {} /\ Marks(t) = {} BY <1>2, <1>3 DEF Entries, Marks, Valid, Deleted
<1>6. Pointers(t) = {} BY <1>5 DEF Pointers
<1>7. Sound(t, top) /\ AllPlaced(t) BY <1>4, <1>5, <1>6 DEF Sound, AllPlaced, Distinct
<1>8. Counted(t) BY <1>2, <1>3, <1>5, FS_EmptySet DEF Counted, MaxWithDeleted
<1> QED BY <1>1, <1>2, <1>6, <1>7, <1>8 DEF GoodTable

(* The hashes do not change; what is good before a step is good after it.  *)
LEMMA StaysGood ==
  ASSUME NEW top, IsTop(top), NEW t, GoodTable(t, top), ht' = t, hash' = hash
  PROVE  GoodHt(top)'
<1>1. Sound(ht, top)' BY DEF GoodTable, Sound, Distinct, PtrAt
<1>2. AllPlaced(ht)' BY DEF GoodTable, AllPlaced, Placed, Way, Home, PtrAt
<1>3. Counted(ht)' /\ top \notin ht'.common_bits BY DEF GoodTable, Counted
<1> QED BY <1>1, <1>2, <1>3 DEF GoodHt, GoodTable

LEMMA AddStep ==
  ASSUME NEW top, GoodHt(top), NEW p \in Elements, Add(p)
  PROVE  GoodHt(top)' /\ Set!Add(p)
<1>1. IsTop(top) /\ GoodTable(ht, top) /\ p \notin Pointers(ht) /\ hash' = hash
  BY DEF GoodHt, Add, Members
<1>2. CASE (Full(ht) => ht.bits < MaxBits) /\ ht' = Added(ht, p) /\ ret' = {p}
  <2>1. PICK t : t = Added(ht, p) OBVIOUS
  <2>2. GoodTable(t, top) /\ Pointers(t) = Pointers(ht) \cup {p} BY <1>1, <1>2, <2>1, Adds
  <2>3. GoodHt(top)' BY <1>1, <1>2, <2>1, <2>2, StaysGood
  <2>4. Members' = Members \cup {p} BY <1>2, <2>1, <2>2 DEF Members
  <2> QED BY <1>1, <1>2, <2>3, <2>4 DEF Set!Add, Members
<1>3. CASE ht' = ht /\ ret' = {}
  <2>1. GoodHt(top)' BY <1>1, <1>3, StaysGood
  <2>2. Members' = Members BY <1>3 DEF Members
  <2> QED BY <1>1, <1>3, <2>1, <2>2 DEF Set!Add, Members
<1> QED BY <1>2, <1>3 DEF Add

LEMMA DelStep ==
  ASSUME NEW top, GoodHt(top), NEW p \in Elements, Del(p)
  PROVE  GoodHt(top)' /\ Set!Del(p)
<1>1. IsTop(top) /\ GoodTable(ht, top) /\ hash' = hash BY DEF GoodHt, Del
<1>2. CASE p \in Pointers(ht)
  <2>1. PICK i \in Entries(ht) : PtrAt(ht, i) = p /\ SlotsOf(ht, hash[p], p) = {i}
    BY <1>1, <1>2, ProbesFind
  <2>2. Finds(ht, hash[p], p) /\ (CHOOSE j \in SlotsOf(ht, hash[p], p) : TRUE) = i
    BY <2>1 DEF Finds
  <2>3. PICK t : t = DelVal(ht, i) OBVIOUS
  <2>4. ht' = t /\ ret' = {p} BY <2>2, <2>3 DEF Del
  <2>5. GoodTable(t, top) /\ Pointers(t) = Pointers(ht) \ {p} BY <1>1, <2>1, <2>3, Deletes
  <2>6. GoodHt(top)' BY <1>1, <2>4, <2>5, StaysGood
  <2>7. Members' = Members \ {p} BY <2>4, <2>5 DEF Members
  <2> QED BY <1>2, <2>4, <2>6, <2>7 DEF Set!Del, Members
<1>3. CASE p \notin Pointers(ht)
  <2>1. ~Finds(ht, hash[p], p) BY <1>1, <1>3, ProbesFind DEF Finds
  <2>2. ht' = ht /\ ret' = {} BY <2>1 DEF Del
  <2>3. GoodHt(top)' BY <1>1, <2>2, StaysGood
  <2>4. Members' = Members BY <2>2 DEF Members
  <2> QED BY <1>3, <2>2, <2>3, <2>4 DEF Set!Del, Members
<1> QED BY <1>2, <1>3

LEMMA FreeStep ==
  ASSUME NEW top, GoodHt(top), Free
  PROVE  GoodHt(top)' /\ Set!Free
<1>1. IsTop(top) /\ GoodTable(ht, top) BY DEF GoodHt
<1>2. ht' = EmptyTable /\ hash' = hash /\ ret' = Freed[Size(ht)].freed BY DEF Free
<1>3. PICK t : t = EmptyTable OBVIOUS
<1>4. GoodTable(t, top) /\ Pointers(t) = {} BY <1>1, <1>3, EmptyIsGood
<1>5. GoodHt(top)' BY <1>1, <1>2, <1>3, <1>4, StaysGood
<1>6. ret' = Members BY <1>1, <1>2, FreesAll DEF Members
<1>7. Members' = {} BY <1>2, <1>3, <1>4 DEF Members
<1> QED BY <1>5, <1>6, <1>7 DEF Set!Free

LEMMA GoodInit ==
  ASSUME NEW top, IsTop(top), Init
  PROVE  GoodHt(top) /\ Set!Init
BY EmptyIsGood DEF Init, GoodHt, Set!Init, Members

LEMMA GoodNext ==
  ASSUME NEW top, GoodHt(top), [Next]_vars
  PROVE  GoodHt(top)' /\ [Set!Next]_(Set!vars)
<1>1. CASE Next BY <1>1, AddStep, DelStep, FreeStep DEF Next, Set!Next
<1>2. CASE UNCHANGED vars
  <2>1. ht' = ht /\ hash' = hash /\ ret' = ret BY <1>2 DEF vars
  <2>2. GoodHt(top)' BY <2>1, StaysGood DEF GoodHt
  <2>3. Members' = Members BY <2>1 DEF Members
  <2> QED BY <2>1, <2>2, <2>3 DEF Set!vars
<1> QED BY <1>1, <1>2

(* There is a highest bit with which the table stays good.                 *)
TableInv == \E top \in 1 .. Width - 1 : GoodHt(top)

(* For pointers of one heap, whatever is added, deleted and freed, in any  *)
(* order: the table keeps what its operations need (sound, every entry on  *)
(* the way of a probe, counted).                                           *)
THEOREM TableInvariant == OneHeap => (Spec => []TableInv)
<1>1. OneHeap /\ Init => TableInv BY GoodInit DEF OneHeap, IsTop, TableInv
<1>2. TableInv /\ [Next]_vars => TableInv' BY GoodNext DEF TableInv
<1> SUFFICES ASSUME OneHeap PROVE Spec => []TableInv OBVIOUS
<1> QED BY <1>1, <1>2, PTL DEF Spec

(* htable_val, ht_add and rehash_table always meet an empty slot, however  *)
(* many marks deletions left: no probe runs for ever, in a table of any    *)
(* size.                                                                   *)
THEOREM ProbesAlwaysEnd == OneHeap => (Spec => []ProbesEnd)
<1>1. TableInv => ProbesEnd
  <2> SUFFICES ASSUME NEW top, GoodTable(ht, top) PROVE ProbesEnd BY DEF TableInv, GoodHt
  <2>2. IsTable(ht) /\ Counted(ht) BY DEF GoodTable, Sound
  <2>3. HasEmpty(ht) BY <2>2, SomeAreEmpty
  <2>4. ht.deleted \in Nat /\ Cardinality(Marks(ht)) \in Nat BY <2>2, Counting DEF IsTable
  <2> QED BY <2>2, <2>3, <2>4 DEF ProbesEnd, Counted, HasEmpty
<1> QED BY <1>1, TableInvariant, PTL

(* htable_get meets a member once, and nothing that is no member, however  *)
(* the bits of the entries were shared out when they were added.           *)
THEOREM MembersAreFound == OneHeap => (Spec => []FindsMembers)
<1>1. TableInv => FindsMembers
  <2> SUFFICES ASSUME NEW top, GoodTable(ht, top), NEW p \in Elements
               PROVE  Cardinality(SlotsOf(ht, hash[p], p)) = IF p \in Members THEN 1 ELSE 0
    BY DEF TableInv, GoodHt, FindsMembers
  <2>2. CASE p \in Members
    <3>1. PICK i : SlotsOf(ht, hash[p], p) = {i} BY <2>2, ProbesFind DEF Members
    <3> QED BY <2>2, <3>1, FS_Singleton
  <2>3. CASE p \notin Members
    <3>1. SlotsOf(ht, hash[p], p) = {} BY <2>3, ProbesFind DEF Members
    <3> QED BY <2>3, <3>1, FS_EmptySet
  <2> QED BY <2>2, <2>3
<1> QED BY <1>1, TableInvariant, PTL

(* The table is the set that htable.h promises: additions, deletions and   *)
(* the walk that frees change it by their elements only, through doubling, *)
(* rehashing and the loss of common bits.                                  *)
THEOREM ImplementsSet == OneHeap => (Spec => IsASet)
<1>1. OneHeap /\ Init => Set!Init BY GoodInit DEF OneHeap, IsTop
<1>2. TableInv /\ [Next]_vars => [Set!Next]_(Set!vars) BY GoodNext DEF TableInv
<1> SUFFICES ASSUME OneHeap PROVE Spec => IsASet OBVIOUS
<1> QED BY <1>1, <1>2, TableInvariant, PTL DEF Spec, IsASet, Set!Spec
=============================================================================
