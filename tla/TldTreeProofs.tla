--------------------------- MODULE TldTreeProofs ----------------------------
(***************************************************************************)
(* What the tree of TLDs holds and which TLD a host gets: for every list   *)
(* of every length, every host and everything around it.                   *)
(***************************************************************************)
EXTENDS PublicSuffixes, SequenceTheorems, WellFoundedInduction, TLAPS

Str == Seq(STRING)

(***************************************************************************)
(* Ends of sequences                                                       *)
(***************************************************************************)
LEMMA SameSeq ==
  ASSUME NEW s \in Str, NEW t \in Str, Len(s) = Len(t),
         \A i \in 1 .. Len(s) : s[i] = t[i]
  PROVE  s = t
  BY DEF Str

LEMMA EndIs ==
  ASSUME NEW s \in Str, NEW n \in 0 .. Len(s)
  PROVE  /\ End(s, n) \in Str /\ Len(End(s, n)) = n
         /\ \A i \in 1 .. n : End(s, n)[i] = s[Len(s) - n + i]
<1>1. Len(s) \in Nat BY DEF Str
<1> QED BY <1>1 DEF End, Str

LEMMA WholeEnd ==
  ASSUME NEW s \in Str
  PROVE  End(s, Len(s)) = s
<1>1. Len(s) \in 0 .. Len(s) BY DEF Str
<1> QED BY <1>1, EndIs, SameSeq

LEMMA EndOfEnd ==
  ASSUME NEW s \in Str, NEW n \in 0 .. Len(s), NEW m \in 0 .. n
  PROVE  End(End(s, n), m) = End(s, m)
<1>1. Len(s) \in Nat /\ m \in 0 .. Len(s) BY DEF Str
<1>2. End(s, n) \in Str /\ Len(End(s, n)) = n BY EndIs
<1>3. /\ End(End(s, n), m) \in Str /\ Len(End(End(s, n), m)) = m
      /\ \A i \in 1 .. m : End(End(s, n), m)[i] = End(s, n)[n - m + i]
  BY <1>2, EndIs
<1>4. \A i \in 1 .. m : End(s, n)[n - m + i] = s[Len(s) - m + i]
  <2>1. ASSUME NEW i \in 1 .. m PROVE n - m + i \in 1 .. n /\ Len(s) - n + (n - m + i) = Len(s) - m + i
    BY <1>1
  <2> QED BY <2>1, EndIs
<1>5. /\ End(s, m) \in Str /\ Len(End(s, m)) = m
      /\ \A i \in 1 .. m : End(s, m)[i] = s[Len(s) - m + i]
  BY <1>1, EndIs
<1> QED BY <1>3, <1>4, <1>5, SameSeq

LEMMA BeforeIs ==
  ASSUME NEW s \in Str, NEW t \in Str, Len(t) <= Len(s)
  PROVE  /\ Before(s, t) \in Str /\ Len(Before(s, t)) = Len(s) - Len(t)
         /\ \A i \in 1 .. Len(s) - Len(t) : Before(s, t)[i] = s[i]
<1>1. Len(s) \in Nat /\ Len(t) \in Nat BY DEF Str
<1> QED BY <1>1 DEF Before, Str

LEMMA TailIs ==
  ASSUME NEW s \in Str, s # <<>>
  PROVE  /\ Tail(s) = End(s, Len(s) - 1) /\ Tail(s) \in Str
         /\ Len(Tail(s)) = Len(s) - 1 /\ Len(s) \in Nat \ {0}
         /\ \A c : c = s[1] => <<c>> \o Tail(s) = s
<1>1. Len(s) \in Nat /\ Len(s) # 0 BY DEF Str
<1>2. Tail(s) \in Str /\ Len(Tail(s)) = Len(s) - 1
      /\ \A i \in 1 .. Len(s) - 1 : Tail(s)[i] = s[i + 1] BY <1>1 DEF Str
<1>3. Len(s) - 1 \in 0 .. Len(s) BY <1>1
<1>4. /\ End(s, Len(s) - 1) \in Str /\ Len(End(s, Len(s) - 1)) = Len(s) - 1
      /\ \A i \in 1 .. Len(s) - 1 : End(s, Len(s) - 1)[i] = s[i + 1]
  BY <1>1, <1>3, EndIs
<1>5. <<s[1]>> \o Tail(s) = s
  <2>1. s[1] \in STRING BY <1>1 DEF Str
  <2>2. <<s[1]>> \in Str /\ Len(<<s[1]>>) = 1 /\ <<s[1]>>[1] = s[1] BY <2>1 DEF Str
  <2>3. <<s[1]>> \o Tail(s) \in Str /\ Len(<<s[1]>> \o Tail(s)) = Len(s)
    BY <1>1, <1>2, <2>2 DEF Str
  <2>4. \A i \in 1 .. Len(s) : (<<s[1]>> \o Tail(s))[i] = s[i]
    BY <1>1, <1>2, <2>2 DEF Str
  <2> QED BY <2>3, <2>4, SameSeq
<1> QED BY <1>1, <1>2, <1>4, <1>5, SameSeq

(***************************************************************************)
(* Largest and smallest of a set of numbers                                *)
(***************************************************************************)
LEMMA HasSmallest ==
  ASSUME NEW a \in Int, NEW b \in Int, NEW S \in SUBSET (a .. b), S # {}
  PROVE  Min(S) \in S /\ \A x \in S : Min(S) <= x
<1> DEFINE T == {x - a : x \in S}
<1>1. T \subseteq Nat /\ T # {}
  <2>1. \A x \in S : x - a \in Nat OBVIOUS
  <2>2. \E x : x \in S OBVIOUS
  <2> QED BY <2>1, <2>2
<1>2. PICK m \in T : \A y \in T : ~(<<y, m>> \in OpToRel(<, Nat))
  BY <1>1, NatLessThanWellFounded, WFMin, Zenon
<1>3. ASSUME NEW y \in T PROVE m <= y
  <2> HIDE DEF T
  <2>1. y \in Nat /\ m \in Nat BY <1>1, <1>2
  <2>2. ~(y < m) BY <1>2, <1>3, <2>1 DEF OpToRel
  <2> QED BY <2>1, <2>2
<1>4. PICK x \in S : m = x - a BY <1>2
<1>5. \A y \in S : x <= y
  <2>1. ASSUME NEW y \in S PROVE x <= y
    <3>1. y - a \in T OBVIOUS
    <3>2. m <= y - a BY <1>3, <3>1
    <3> QED BY <1>4, <3>2
  <2> QED BY <2>1
<1> QED BY <1>5 DEF Min

LEMMA HasLargest ==
  ASSUME NEW a \in Int, NEW b \in Int, NEW S \in SUBSET (a .. b), S # {}
  PROVE  Max(S) \in S /\ \A x \in S : Max(S) >= x
<1> DEFINE T == {a + b - x : x \in S}
<1>1. T \in SUBSET (a .. b) /\ T # {}
  <2>1. \A x \in S : a + b - x \in a .. b OBVIOUS
  <2>2. \E x : x \in S OBVIOUS
  <2> QED BY <2>1, <2>2
<1>2. PICK m : m = Min(T) OBVIOUS
<1>3. m \in T /\ \A y \in T : m <= y BY <1>1, <1>2, HasSmallest
<1>4. PICK x \in S : m = a + b - x BY <1>3
<1>5. \A y \in S : x >= y
  <2>1. ASSUME NEW y \in S PROVE x >= y
    <3>1. a + b - y \in T OBVIOUS
    <3>2. m <= a + b - y BY <1>3, <3>1
    <3> QED BY <1>4, <3>2
  <2> QED BY <2>1
<1> QED BY <1>5 DEF Max

LEMMA LargestIs ==
  ASSUME NEW S \in SUBSET Int, NEW x \in S, \A y \in S : y <= x
  PROVE  Max(S) = x
<1>1. \A y \in S : x >= y OBVIOUS
<1>2. Max(S) \in S /\ \A y \in S : Max(S) >= y BY <1>1 DEF Max
<1>3. Max(S) >= x /\ x >= Max(S) /\ Max(S) \in Int BY <1>1, <1>2
<1> QED BY <1>3

(***************************************************************************)
(* The trie of a set of rules                                              *)
(***************************************************************************)
Trie(R) ==
  [nodes |-> {e \in UNION {{End(r, n) : n \in 0 .. Len(r)} : r \in R} : TRUE},
   eot |-> {e \in UNION {{End(r, n) : n \in 0 .. Len(r)} : r \in R} :
              \E r \in R : \E n \in 0 .. Len(r) : e = End(r, n) /\ EndsLookup(r, n)}]

LEMMA TrieIs ==
  ASSUME NEW R, NEW e
  PROVE  /\ e \in Trie(R).nodes <=> \E r \in R : \E n \in 0 .. Len(r) : e = End(r, n)
         /\ e \in Trie(R).eot <=>
              \E r \in R : \E n \in 0 .. Len(r) : e = End(r, n) /\ EndsLookup(r, n)
  BY DEF Trie

LEMMA TrieGrows ==
  ASSUME NEW R, NEW r
  PROVE  AddNode(Trie(R), r) = Trie(R \cup {r})
<1> DEFINE ends == {End(r, n) : n \in 0 .. Len(r)}
           found == {End(r, n) : n \in {k \in 0 .. Len(r) : EndsLookup(r, k)}}
<1>0. AddNode(Trie(R), r).nodes = Trie(R).nodes \cup ends
      /\ AddNode(Trie(R), r).eot = Trie(R).eot \cup found BY DEF AddNode
<1>1. \A e : e \in AddNode(Trie(R), r).nodes <=> e \in Trie(R \cup {r}).nodes
  <2>1. ASSUME NEW e PROVE e \in Trie(R).nodes \cup ends <=> e \in Trie(R \cup {r}).nodes
    <3>1. e \in ends <=> \E n \in 0 .. Len(r) : e = End(r, n) OBVIOUS
    <3> HIDE DEF ends
    <3>2. e \in Trie(R).nodes <=> \E q \in R : \E n \in 0 .. Len(q) : e = End(q, n)
      BY TrieIs
    <3>3. e \in Trie(R \cup {r}).nodes <=>
            \E q \in R \cup {r} : \E n \in 0 .. Len(q) : e = End(q, n)
      BY TrieIs
    <3>4. (\E q \in R \cup {r} : \E n \in 0 .. Len(q) : e = End(q, n)) <=>
            \/ \E q \in R : \E n \in 0 .. Len(q) : e = End(q, n)
            \/ \E n \in 0 .. Len(r) : e = End(r, n)
      BY Zenon
    <3> QED BY <3>1, <3>2, <3>3, <3>4
  <2> QED BY <1>0, <2>1, Zenon
<1>2. \A e : e \in AddNode(Trie(R), r).eot <=> e \in Trie(R \cup {r}).eot
  <2>1. ASSUME NEW e PROVE e \in Trie(R).eot \cup found <=> e \in Trie(R \cup {r}).eot
    <3>1. e \in found <=> \E n \in 0 .. Len(r) : e = End(r, n) /\ EndsLookup(r, n) OBVIOUS
    <3> HIDE DEF found
    <3>2. e \in Trie(R).eot <=> \E q \in R : \E n \in 0 .. Len(q) : e = End(q, n) /\ EndsLookup(q, n)
      BY TrieIs
    <3>3. e \in Trie(R \cup {r}).eot <=>
            \E q \in R \cup {r} : \E n \in 0 .. Len(q) : e = End(q, n) /\ EndsLookup(q, n)
      BY TrieIs
    <3>4. (\E q \in R \cup {r} : \E n \in 0 .. Len(q) : e = End(q, n) /\ EndsLookup(q, n)) <=>
            \/ \E q \in R : \E n \in 0 .. Len(q) : e = End(q, n) /\ EndsLookup(q, n)
            \/ \E n \in 0 .. Len(r) : e = End(r, n) /\ EndsLookup(r, n)
      BY Zenon
    <3> QED BY <3>1, <3>2, <3>3, <3>4
  <2> QED BY <1>0, <2>1, Zenon
<1>3. AddNode(Trie(R), r) = [nodes |-> AddNode(Trie(R), r).nodes, eot |-> AddNode(Trie(R), r).eot]
  BY DEF AddNode
<1>4. Trie(R \cup {r}) = [nodes |-> Trie(R \cup {r}).nodes, eot |-> Trie(R \cup {r}).eot]
  BY DEF Trie
<1>5. AddNode(Trie(R), r).nodes = Trie(R \cup {r}).nodes BY <1>1, Zenon
<1>6. AddNode(Trie(R), r).eot = Trie(R \cup {r}).eot BY <1>2, Zenon
<1> QED BY <1>3, <1>4, <1>5, <1>6, Zenon

LEMMA EmptyTrie == NoTrie = Trie({})
  BY DEF NoTrie, Trie

(***************************************************************************)
(* The lookup in the trie of a list                                        *)
(***************************************************************************)
LEMMA LabelEndsIs ==
  ASSUME NEW s, NEW e
  PROVE  e \in LabelEnds(s) <=> e = s \/ \E k \in 1 .. Len(s) : s[k] = "." /\ e = End(s, Len(s) - k)
  BY DEF LabelEnds, LabelDots

Regulars(R) == {r \in R : Regular(r)}

LEMMA LookupIs ==
  ASSUME NEW trie, NEW s \in Str, NEW m \in 0 .. Len(s),
         End(s, m) \in trie.nodes, \A n \in 0 .. Len(s) : End(s, n) \in trie.nodes => n <= m
  PROVE  TldExists(trie, s) <=>
           IF m = Len(s) THEN s \in trie.eot
           ELSE <<"*">> \o End(s, m) \in trie.nodes
                /\ \A k \in 2 .. Len(s) - m - 1 : s[k] # "."
<1> DEFINE K == {n \in 0 .. Len(s) : End(s, n) \in trie.nodes}
<1>1. Len(s) \in Nat BY DEF Str
<1>2. Max(K) = m
  <2>1. K \in SUBSET Int /\ m \in K /\ \A y \in K : y <= m BY <1>1
  <2> HIDE DEF K
  <2> QED BY <2>1, LargestIs
<1>3. Exists(trie) BY DEF Exists
<1> DEFINE left == SubSeq(s, 1, Len(s) - m)
<1>4. left \in Seq(STRING) /\ Len(left) = Len(s) - m /\ \A k \in 1 .. Len(s) - m : left[k] = s[k]
  BY <1>1 DEF Str
<1>5. left = <<>> <=> m = Len(s)
  <2> HIDE DEF left
  <2>1. left = <<>> <=> Len(left) = 0 BY <1>4
  <2> QED BY <1>1, <1>4, <2>1
<1>6. WildcardCovers(left) <=> \A k \in 2 .. Len(s) - m - 1 : s[k] # "."
  <2>1. \A k \in 2 .. Len(s) - m - 1 : left[k] = s[k] BY <1>1, <1>4
  <2> HIDE DEF left
  <2> QED BY <1>4, <2>1 DEF WildcardCovers
<1>7. TldExists(trie, s) <=>
        IF left = <<>> THEN s \in trie.eot
        ELSE <<"*">> \o End(s, m) \in trie.nodes /\ WildcardCovers(left)
  BY <1>2, <1>3 DEF TldExists
<1> QED BY <1>5, <1>6, <1>7

(* How far a lookup gets *)
LEMMA Known ==
  ASSUME NEW G \in SUBSET Str, G # {}, NEW s \in Str
  PROVE  \E m \in 0 .. Len(s) :
           End(s, m) \in Trie(G).nodes /\ \A n \in 0 .. Len(s) : End(s, n) \in Trie(G).nodes => n <= m
<1> DEFINE K == {n \in 0 .. Len(s) : End(s, n) \in Trie(G).nodes}
<1>1. Len(s) \in Nat BY DEF Str
<1>2. 0 \in K
  <2>1. PICK r \in G : TRUE OBVIOUS
  <2>2. Len(r) \in Nat /\ 0 \in 0 .. Len(r) /\ 0 \in 0 .. Len(s) BY <1>1 DEF Str
  <2>3. End(r, 0) = End(s, 0)
    <3>1. End(r, 0) \in Str /\ Len(End(r, 0)) = 0 BY <2>2, EndIs
    <3>2. End(s, 0) \in Str /\ Len(End(s, 0)) = 0 BY <2>2, EndIs
    <3> QED BY <3>1, <3>2, SameSeq
  <2> QED BY <2>2, <2>3, TrieIs
<1>3. K \in SUBSET (0 .. Len(s)) /\ K # {} BY <1>2
<1> HIDE DEF K
<1>4. Max(K) \in K /\ \A n \in K : Max(K) >= n
  <2>1. 0 \in Int /\ Len(s) \in Int BY <1>1
  <2> QED BY <1>3, <2>1, HasLargest, Zenon
<1>5. PICK m : m = Max(K) OBVIOUS
<1> QED BY <1>4, <1>5 DEF K

LEMMA FoundIsListed ==
  ASSUME NEW R \in SUBSET (Str \ {<<>>}), WellFormed(R), NEW s \in Str, IsName(s),
         TldExists(Trie(Regulars(R)), s)
  PROVE  Listed(R, s)
<1> DEFINE G == Regulars(R)
<1>1. G \in SUBSET Str /\ \A r \in G : r \in R /\ Regular(r) /\ r # <<>> BY DEF Regulars
<1>2. G # {} BY TrieIs, Zenon DEF TldExists, Exists
<1> HIDE DEF G
<1>3. PICK m \in 0 .. Len(s) :
        End(s, m) \in Trie(G).nodes /\ \A n \in 0 .. Len(s) : End(s, n) \in Trie(G).nodes => n <= m
  BY <1>1, <1>2, Known
<1>4. IF m = Len(s) THEN s \in Trie(G).eot
      ELSE <<"*">> \o End(s, m) \in Trie(G).nodes /\ \A k \in 2 .. Len(s) - m - 1 : s[k] # "."
  BY <1>3, LookupIs DEF G
<1>5. Len(s) \in Nat /\ Len(s) # 0 BY DEF Str, IsName
<1>6. CASE m = Len(s)
  <2>1. PICK r \in G : \E n \in 0 .. Len(r) : s = End(r, n) /\ EndsLookup(r, n)
    BY <1>4, <1>6, TrieIs
  <2>2. PICK n \in 0 .. Len(r) : s = End(r, n) /\ EndsLookup(r, n) BY <2>1
  <2>3. r \in Str /\ r \in R /\ Regular(r) /\ Len(r) \in Nat BY <1>1, <2>1 DEF Str
  <2>4. s \in LabelEnds(r)
    <3>1. CASE n = Len(r) BY <2>2, <2>3, <3>1, WholeEnd, LabelEndsIs
    <3>2. CASE n # Len(r)
      <4>1. Len(r) - n \in 1 .. Len(r) /\ Len(r) - (Len(r) - n) = n /\ r[Len(r) - n] \in {".", "!"}
        BY <2>2, <2>3, <3>2 DEF EndsLookup
      <4>2. r[Len(r) - n] # "!" BY <2>3, <4>1 DEF WellFormed, Regular
      <4> QED BY <2>2, <4>1, <4>2, LabelEndsIs
    <3> QED BY <3>1, <3>2
  <2> QED BY <2>3, <2>4 DEF Listed
<1>7. CASE m # Len(s)
  <2> DEFINE w == End(s, m)
  <2>1. w \in Str /\ Len(w) = m /\ \A i \in 1 .. m : w[i] = s[Len(s) - m + i] BY EndIs
  <2>2. PICK r \in G : \E n \in 0 .. Len(r) : <<"*">> \o w = End(r, n)
    <3>1. PICK e : e = <<"*">> \o w OBVIOUS
    <3>2. e \in Trie(G).nodes BY <1>4, <1>7, <3>1
    <3>3. \E r \in G : \E n \in 0 .. Len(r) : e = End(r, n) BY <3>2, TrieIs
    <3> QED BY <3>1, <3>3, Zenon
  <2>3. PICK n \in 0 .. Len(r) : <<"*">> \o w = End(r, n) BY <2>2
  <2>4. r \in Str /\ r \in R /\ Len(r) \in Nat /\ r # <<>> BY <1>1, <2>2 DEF Str
  <2>5. End(r, n) \in Str /\ Len(End(r, n)) = n /\ \A i \in 1 .. n : End(r, n)[i] = r[Len(r) - n + i]
    BY <2>3, <2>4, EndIs
  <2> HIDE DEF w
  <2>6. n = m + 1 /\ End(r, n)[1] = "*" /\ \A i \in 1 .. m : End(r, n)[i + 1] = w[i]
    BY <2>1, <2>3, <2>5 DEF Str
  <2>7. n = Len(r) /\ r[1] = "*" /\ (Len(r) = 1 \/ r[2] = ".")
    <3>1. Len(r) - n + 1 \in 1 .. Len(r) /\ r[Len(r) - n + 1] = "*" BY <2>4, <2>5, <2>6
    <3>2. Len(r) - n + 1 = 1 BY <2>4, <3>1 DEF WellFormed
    <3> QED BY <2>4, <3>1, <3>2 DEF WellFormed
  <2>8. w = Tail(r)
    <3>1. Tail(r) \in Str /\ Len(Tail(r)) = m /\ \A i \in 1 .. m : Tail(r)[i] = r[i + 1]
      BY <2>4, <2>6, <2>7 DEF Str
    <3>2. \A i \in 1 .. m : w[i] = r[i + 1]
      <4>1. ASSUME NEW i \in 1 .. m PROVE i + 1 \in 1 .. n /\ Len(r) - n + (i + 1) = i + 1
        BY <2>4, <2>6, <2>7
      <4> QED BY <2>5, <2>6, <4>1
    <3> QED BY <2>1, <3>1, <3>2, SameSeq
  <2>9. w \in Wildcards(R) BY <2>4, <2>7, <2>8 DEF Wildcards
  <2>10. ASSUME NEW k \in 1 .. Len(s) - m PROVE s[k] # "."
    <3>1. CASE k = 1 BY <3>1 DEF IsName
    <3>2. CASE k \in 2 .. Len(s) - m - 1 BY <1>4, <1>7, <3>2
    <3>3. CASE k = Len(s) - m /\ m = 0 BY <3>3 DEF IsName
    <3>4. CASE k = Len(s) - m /\ m # 0
      <4>1. 1 \in 1 .. m /\ r[2] = "." BY <2>6, <2>7, <3>4
      <4>2. w[1] = "."
        <5>1. 2 \in 1 .. n /\ Len(r) - n + 2 = 2 BY <2>4, <2>6, <2>7, <4>1
        <5> QED BY <2>5, <2>6, <4>1, <5>1
      <4>3. s[k + 1] = "." /\ k \in 1 .. Len(s) - 1 BY <1>5, <2>1, <3>4, <4>1, <4>2
      <4> QED BY <4>3 DEF IsName
    <3> QED BY <1>5, <3>1, <3>2, <3>3, <3>4
  <2>11. LabelDots(Before(s, w)) = {}
    <3>1. Len(w) <= Len(s) BY <1>5, <2>1
    <3>2. Len(Before(s, w)) = Len(s) - m /\ \A i \in 1 .. Len(s) - m : Before(s, w)[i] = s[i]
      BY <2>1, <3>1, BeforeIs
    <3> QED BY <2>10, <3>2 DEF LabelDots
  <2>12. Len(s) > Len(w) /\ End(s, Len(w)) = w BY <1>5, <1>7, <2>1 DEF w
  <2> QED BY <2>9, <2>11, <2>12 DEF Listed, CoveredByWildcard
<1> QED BY <1>6, <1>7

LEMMA ListedIsFound ==
  ASSUME NEW R \in SUBSET (Str \ {<<>>}), Unshadowed(R), NEW s \in Str, IsName(s),
         Listed(R, s)
  PROVE  TldExists(Trie(Regulars(R)), s)
<1> DEFINE G == Regulars(R)
<1>1. G \in SUBSET Str /\ \A r \in G : r \in R /\ Regular(r) /\ r # <<>> BY DEF Regulars
<1>2. Len(s) \in Nat /\ Len(s) # 0 BY DEF Str, IsName
<1>3. CASE CoveredByWildcard(R, s)
  <2>1. PICK w \in Wildcards(R) :
          Len(s) > Len(w) /\ End(s, Len(w)) = w /\ LabelDots(Before(s, w)) = {}
    BY <1>3 DEF CoveredByWildcard
  <2>2. PICK r \in R : r[1] = "*" /\ w = Tail(r) BY <2>1 DEF Wildcards
  <2>3. r \in G BY <2>2 DEF Regulars, Regular
  <2> HIDE DEF G
  <2>4. /\ w \in Str /\ w = End(r, Len(r) - 1) /\ Len(w) = Len(r) - 1 /\ Len(r) \in Nat \ {0}
        /\ <<"*">> \o w = r
    BY <2>2, TailIs
  <2> DEFINE m == Len(w)
  <2>5. m \in 0 .. Len(s) /\ m \in 0 .. Len(r) /\ m # Len(s) BY <1>2, <2>1, <2>4
  <2>6. End(s, m) \in Trie(G).nodes BY <2>1, <2>3, <2>4, <2>5, TrieIs
  <2>7. ASSUME NEW n \in 0 .. Len(s), End(s, n) \in Trie(G).nodes PROVE n <= m
    <3>1. SUFFICES ASSUME n > m PROVE FALSE BY <1>2, <2>5
    <3>2. PICK q \in G : \E j \in 0 .. Len(q) : End(s, n) = End(q, j) BY <2>7, TrieIs
    <3>3. PICK j \in 0 .. Len(q) : End(s, n) = End(q, j) BY <3>2
    <3>4. q \in Str /\ q \in R /\ Regular(q) /\ Len(q) \in Nat BY <1>1, <3>2 DEF Str
    <3>5. Len(End(s, n)) = n /\ Len(End(q, j)) = j BY <3>3, <3>4, EndIs
    <3>6. j = n /\ m \in 0 .. n /\ Len(q) > m BY <2>5, <3>1, <3>3, <3>4, <3>5
    <3>7. End(q, m) = End(End(q, n), m) /\ End(s, m) = End(End(s, n), m)
      BY <3>3, <3>4, <3>6, EndOfEnd
    <3>8. End(q, m) = w BY <2>1, <3>3, <3>6, <3>7
    <3>9. q = r BY <2>1, <2>4, <3>4, <3>6, <3>8 DEF Unshadowed
    <3>10. End(s, n) = r
      <4>1. j = Len(q) BY <2>4, <3>1, <3>6, <3>9
      <4> QED BY <3>3, <3>4, <3>9, <4>1, WholeEnd
    <3>11. 1 \in 1 .. n /\ Len(s) - n + 1 \in 1 .. Len(s) BY <1>2, <2>5, <3>1
    <3>12. s[Len(s) - n + 1] = "*" BY <2>2, <3>10, <3>11, EndIs
    <3> QED BY <3>11, <3>12 DEF IsName
  <2>8. <<"*">> \o End(s, m) \in Trie(G).nodes
    <3>1. <<"*">> \o End(s, m) = End(r, Len(r)) BY <2>1, <2>2, <2>4, WholeEnd
    <3>2. Len(r) \in 0 .. Len(r) BY <2>4
    <3> QED BY <2>3, <3>1, <3>2, TrieIs
  <2>9. \A k \in 2 .. Len(s) - m - 1 : s[k] # "."
    <3>1. Len(Before(s, w)) = Len(s) - m /\ \A i \in 1 .. Len(s) - m : Before(s, w)[i] = s[i]
      BY <1>2, <2>1, <2>4, <2>5, BeforeIs
    <3>2. \A k \in 1 .. Len(s) - m : s[k] # "." BY <2>1, <3>1 DEF LabelDots
    <3> QED BY <1>2, <2>5, <3>2
  <2> HIDE DEF m
  <2> QED BY <2>5, <2>6, <2>7, <2>8, <2>9, LookupIs DEF G
<1>4. CASE \E r \in R : Regular(r) /\ s \in LabelEnds(r)
  <2>1. PICK r \in R : Regular(r) /\ s \in LabelEnds(r) BY <1>4
  <2>2. r \in G /\ r \in Str /\ Len(r) \in Nat BY <2>1 DEF Regulars, Str
  <2> HIDE DEF G
  <2>3. \E n \in 0 .. Len(r) : s = End(r, n) /\ EndsLookup(r, n)
    <3>1. CASE s = r
      <4>1. Len(r) \in 0 .. Len(r) /\ Len(r) > 0 BY <1>2, <2>2, <3>1
      <4> QED BY <2>2, <3>1, <4>1, WholeEnd DEF EndsLookup
    <3>2. CASE \E k \in 1 .. Len(r) : r[k] = "." /\ s = End(r, Len(r) - k)
      <4>1. PICK k \in 1 .. Len(r) : r[k] = "." /\ s = End(r, Len(r) - k) BY <3>2
      <4>2. Len(r) - k \in 0 .. Len(r) /\ Len(r) - (Len(r) - k) = k BY <2>2
      <4>3. Len(r) - k > 0 BY <1>2, <2>2, <4>1, <4>2, EndIs
      <4> QED BY <4>1, <4>2, <4>3 DEF EndsLookup
    <3> QED BY <2>1, <3>1, <3>2, LabelEndsIs
  <2>4. s \in Trie(G).eot /\ s \in Trie(G).nodes BY <2>2, <2>3, TrieIs
  <2>5. Len(s) \in 0 .. Len(s) /\ \A n \in 0 .. Len(s) : n <= Len(s) BY <1>2
  <2>6. End(s, Len(s)) = s BY WholeEnd
  <2> QED BY <2>4, <2>5, <2>6, LookupIs DEF G
<1> QED BY <1>3, <1>4 DEF Listed

(***************************************************************************)
(* The list is loaded into the tries, whole and in whatever order.         *)
(***************************************************************************)
Marked(R) == R \ Regulars(R)
Members(s) == {s[i] : i \in 1 .. Len(s)}

(* The rules among the first n lines *)
RulesUpTo(n) ==
  {s \in {Text(file[k]) : k \in {j \in AfterMarker(file) : j <= n}} : IsRule(s)}

LoadOK ==
  /\ file \in Seq(Str)
  /\ phase \in {"read", "add", "ready", "walk", "decide", "done"}
  /\ phase = "read" =>
       /\ lines_read \in 0 .. Len(file)
       /\ begin_icann_domains <=> \E j \in 1 .. lines_read : Text(file[j]) = MarkerLine
       /\ tlds \in Seq(Str) /\ Members(tlds) = RulesUpTo(lines_read)
       /\ kid = NoTrie /\ sibling = NoTrie
  /\ phase = "add" =>
       /\ tlds \in Seq(Str)
       /\ \E R : R \cup Members(tlds) = rules /\ kid = Trie(Regulars(R)) /\ sibling = Trie(Marked(R))
  /\ phase \notin {"read", "add"} => kid = Trie(Regulars(rules)) /\ sibling = Trie(Marked(rules))

LEMMA TextIs ==
  ASSUME NEW s \in Str
  PROVE  Text(s) \in Str /\ Front(s) = Text(s)
<1>1. Front(s) = SubSeq(s, 1, Len(s) - 1) BY DEF Front
<1>2. Text(s) = SubSeq(s, 1, Len(s) - 1)
  <2>1. Len(<<Newline>>) = 1 OBVIOUS
  <2> QED BY <2>1 DEF Text, Before
<1>3. Len(s) \in Nat BY DEF Str
<1>4. \A i \in 1 .. Len(s) - 1 : s[i] \in STRING BY <1>3 DEF Str
<1>5. SubSeq(s, 1, Len(s) - 1) \in Seq(STRING) BY <1>3, <1>4 DEF Str
<1> QED BY <1>1, <1>2, <1>5 DEF Str

LEMMA RulesAre ==
  ASSUME file \in Seq(Str)
  PROVE  rules \in SUBSET (Str \ {<<>>}) /\ RulesUpTo(Len(file)) = rules /\ RulesUpTo(0) = {}
<1>1. Len(file) \in Nat /\ DOMAIN file = 1 .. Len(file) OBVIOUS
<1>2. \A k \in AfterMarker(file) : k \in 1 .. Len(file) BY <1>1 DEF AfterMarker
<1>3. \A k \in AfterMarker(file) : Text(file[k]) \in Str
  <2>1. \A k \in 1 .. Len(file) : file[k] \in Str BY <1>1
  <2> QED BY <1>2, <2>1, TextIs
<1>4. {j \in AfterMarker(file) : j <= Len(file)} = AfterMarker(file) BY <1>1, <1>2
<1>5. {j \in AfterMarker(file) : j <= 0} = {} BY <1>1, <1>2
<1> QED BY <1>3, <1>4, <1>5 DEF rules, RulesOf, RulesUpTo, IsRule

LEMMA MembersAppend ==
  ASSUME NEW s \in Seq(Str), NEW x \in Str
  PROVE  Append(s, x) \in Seq(Str) /\ Members(Append(s, x)) = Members(s) \cup {x}
<1>1. Len(s) \in Nat OBVIOUS
<1>2. Append(s, x) \in Seq(Str) /\ Len(Append(s, x)) = Len(s) + 1 OBVIOUS
<1>3. \A i \in 1 .. Len(s) + 1 : Append(s, x)[i] = IF i = Len(s) + 1 THEN x ELSE s[i] BY <1>1
<1>4. ASSUME NEW y PROVE y \in Members(Append(s, x)) <=> y \in Members(s) \cup {x}
  <2>1. y \in Members(Append(s, x)) <=> \E i \in 1 .. Len(s) + 1 : y = Append(s, x)[i]
    BY <1>2 DEF Members
  <2>2. y \in Members(s) <=> \E i \in 1 .. Len(s) : y = s[i] BY DEF Members
  <2>3. Len(s) + 1 \in 1 .. Len(s) + 1 /\ \A i \in 1 .. Len(s) : i \in 1 .. Len(s) + 1 /\ i # Len(s) + 1
    BY <1>1
  <2>4. \A i \in 1 .. Len(s) + 1 : i = Len(s) + 1 \/ i \in 1 .. Len(s) BY <1>1
  <2> QED BY <1>3, <2>1, <2>2, <2>3, <2>4
<1> QED BY <1>2, <1>4

LEMMA MembersSplit ==
  ASSUME NEW s \in Seq(Str), s # <<>>
  PROVE  Head(s) \in Str /\ Tail(s) \in Seq(Str) /\ Members(s) = {Head(s)} \cup Members(Tail(s))
<1>1. Len(s) \in Nat \ {0} /\ Head(s) = s[1] /\ s[1] \in Str OBVIOUS
<1>2. Tail(s) \in Seq(Str) /\ Len(Tail(s)) = Len(s) - 1 /\ \A i \in 1 .. Len(s) - 1 : Tail(s)[i] = s[i + 1]
  BY <1>1
<1>3. ASSUME NEW y PROVE y \in Members(s) <=> y \in {Head(s)} \cup Members(Tail(s))
  <2>1. y \in Members(s) <=> \E i \in 1 .. Len(s) : y = s[i] BY DEF Members
  <2>2. y \in Members(Tail(s)) <=> \E i \in 1 .. Len(s) - 1 : y = s[i + 1] BY <1>2 DEF Members
  <2>3. \A i \in 1 .. Len(s) - 1 : i + 1 \in 1 .. Len(s) BY <1>1
  <2>4. \A i \in 1 .. Len(s) : i = 1 \/ (i - 1 \in 1 .. Len(s) - 1 /\ (i - 1) + 1 = i) BY <1>1
  <2>5. 1 \in 1 .. Len(s) BY <1>1
  <2> QED BY <1>1, <2>1, <2>2, <2>3, <2>4, <2>5
<1> QED BY <1>1, <1>2, <1>3

LEMMA LoadInit == TldInit => LoadOK
<1> SUFFICES ASSUME TldInit PROVE LoadOK OBVIOUS
<1>1. file \in Seq(Str) BY FilesAssumption DEF TldInit, Str
<1>2. Members(tlds) = {} BY DEF TldInit, Members
<1>3. RulesUpTo(0) = {} BY <1>1, RulesAre
<1>4. tlds \in Seq(Str) /\ Len(file) \in Nat BY <1>1 DEF TldInit
<1>5. phase = "read" /\ lines_read = 0 /\ begin_icann_domains = FALSE /\ kid = NoTrie /\ sibling = NoTrie
  BY DEF TldInit
<1>6. begin_icann_domains <=> \E j \in 1 .. lines_read : Text(file[j]) = MarkerLine BY <1>5
<1> QED BY <1>1, <1>2, <1>3, <1>4, <1>5, <1>6 DEF LoadOK

LEMMA ReadLineKeeps ==
  ASSUME LoadOK, ReadLine
  PROVE  LoadOK'
<1> DEFINE n == lines_read
           line == Front(file[lines_read + 1])
<1>1. /\ phase = "read" /\ phase' = "read" /\ file' = file /\ file \in Seq(Str)
      /\ n \in 0 .. Len(file) /\ n < Len(file) /\ lines_read' = n + 1
      /\ kid' = NoTrie /\ sibling' = NoTrie
  BY DEF LoadOK, ReadLine
<1>2. Len(file) \in Nat /\ n + 1 \in 1 .. Len(file) /\ n + 1 \in 0 .. Len(file) BY <1>1
<1>3. file[n + 1] \in Str BY <1>1, <1>2
<1>4. line = Text(file[n + 1]) /\ line \in Str BY <1>3, TextIs
<1>5. begin_icann_domains' <=> \E j \in 1 .. n + 1 : Text(file[j]) = MarkerLine
  <2>1. begin_icann_domains <=> \E j \in 1 .. n : Text(file[j]) = MarkerLine BY <1>1 DEF LoadOK
  <2>2. begin_icann_domains' = (begin_icann_domains \/ line = MarkerLine) BY DEF ReadLine
  <2>3. \A j : j \in 1 .. n + 1 <=> j \in 1 .. n \/ j = n + 1 BY <1>1, <1>2
  <2> QED BY <1>4, <2>1, <2>2, <2>3
<1>6. n + 1 \in AfterMarker(file) <=> begin_icann_domains
  <2>1. begin_icann_domains <=> \E j \in 1 .. n : Text(file[j]) = MarkerLine BY <1>1 DEF LoadOK
  <2>2. (n + 1) - 1 = n /\ DOMAIN file = 1 .. Len(file) BY <1>1
  <2> QED BY <1>2, <2>1, <2>2 DEF AfterMarker
<1>7. tlds' = IF IsRule(line) /\ begin_icann_domains THEN Append(tlds, line) ELSE tlds
  BY DEF ReadLine, IsRule
<1>8. tlds \in Seq(Str) /\ Members(tlds) = RulesUpTo(n) BY <1>1 DEF LoadOK
<1>9. RulesUpTo(n + 1) = IF IsRule(line) /\ begin_icann_domains THEN RulesUpTo(n) \cup {line}
                         ELSE RulesUpTo(n)
  <2> DEFINE F == AfterMarker(file)
  <2>1. \A k \in F : k \in 1 .. Len(file) BY <1>1 DEF AfterMarker
  <2>2. \A k \in F : k <= n + 1 <=> (k <= n \/ k = n + 1) BY <1>1, <1>2, <2>1
  <2>3. ASSUME NEW s PROVE s \in RulesUpTo(n + 1) <=>
                             s \in RulesUpTo(n) \/ (n + 1 \in F /\ IsRule(line) /\ s = line)
    <3>1. s \in RulesUpTo(n + 1) <=> \E k \in F : k <= n + 1 /\ s = Text(file[k]) /\ IsRule(s)
      BY DEF RulesUpTo
    <3>2. s \in RulesUpTo(n) <=> \E k \in F : k <= n /\ s = Text(file[k]) /\ IsRule(s)
      BY DEF RulesUpTo
    <3> HIDE DEF F, line
    <3> QED BY <1>4, <2>2, <3>1, <3>2
  <2> HIDE DEF line
  <2> QED BY <1>6, <2>3
<1>10. tlds' \in Seq(Str) /\ Members(tlds') = RulesUpTo(n + 1)
  BY <1>4, <1>7, <1>8, <1>9, MembersAppend
<1>12. RulesUpTo(lines_read)' = RulesUpTo(n + 1) BY <1>1 DEF RulesUpTo
<1> HIDE DEF n, line
<1>13. Members(tlds)' = RulesUpTo(lines_read)' BY <1>10, <1>12 DEF Members
<1> QED BY <1>1, <1>2, <1>5, <1>10, <1>13 DEF LoadOK

LEMMA TldIsAdded ==
  ASSUME LoadOK, AddTld
  PROVE  LoadOK'
<1> DEFINE r == Head(tlds)
<1>1. /\ phase = "add" /\ phase' = "add" /\ file' = file /\ file \in Seq(Str)
      /\ tlds \in Seq(Str) /\ tlds # <<>> /\ tlds' = Tail(tlds)
  BY DEF LoadOK, AddTld
<1>2. PICK R : R \cup Members(tlds) = rules /\ kid = Trie(Regulars(R)) /\ sibling = Trie(Marked(R))
  BY <1>1 DEF LoadOK
<1>3. r \in Str /\ tlds' \in Seq(Str) /\ Members(tlds) = {r} \cup Members(tlds')
  BY <1>1, MembersSplit
<1>4. (R \cup {r}) \cup Members(tlds') = rules BY <1>2, <1>3
<1>5. kid' = Trie(Regulars(R \cup {r})) /\ sibling' = Trie(Marked(R \cup {r}))
  <2>1. CASE r[1] = "!"
    <3>1. sibling' = AddNode(sibling, r) /\ kid' = kid BY <2>1 DEF AddTld
    <3>2. Regulars(R \cup {r}) = Regulars(R) /\ Marked(R \cup {r}) = Marked(R) \cup {r}
      BY <2>1 DEF Regulars, Marked, Regular
    <3> QED BY <1>2, <3>1, <3>2, TrieGrows, Zenon
  <2>2. CASE r[1] # "!"
    <3>1. kid' = AddNode(kid, r) /\ sibling' = sibling BY <2>2 DEF AddTld
    <3>2. Regulars(R \cup {r}) = Regulars(R) \cup {r} /\ Marked(R \cup {r}) = Marked(R)
      BY <2>2 DEF Regulars, Marked, Regular
    <3> QED BY <1>2, <3>1, <3>2, TrieGrows, Zenon
  <2> QED BY <2>1, <2>2
<1>6. rules' = rules BY <1>1 DEF rules
<1>7. \E Q : Q \cup Members(tlds') = rules' /\ kid' = Trie(Regulars(Q)) /\ sibling' = Trie(Marked(Q))
  BY <1>4, <1>5, <1>6, Zenon
<1>8. (\E Q : Q \cup Members(tlds) = rules /\ kid = Trie(Regulars(Q)) /\ sibling = Trie(Marked(Q)))'
  BY <1>7 DEF Members, Trie
<1> QED BY <1>1, <1>3, <1>8 DEF LoadOK

LEMMA LoadStep == LoadOK /\ [TldNext]_tldVars => LoadOK'
<1> SUFFICES ASSUME LoadOK, [TldNext]_tldVars PROVE LoadOK' OBVIOUS
<1>1. CASE ReadLine BY <1>1, ReadLineKeeps
<1>2. CASE ListRead
  <2>1. /\ phase = "read" /\ lines_read = Len(file) /\ phase' = "add" /\ file' = file
        /\ tlds' = tlds /\ kid' = kid /\ sibling' = sibling
    BY <1>2 DEF ListRead, treeVars
  <2>2. rules' = rules BY <2>1 DEF rules
  <2>3. {} \cup Members(tlds) = rules BY <2>1, RulesAre DEF LoadOK
  <2>4. kid = Trie(Regulars({})) /\ sibling = Trie(Marked({}))
    <3>1. Regulars({}) = {} /\ Marked({}) = {} BY DEF Regulars, Marked
    <3> QED BY <2>1, <3>1, EmptyTrie DEF LoadOK
  <2>5. tlds' = tlds /\ tlds \in Seq(Str) /\ file \in Seq(Str) BY <2>1 DEF LoadOK
  <2>6. \E Q : Q \cup Members(tlds) = rules /\ kid = Trie(Regulars(Q)) /\ sibling = Trie(Marked(Q))
    BY <2>3, <2>4, Zenon
  <2>7. (\E Q : Q \cup Members(tlds) = rules /\ kid = Trie(Regulars(Q)) /\ sibling = Trie(Marked(Q)))'
    BY <2>1, <2>2, <2>6 DEF Members, Trie
  <2> QED BY <2>1, <2>5, <2>7 DEF LoadOK
<1>3. CASE AddTld BY <1>3, TldIsAdded
<1>4. CASE TreeReady
  <2>1. /\ phase = "add" /\ tlds = <<>> /\ phase' = "ready" /\ file' = file
        /\ kid' = kid /\ sibling' = sibling
    BY <1>4 DEF TreeReady, treeVars
  <2>2. rules' = rules BY <2>1 DEF rules
  <2>3. Members(tlds) = {} BY <2>1 DEF Members
  <2>4. kid = Trie(Regulars(rules)) /\ sibling = Trie(Marked(rules)) BY <2>1, <2>3 DEF LoadOK
  <2>5. kid' = Trie(Regulars(rules))' /\ sibling' = Trie(Marked(rules))'
    BY <2>1, <2>2, <2>4 DEF Trie, Regulars, Marked
  <2> QED BY <2>1, <2>5 DEF LoadOK
<1>5. CASE \/ \E b \in Befores, h \in Hosts, a \in Afters : Extract(b, h, a)
           \/ Match \/ Return \/ UNCHANGED tldVars
  <2>1. UNCHANGED treeVars
    BY <1>5 DEF Extract, Match, TryLabel, HostWalked, BufferWalked, Decide, Return, tldVars
  <2>2. file' = file /\ lines_read' = lines_read /\ begin_icann_domains' = begin_icann_domains
        /\ tlds' = tlds /\ kid' = kid /\ sibling' = sibling
    BY <2>1 DEF treeVars
  <2>3. \/ phase' = phase
        \/ phase \notin {"read", "add"} /\ phase' \in {"ready", "walk", "decide", "done"}
    BY <1>5 DEF Extract, Match, TryLabel, HostWalked, BufferWalked, Decide, Return, tldVars
  <2>4. rules' = rules /\ Members(tlds)' = Members(tlds) BY <2>2 DEF rules, Members
  <2>5. Trie(Regulars(rules))' = Trie(Regulars(rules)) /\ Trie(Marked(rules))' = Trie(Marked(rules))
    BY <2>4 DEF Trie, Regulars, Marked
  <2>6. RulesUpTo(lines_read)' = RulesUpTo(lines_read) BY <2>2 DEF RulesUpTo
  <2>7. file \in Seq(Str) /\ phase' \in {"read", "add", "ready", "walk", "decide", "done"}
    BY <2>3 DEF LoadOK
  <2>8. CASE phase' \notin {"read", "add"}
    <3>1. phase \notin {"read", "add"} BY <2>3, <2>8
    <3> QED BY <2>2, <2>5, <2>7, <2>8, <3>1 DEF LoadOK
  <2>9. CASE phase' = "read"
    <3>1. phase = "read" BY <2>3, <2>9
    <3> QED BY <2>2, <2>4, <2>6, <2>7, <2>9, <3>1 DEF LoadOK
  <2>10. CASE phase' = "add"
    <3>1. phase = "add" BY <2>3, <2>10
    <3>2. \E Q : Q \cup Members(tlds) = rules /\ kid = Trie(Regulars(Q)) /\ sibling = Trie(Marked(Q))
      BY <3>1 DEF LoadOK
    <3>3. (\E Q : Q \cup Members(tlds) = rules /\ kid = Trie(Regulars(Q)) /\ sibling = Trie(Marked(Q)))'
      BY <2>2, <2>4, <3>2 DEF Trie
    <3>4. tlds \in Seq(Str) BY <3>1 DEF LoadOK
    <3> QED BY <2>2, <2>7, <2>10, <3>3, <3>4 DEF LoadOK
  <2> QED BY <2>7, <2>8, <2>9, <2>10
<1> QED BY <1>1, <1>2, <1>3, <1>4, <1>5 DEF TldNext, Load

(* The tree, once it is ready, is that of the whole list. *)
THEOREM TreeInvariant == TldSpec => []LoadOK
<1> QED BY LoadInit, LoadStep, PTL DEF TldSpec

(* LookupMatchesList, for every list and whatever the tree is asked for:   *)
(* a trie of the list finds what the list holds, and nothing else.         *)
THEOREM TreeMatchesList == TldSpec => []LookupMatchesList
<1>1. LoadOK => LookupMatchesList
  <2> SUFFICES ASSUME LoadOK, phase = "ready", WellFormed(rules), Unshadowed(rules),
                      NEW s \in Asked, IsName(s)
               PROVE  TldExists(kid, s) <=> Listed(rules, s)
    BY DEF LookupMatchesList
  <2>1. s \in Str BY AskedAssumption DEF Str
  <2>2. rules \in SUBSET (Str \ {<<>>}) /\ kid = Trie(Regulars(rules)) BY RulesAre DEF LoadOK
  <2>3. PICK R : R = rules OBVIOUS
  <2> QED BY <2>1, <2>2, <2>3, FoundIsListed, ListedIsFound
<1> QED BY <1>1, TreeInvariant, PTL

(***************************************************************************)
(* The walk over a host.  A host of its own is not read: the walk leaves   *)
(* it when it begins with a dot, or but for its last character is a TLD.   *)
(***************************************************************************)
Dots == LabelDots(host)
Tld(d) == End(host, Len(host) - d)

HostOK ==
  /\ host \in Str /\ before \in Str /\ after \in Str
  /\ Dots # {} /\ host[Len(host)] # "."

(* The tree has all the ends of the host from the dot k on, and k is where *)
(* the last one starts; it is beyond the host when there is none.          *)
Reached(k) ==
  /\ \/ k = Len(host) + 1 /\ last = Null /\ tld_len = 0
     \/ k \in Dots /\ last = k /\ tld_len = Len(host) - k
  /\ \A d \in Dots : d >= k => TldExists(kid, Tld(d))

IsPrevious(d, k) == d \in Dots /\ d < k /\ \A e \in Dots : e < k => e <= d

Stopped(k) ==
  Reached(k) /\ \A d \in Dots : IsPrevious(d, k) => ~TldExists(kid, Tld(d))

Plain == host[1] # "." /\ ~TruncatedFound

WalkOK ==
  /\ phase \in {"walk", "decide", "done"} => HostOK
  /\ phase \in {"read", "add", "ready"} => last = Null /\ tld_len = 0
  /\ phase # "done" => tld_extracted = NotFound
  /\ phase = "walk" /\ Plain => \E k \in Int : Reached(k) /\ p = k - 2
  /\ phase = "decide" /\ Plain => \E k \in Int : Stopped(k)
  /\ phase = "done" /\ Plain =>
       \E k \in Int : Stopped(k) /\ tld_extracted = IF last = Null THEN NotFound ELSE Extracted

LEMMA DotsAre ==
  ASSUME HostOK
  PROVE  /\ Len(host) \in Nat \ {0} /\ Dots \in SUBSET (1 .. Len(host) - 1)
         /\ \A d \in 1 .. Len(host) : d \in Dots <=> host[d] = "."
<1>1. Len(host) \in Nat BY DEF HostOK, Str
<1>2. \A d \in Dots : d \in 1 .. Len(host) /\ host[d] = "." BY DEF Dots, LabelDots
<1>3. \A d \in Dots : d # Len(host) BY <1>2 DEF HostOK
<1> QED BY <1>1, <1>2, <1>3 DEF HostOK, Dots, LabelDots

LEMMA BufferIs ==
  ASSUME HostOK, NEW j \in 0 .. Len(host)
  PROVE  /\ j < Len(host) => Char(j) = host[j + 1]
         /\ \A n \in 0 .. Len(host) - j : Slice(j, n) = SubSeq(host, j + 1, j + n)
<1>1. Len(host) \in Nat /\ Len(before) \in Nat BY DEF HostOK, Str
<1>2. /\ Buffer \in Seq(STRING) /\ Len(Buffer) >= Len(before) + Len(host)
      /\ \A i \in 1 .. Len(host) : Buffer[Len(before) + i] = host[i]
  BY DEF HostOK, Str, Buffer
<1>3. j < Len(host) => Char(j) = host[j + 1]
  <2>1. j < Len(host) => j + 1 \in 1 .. Len(host) /\ Len(before) + j + 1 = Len(before) + (j + 1)
    BY <1>1
  <2> QED BY <1>2, <2>1 DEF Char
<1>4. ASSUME NEW n \in 0 .. Len(host) - j PROVE Slice(j, n) = SubSeq(host, j + 1, j + n)
  <2> DEFINE a == Slice(j, n)
             b == SubSeq(host, j + 1, j + n)
  <2>1. a \in Str /\ Len(a) = n /\ \A i \in 1 .. n : a[i] = Buffer[Len(before) + (j + i)]
    BY <1>1, <1>2 DEF Slice, Str
  <2>2. b \in Str /\ Len(b) = n /\ \A i \in 1 .. n : b[i] = host[j + i]
    BY <1>1 DEF HostOK, Str
  <2>3. \A i \in 1 .. n : j + i \in 1 .. Len(host) BY <1>1
  <2> HIDE DEF a, b
  <2>4. a = b BY <1>2, <2>1, <2>2, <2>3, SameSeq
  <2> QED BY <2>4 DEF a, b
<1> QED BY <1>3, <1>4

(* What a step of the walk looks up: the end of the host after the dot     *)
(* before the last one, or the host without its last character.            *)
LEMMA LabelIs ==
  ASSUME HostOK, host[1] # ".", p \in 1 .. Len(host) - 1
  PROVE  \/ \E d \in Dots : /\ IsPrevious(d, p + 2) /\ LabelStart = d - 1
                            /\ TriedFrom = d /\ TriedLen = Len(host) - d
                            /\ Slice(TriedFrom, TriedLen) = Tld(d)
         \/ /\ \A d \in Dots : ~(d < p + 2)
            /\ Slice(TriedFrom, TriedLen) = Front(host)
<1>1. Len(host) \in Nat \ {0} /\ Dots \in SUBSET (1 .. Len(host) - 1) BY DotsAre
<1>2. Len(before) \in Nat /\ -Len(before) \in Int /\ p \in Int BY <1>1 DEF HostOK, Str
<1> DEFINE S == {k \in -Len(before) .. p : StopsAt(k)}
<1>3. 0 \in S BY <1>2 DEF StopsAt
<1>4. S \in SUBSET (-Len(before) .. p) /\ S # {} BY <1>3
<1> HIDE DEF S
<1>5. LabelStart \in S /\ \A k \in S : LabelStart >= k
  BY <1>2, <1>4, HasLargest, Zenon DEF LabelStart, S
<1>6. PICK K : K = LabelStart OBVIOUS
<1>7. K \in 0 .. p /\ StopsAt(K) /\ \A k \in S : K >= k BY <1>2, <1>3, <1>5, <1>6 DEF S
<1>8. \A e \in Dots : e < p + 2 => e - 1 <= K
  <2>1. ASSUME NEW e \in Dots, e < p + 2 PROVE e - 1 <= K
    <3>1. e \in 1 .. Len(host) - 1 /\ host[e] = "." BY <1>1, DotsAre
    <3>2. e - 1 \in 0 .. Len(host) /\ e - 1 < Len(host) /\ (e - 1) + 1 = e BY <1>1, <3>1
    <3>3. Char(e - 1) = "." BY <3>1, <3>2, BufferIs
    <3>4. e - 1 \in S BY <1>2, <2>1, <3>2, <3>3 DEF S, StopsAt
    <3> QED BY <1>7, <3>4
  <2> QED BY <2>1
<1>9. Char(K) = host[K + 1]
  <2>1. K \in 0 .. Len(host) /\ K < Len(host) BY <1>1, <1>7
  <2> QED BY <2>1, BufferIs
<1>10. CASE K > 0
  <2>1. Char(K) = "." BY <1>2, <1>7, <1>10 DEF StopsAt
  <2>2. K + 1 \in Dots /\ K + 1 < p + 2
    <3>1. K + 1 \in 1 .. Len(host) BY <1>1, <1>7
    <3>2. K + 1 \in Dots BY <1>9, <2>1, <3>1, DotsAre
    <3>3. K + 1 < p + 2 BY <1>2, <1>7
    <3> QED BY <3>2, <3>3
  <2>3. IsPrevious(K + 1, p + 2) BY <1>1, <1>7, <1>8, <2>2 DEF IsPrevious
  <2>4. TriedFrom = K + 1 /\ TriedLen = Len(host) - (K + 1)
    BY <1>1, <1>6, <1>7, <2>1 DEF TriedFrom, TriedLen
  <2>5. Slice(K + 1, Len(host) - (K + 1)) = Tld(K + 1)
    <3>1. K + 1 \in 0 .. Len(host) /\ Len(host) - (K + 1) \in 0 .. Len(host) - (K + 1)
          /\ (K + 1) + (Len(host) - (K + 1)) = Len(host)
          /\ Len(host) - (Len(host) - (K + 1)) + 1 = (K + 1) + 1
      BY <1>1, <1>7, <2>2
    <3>2. Slice(K + 1, Len(host) - (K + 1)) = SubSeq(host, (K + 1) + 1, Len(host))
      BY <3>1, BufferIs
    <3> QED BY <3>1, <3>2 DEF Tld, End
  <2>6. K = (K + 1) - 1 BY <1>7
  <2> QED BY <1>6, <2>2, <2>3, <2>4, <2>5, <2>6
<1>11. CASE K = 0
  <2>1. Char(0) # "." BY <1>9, <1>11
  <2>2. TriedFrom = 0 /\ TriedLen = Len(host) - 1
    BY <1>1, <1>6, <1>11, <2>1 DEF TriedFrom, TriedLen
  <2>3. Slice(0, Len(host) - 1) = SubSeq(host, 1, Len(host) - 1)
    <3>1. 0 \in 0 .. Len(host) /\ Len(host) - 1 \in 0 .. Len(host) - 0 BY <1>1
    <3>2. 0 + 1 = 1 /\ 0 + (Len(host) - 1) = Len(host) - 1 BY <1>1
    <3> QED BY <3>1, <3>2, BufferIs
  <2>4. \A d \in Dots : ~(d < p + 2)
    <3>1. ASSUME NEW d \in Dots, d < p + 2 PROVE FALSE
      <4>1. d \in 1 .. Len(host) /\ host[d] = "." BY <1>1, DotsAre
      <4>2. d - 1 <= 0 BY <1>8, <1>11, <3>1
      <4>3. d = 1 BY <4>1, <4>2
      <4> QED BY <4>1, <4>3
    <3> QED BY <3>1
  <2> QED BY <2>2, <2>3, <2>4 DEF Front
<1> QED BY <1>7, <1>10, <1>11

LEMMA ReachedIs ==
  ASSUME HostOK, NEW k \in Int, Reached(k), host[1] # "."
  PROVE  k \in 2 .. Len(host) + 1 /\ (last = Null <=> k = Len(host) + 1)
<1>1. Len(host) \in Nat \ {0} /\ Dots \in SUBSET (1 .. Len(host) - 1) BY DotsAre
<1>2. \A d \in Dots : d # 1 BY <1>1, DotsAre
<1>3. CASE k = Len(host) + 1 /\ last = Null BY <1>1, <1>3
<1>4. CASE k \in Dots /\ last = k
  <2>1. k \in 2 .. Len(host) + 1 /\ k # Len(host) + 1 BY <1>1, <1>2, <1>4
  <2> QED BY <1>4, <2>1, NullAssumption
<1> QED BY <1>3, <1>4 DEF Reached

LEMMA WalkInit == TldInit => WalkOK
  BY DEF TldInit, WalkOK

LEMMA LabelIsTried ==
  ASSUME WalkOK, TryLabel
  PROVE  WalkOK'
<1>1. /\ phase = "walk" /\ p # 0 /\ HostOK /\ tld_extracted = NotFound
      /\ UNCHANGED <<kid, host, before, after, tld_extracted>>
  BY DEF TryLabel, WalkOK, treeVars, hostVars
<1>2. Dots' = Dots /\ Plain' = Plain /\ HostOK' /\ \A d : Tld(d)' = Tld(d)
  BY <1>1 DEF Dots, Plain, TruncatedFound, HostOK, Tld
<1>3. phase' \in {"walk", "decide"} BY <1>1 DEF TryLabel
<1>4. ASSUME Plain
      PROVE  \/ phase' = "walk" /\ \E k \in Int : Reached(k)' /\ p' = k - 2
             \/ phase' = "decide" /\ \E k \in Int : Stopped(k)'
  <2>1. PICK k \in Int : Reached(k) /\ p = k - 2 BY <1>1, <1>4 DEF WalkOK
  <2>2. host[1] # "." /\ ~TldExists(kid, Front(host)) BY <1>4 DEF Plain, TruncatedFound
  <2>3. Len(host) \in Nat \ {0} /\ Dots \in SUBSET (1 .. Len(host) - 1) BY <1>1, DotsAre
  <2>4. k \in 2 .. Len(host) + 1 BY <1>1, <2>1, <2>2, ReachedIs
  <2>5. p \in 1 .. Len(host) - 1 /\ p + 2 = k BY <1>1, <2>1, <2>3, <2>4
  <2>6. ASSUME NEW d \in Dots, IsPrevious(d, k), LabelStart = d - 1,
               TriedFrom = d, TriedLen = Len(host) - d, Slice(TriedFrom, TriedLen) = Tld(d)
        PROVE  \/ phase' = "walk" /\ \E e \in Int : Reached(e)' /\ p' = e - 2
               \/ phase' = "decide" /\ \E e \in Int : Stopped(e)'
    <3>1. CASE TldExists(kid, Tld(d))
      <4>1. phase' = "walk" /\ last' = d /\ tld_len' = Len(host) - d /\ p' = (d - 1) - 1
        BY <1>1, <2>6, <3>1 DEF TryLabel
      <4>2. \A e \in Dots : e >= d => TldExists(kid, Tld(e))
        <5>1. ASSUME NEW e \in Dots, e >= d PROVE TldExists(kid, Tld(e))
          <6>1. e >= k \/ e <= d BY <2>3, <2>6, <5>1 DEF IsPrevious
          <6>2. e >= k \/ e = d BY <2>3, <5>1, <6>1
          <6> QED BY <2>1, <3>1, <6>2 DEF Reached
        <5> QED BY <5>1
      <4>3. Reached(d)' BY <1>1, <1>2, <2>6, <4>1, <4>2 DEF Reached
      <4>4. d \in Int /\ p' = d - 2 BY <2>3, <4>1
      <4> QED BY <4>1, <4>3, <4>4
    <3>2. CASE ~TldExists(kid, Tld(d))
      <4>1. phase' = "decide" /\ last' = last /\ tld_len' = tld_len
        BY <1>1, <2>6, <3>2 DEF TryLabel, walkVars
      <4>2. Reached(k)' BY <1>1, <1>2, <2>1, <4>1 DEF Reached
      <4>3. \A e \in Dots : IsPrevious(e, k) => e = d
        BY <2>3, <2>6 DEF IsPrevious
      <4>4. Stopped(k)' BY <1>1, <1>2, <3>2, <4>2, <4>3 DEF Stopped, IsPrevious
      <4> QED BY <4>1, <4>4
    <3> QED BY <3>1, <3>2
  <2>7. ASSUME \A d \in Dots : ~(d < k), Slice(TriedFrom, TriedLen) = Front(host)
        PROVE  phase' = "decide" /\ \E e \in Int : Stopped(e)'
    <3>1. phase' = "decide" /\ last' = last /\ tld_len' = tld_len
      BY <1>1, <2>2, <2>7 DEF TryLabel, walkVars
    <3>2. Reached(k)' BY <1>1, <1>2, <2>1, <3>1 DEF Reached
    <3>3. Stopped(k)' BY <1>2, <2>7, <3>2 DEF Stopped, IsPrevious
    <3> QED BY <3>1, <3>3
  <2> QED BY <1>1, <2>2, <2>5, <2>6, <2>7, LabelIs
<1> QED BY <1>1, <1>2, <1>3, <1>4 DEF WalkOK, NotFound

LEMMA WalkStep == WalkOK /\ [TldNext]_tldVars => WalkOK'
<1> SUFFICES ASSUME WalkOK, [TldNext]_tldVars PROVE WalkOK' OBVIOUS
<1>1. CASE TryLabel BY <1>1, LabelIsTried
<1>2. CASE HostWalked
  <2>1. /\ phase = "walk" /\ p = 0 /\ phase' = "decide" /\ HostOK /\ tld_extracted = NotFound
        /\ UNCHANGED <<kid, host, before, after, tld_extracted, last, tld_len>>
    BY <1>2 DEF HostWalked, WalkOK, treeVars, hostVars, walkVars
  <2>2. Dots' = Dots /\ Plain' = Plain /\ HostOK' /\ \A d : Tld(d)' = Tld(d)
    BY <2>1 DEF Dots, Plain, TruncatedFound, HostOK, Tld
  <2>3. ASSUME Plain PROVE \E k \in Int : Stopped(k)'
    <3>1. PICK k \in Int : Reached(k) /\ p = k - 2 BY <2>1, <2>3 DEF WalkOK
    <3>2. k = 2 BY <2>1, <3>1
    <3>3. Len(host) \in Nat \ {0} /\ Dots \in SUBSET (1 .. Len(host) - 1) BY <2>1, DotsAre
    <3>4. \A d \in Dots : ~(d < 2)
      <4>1. \A d \in Dots : d # 1 BY <2>1, <2>3, <3>3, DotsAre DEF Plain
      <4> QED BY <3>3, <4>1
    <3>5. Reached(k)' BY <2>1, <2>2, <3>1 DEF Reached
    <3>6. Stopped(k)' BY <2>2, <3>2, <3>4, <3>5 DEF Stopped, IsPrevious
    <3> QED BY <3>6
  <2> QED BY <2>1, <2>2, <2>3 DEF WalkOK, NotFound
<1>3. CASE BufferWalked
  <2>1. /\ phase = "walk" /\ p < -Len(before) /\ phase' = "decide" /\ HostOK
        /\ tld_extracted = NotFound /\ UNCHANGED <<kid, host, before, after, tld_extracted>>
    BY <1>3 DEF BufferWalked, WalkOK, treeVars, hostVars
  <2>2. Plain' = Plain /\ HostOK'
    BY <2>1 DEF Dots, Plain, TruncatedFound, HostOK
  <2>3. ASSUME Plain PROVE FALSE
    <3>1. PICK k \in Int : Reached(k) /\ p = k - 2 BY <2>1, <2>3 DEF WalkOK
    <3>2. k \in 2 .. Len(host) + 1 BY <2>1, <2>3, <3>1, ReachedIs DEF Plain
    <3>3. Len(host) \in Nat BY <2>1, DotsAre
    <3>4. Len(before) \in Nat BY <2>1 DEF HostOK, Str
    <3>5. p >= 0 BY <3>1, <3>2, <3>3
    <3> QED BY <2>1, <3>1, <3>4, <3>5
  <2> QED BY <2>1, <2>2, <2>3 DEF WalkOK, NotFound
<1>4. CASE Decide
  <2>1. /\ phase = "decide" /\ phase' = "done" /\ HostOK
        /\ tld_extracted' = IF last = Null THEN NotFound ELSE Extracted
        /\ UNCHANGED <<kid, sibling, host, before, after, last, tld_len>>
    BY <1>4 DEF Decide, WalkOK, treeVars, hostVars, walkVars
  <2>2. Dots' = Dots /\ Plain' = Plain /\ HostOK' /\ \A d : Tld(d)' = Tld(d)
    BY <2>1 DEF Dots, Plain, TruncatedFound, HostOK, Tld
  <2>3. Extracted' = Extracted /\ NotFound' = NotFound
    BY <2>1 DEF Extracted, IsException, Slice, Char, Buffer, NotFound
  <2>4. ASSUME Plain
        PROVE  \E k \in Int : Stopped(k)' /\ tld_extracted' = IF last' = Null THEN NotFound' ELSE Extracted'
    <3>1. PICK k \in Int : Stopped(k) BY <2>1, <2>4 DEF WalkOK
    <3>2. Reached(k)' BY <2>1, <2>2, <3>1 DEF Stopped, Reached
    <3>3. Stopped(k)' BY <2>1, <2>2, <3>1, <3>2 DEF Stopped, IsPrevious
    <3> QED BY <2>1, <2>3, <3>3
  <2> HIDE DEF Extracted, NotFound
  <2>5. phase' \notin {"read", "add", "ready", "walk", "decide"} BY <2>1
  <2> QED BY <2>1, <2>2, <2>4, <2>5 DEF WalkOK
<1>5. CASE \E b \in Befores, h \in Hosts, a \in Afters : Extract(b, h, a)
  <2>1. PICK b \in Befores, h \in Hosts, a \in Afters : Extract(b, h, a) BY <1>5
  <2>2. /\ phase = "ready" /\ last = Null /\ tld_len = 0 /\ tld_extracted = NotFound
        /\ host' = h /\ before' = b /\ after' = a /\ p' = Len(h) - 1
        /\ UNCHANGED <<kid, last, tld_len, tld_extracted>>
        /\ phase' = IF Exists(kid) THEN "walk" ELSE "done"
    BY <2>1 DEF Extract, WalkOK, treeVars
  <2>3. HostOK'
    <3>1. h \in Str /\ b \in Str /\ a \in Str BY HostsAssumption DEF Str
    <3>2. LabelDots(h) # {} /\ h[Len(h)] # "." BY <2>1 DEF Extract, LabelDots
    <3> QED BY <2>2, <3>1, <3>2 DEF HostOK, Dots
  <2>4. Len(h) \in Nat BY <2>2, <2>3 DEF HostOK, Str
  <2>5. Dots' \in SUBSET (1 .. Len(h) - 1)
    <3>1. h[Len(h)] # "." BY <2>1 DEF Extract
    <3>2. Dots' = {d \in 1 .. Len(h) : h[d] = "."} BY <2>2 DEF Dots, LabelDots
    <3> QED BY <2>4, <3>1, <3>2
  <2>6. Reached(Len(h) + 1)'
    <3>1. \A d \in Dots' : ~(d >= Len(h) + 1) BY <2>4, <2>5
    <3> QED BY <2>2, <3>1 DEF Reached
  <2>7. Len(h) + 1 \in Int /\ p' = (Len(h) + 1) - 2 BY <2>2, <2>4
  <2>8. CASE Exists(kid)
    <3> QED BY <2>2, <2>3, <2>6, <2>7, <2>8 DEF WalkOK, NotFound
  <2>9. CASE ~Exists(kid)
    <3>1. \A e : ~TldExists(kid, e) BY <2>9 DEF TldExists
    <3>2. Stopped(Len(h) + 1)' BY <2>2, <2>6, <3>1 DEF Stopped
    <3> QED BY <2>2, <2>3, <2>7, <2>9, <3>2 DEF WalkOK, NotFound
  <2> QED BY <2>8, <2>9
<1>6. CASE Return
  <2>1. phase' = "ready" /\ last' = Null /\ tld_len' = 0 /\ tld_extracted' = NotFound BY <1>6 DEF Return
  <2> QED BY <2>1 DEF WalkOK, NotFound
<1>7. CASE Load
  <2>1. /\ phase \in {"read", "add"} /\ phase' \in {"read", "add", "ready"}
        /\ UNCHANGED <<last, tld_len, tld_extracted>>
    BY <1>7 DEF Load, ReadLine, ListRead, AddTld, TreeReady, walkVars
  <2> QED BY <2>1 DEF WalkOK, NotFound
<1>8. CASE UNCHANGED tldVars
  <2>1. UNCHANGED <<phase, kid, sibling, host, before, after, p, last, tld_len, tld_extracted>>
    BY <1>8 DEF tldVars, treeVars, hostVars, walkVars
  <2>2. /\ HostOK' = HostOK /\ Plain' = Plain /\ NotFound' = NotFound /\ Extracted' = Extracted
        /\ \A k : Reached(k)' = Reached(k) /\ Stopped(k)' = Stopped(k)
    BY <2>1 DEF HostOK, Dots, Plain, TruncatedFound, NotFound, Extracted, IsException, Slice, Char,
                Buffer, Reached, Stopped, IsPrevious, Tld
  <2> QED BY <2>1, <2>2 DEF WalkOK
<1> QED BY <1>1, <1>2, <1>3, <1>4, <1>5, <1>6, <1>7, <1>8 DEF TldNext, Match

(***************************************************************************)
(* The TLD that is returned                                                *)
(***************************************************************************)

(* The dots that the loop over an exception can meet *)
LEMMA InnerDots ==
  ASSUME HostOK, last \in Dots, tld_len = Len(host) - last
  PROVE  /\ {k \in 0 .. tld_len - 1 : Char(last + k) = "."} = {d - last - 1 : d \in {e \in Dots : e > last}}
         /\ \A d \in Dots : d - last - 1 \in Int
<1>1. Len(host) \in Nat \ {0} /\ Dots \in SUBSET (1 .. Len(host) - 1) BY DotsAre
<1>2. ASSUME NEW k \in 0 .. tld_len - 1
      PROVE  Char(last + k) = "." <=> last + k + 1 \in Dots
  <2>1. last + k \in 0 .. Len(host) /\ last + k < Len(host) /\ last + k + 1 \in 1 .. Len(host) BY <1>1
  <2>2. Char(last + k) = host[last + k + 1] BY <2>1, BufferIs
  <2> QED BY <2>1, <2>2, DotsAre
<1>3. ASSUME NEW k
      PROVE  k \in {j \in 0 .. tld_len - 1 : Char(last + j) = "."} <=>
             k \in {d - last - 1 : d \in {e \in Dots : e > last}}
  <2>1. ASSUME k \in 0 .. tld_len - 1, Char(last + k) = "."
        PROVE  \E d \in Dots : d > last /\ k = d - last - 1
    <3>1. last + k + 1 \in Dots BY <1>2, <2>1
    <3>2. last + k + 1 > last /\ k = (last + k + 1) - last - 1 BY <1>1, <2>1
    <3> QED BY <3>1, <3>2
  <2>2. ASSUME NEW d \in Dots, d > last, k = d - last - 1
        PROVE  k \in 0 .. tld_len - 1 /\ Char(last + k) = "."
    <3>1. k \in 0 .. tld_len - 1 /\ last + k + 1 = d BY <1>1, <2>2
    <3> QED BY <1>2, <2>2, <3>1
  <2> QED BY <2>1, <2>2
<1> QED BY <1>1, <1>3

(* The TLD is the end of the host where the walk stopped, or one label     *)
(* shorter when it is an exception.                                        *)
LEMMA ExtractedIs ==
  ASSUME HostOK, last \in Dots, tld_len = Len(host) - last
  PROVE  \/ /\ ~IsException \/ \A d \in Dots : d <= last
            /\ Extracted = [pos |-> last, size |-> Len(host) - last]
         \/ /\ IsException
            /\ \E d \in Dots : /\ d > last /\ \A e \in Dots : e > last => d <= e
                               /\ Extracted = [pos |-> d, size |-> Len(host) - d]
<1>1. Len(host) \in Nat \ {0} /\ Dots \in SUBSET (1 .. Len(host) - 1) BY DotsAre
<1> DEFINE dots == {k \in 0 .. tld_len - 1 : Char(last + k) = "."}
           len == IF IsException /\ dots # {} THEN tld_len - Min(dots) - 1 ELSE tld_len
<1>2. dots = {d - last - 1 : d \in {e \in Dots : e > last}} BY InnerDots
<1>3. Extracted = [pos |-> Len(host) - len, size |-> len] BY DEF Extracted
<1>4. dots \in SUBSET (0 .. tld_len - 1) OBVIOUS
<1>5. CASE IsException /\ dots # {}
  <2>1. 0 \in Int /\ tld_len - 1 \in Int BY <1>1
  <2> HIDE DEF dots
  <2>2. Min(dots) \in dots /\ \A x \in dots : Min(dots) <= x BY <1>4, <1>5, <2>1, HasSmallest, Zenon
  <2>3. PICK m : m = Min(dots) OBVIOUS
  <2>4. PICK d \in Dots : d > last /\ m = d - last - 1 BY <1>2, <2>2, <2>3
  <2>5. \A e \in Dots : e > last => d <= e
    <3>1. ASSUME NEW e \in Dots, e > last PROVE d <= e
      <4>1. e - last - 1 \in dots BY <1>2, <3>1
      <4>2. m <= e - last - 1 BY <2>2, <2>3, <4>1
      <4> QED BY <1>1, <2>4, <3>1, <4>2
    <3> QED BY <3>1
  <2>6. len = Len(host) - d BY <1>1, <1>5, <2>3, <2>4
  <2>7. Extracted = [pos |-> d, size |-> Len(host) - d]
    <3>1. Len(host) - (Len(host) - d) = d BY <1>1
    <3> HIDE DEF len
    <3> QED BY <1>3, <2>6, <3>1
  <2> QED BY <1>5, <2>4, <2>5, <2>7
<1>6. CASE ~(IsException /\ dots # {})
  <2>1. Extracted = [pos |-> last, size |-> Len(host) - last]
    <3>1. Len(host) - (Len(host) - last) = last BY <1>1
    <3> QED BY <1>3, <1>6, <3>1
  <2>2. ~IsException \/ \A d \in Dots : ~(d > last)
    <3> HIDE DEF dots
    <3>1. dots = {} => \A d \in Dots : ~(d > last) BY <1>2
    <3> QED BY <1>6, <3>1
  <2>3. ~IsException \/ \A d \in Dots : d <= last BY <1>1, <2>2
  <2> QED BY <2>1, <2>3
<1> QED BY <1>5, <1>6

(* The walk stands behind a dot of the host, after the last end that the   *)
(* tree has; where it stopped, the tree has not the end before.            *)
THEOREM WalkInvariant == TldSpec => []WalkOK
<1> QED BY WalkInit, WalkStep, PTL DEF TldSpec

(* ExtractContract, for every list and host: a TLD that is returned starts *)
(* after a dot of the host, ends with it, and leaves a name before it.     *)
THEOREM TldsAreLabels == TldSpec => []ExtractContract
<1>1. WalkOK => ExtractContract
  <2> SUFFICES ASSUME WalkOK, phase = "done", tld_extracted # NotFound, Plain PROVE TldIsLabels
    BY DEF ExtractContract, Found, Plain
  <2>1. HostOK BY DEF WalkOK
  <2>2. PICK k \in Int : Stopped(k) /\ tld_extracted = IF last = Null THEN NotFound ELSE Extracted
    BY DEF WalkOK
  <2>3. tld_extracted = Extracted /\ last # Null BY <2>2
  <2>4. last \in Dots /\ tld_len = Len(host) - last BY <2>2, <2>3 DEF Stopped, Reached
  <2>5. PICK d \in Dots : tld_extracted = [pos |-> d, size |-> Len(host) - d]
    <3>1. \E d \in Dots : Extracted = [pos |-> d, size |-> Len(host) - d]
      BY <2>1, <2>4, ExtractedIs
    <3> QED BY <2>3, <3>1
  <2>6. Len(host) \in Nat /\ d \in 1 .. Len(host) - 1 /\ host[d] = "." BY <2>1, DotsAre
  <2>7. tld_extracted.pos = d /\ tld_extracted.size = Len(host) - d BY <2>5
  <2> QED BY <2>6, <2>7 DEF TldIsLabels
<1> QED BY <1>1, WalkInvariant, PTL

(***************************************************************************)
(* The ends of a host that is a name.  Tld(0) is the host itself.          *)
(***************************************************************************)
Positions == Dots \cup {0}

(* The position d begins the label after the one that c begins. *)
NextTo(c, d) == c \in Positions /\ d \in Dots /\ c < d /\ \A e \in Dots : ~(c < e /\ e < d)

LEMMA TldIs ==
  ASSUME HostOK, NEW d \in Positions
  PROVE  /\ d \in 0 .. Len(host) - 1 /\ Len(host) \in Nat \ {0}
         /\ Tld(d) \in Str /\ Len(Tld(d)) = Len(host) - d /\ Tld(d) # <<>>
         /\ \A i \in 1 .. Len(host) - d : Tld(d)[i] = host[d + i]
<1>1. Len(host) \in Nat \ {0} /\ Dots \in SUBSET (1 .. Len(host) - 1) BY DotsAre
<1>2. d \in 0 .. Len(host) - 1 BY <1>1 DEF Positions
<1>3. Len(host) - d \in 0 .. Len(host) /\ Len(host) - (Len(host) - d) = d BY <1>1, <1>2
<1>4. /\ Tld(d) \in Str /\ Len(Tld(d)) = Len(host) - d
      /\ \A i \in 1 .. Len(host) - d : Tld(d)[i] = host[d + i]
  BY <1>3, EndIs DEF HostOK, Tld
<1>5. Tld(d) # <<>> BY <1>1, <1>2, <1>4
<1> QED BY <1>1, <1>2, <1>4, <1>5

LEMMA TldZero ==
  ASSUME HostOK
  PROVE  Tld(0) = host /\ 0 \in Positions
<1>1. Len(host) \in Nat BY DotsAre
<1> QED BY <1>1, WholeEnd DEF Tld, Positions, HostOK

LEMMA NotAdjacent ==
  ASSUME HostOK, IsName(host), NEW c \in Positions, NEW d \in Dots, c < d
  PROVE  c + 1 < d
<1>1. Len(host) \in Nat \ {0} /\ Dots \in SUBSET (1 .. Len(host) - 1) BY DotsAre
<1>2. host[d] = "." /\ (c # 0 => host[c] = ".") BY <1>1, DotsAre DEF Positions
<1>3. SUFFICES ASSUME d = c + 1 PROVE FALSE BY <1>1 DEF Positions
<1>4. CASE c = 0 BY <1>2, <1>3, <1>4 DEF IsName
<1>5. CASE c # 0
  <2>1. c \in 1 .. Len(host) - 1 BY <1>1, <1>5 DEF Positions
  <2> QED BY <1>2, <1>3, <1>5, <2>1 DEF IsName
<1> QED BY <1>4, <1>5

LEMMA TldIsName ==
  ASSUME HostOK, IsName(host), NEW d \in Dots
  PROVE  IsName(Tld(d))
<1>1. d \in Positions BY DEF Positions
<1>2. /\ d \in 0 .. Len(host) - 1 /\ Len(host) \in Nat \ {0}
      /\ Tld(d) \in Str /\ Len(Tld(d)) = Len(host) - d /\ Tld(d) # <<>>
      /\ \A i \in 1 .. Len(host) - d : Tld(d)[i] = host[d + i]
  BY <1>1, TldIs
<1>3. d \in 1 .. Len(host) - 1 /\ host[d] = "." BY DotsAre
<1>4. Tld(d)[1] # "."
  <2>1. Tld(d)[1] = host[d + 1] BY <1>2
  <2> QED BY <1>3, <2>1 DEF IsName
<1>5. Tld(d)[Len(Tld(d))] # "."
  <2>1. Len(host) - d \in 1 .. Len(host) - d /\ d + (Len(host) - d) = Len(host) BY <1>2, <1>3
  <2> QED BY <1>2, <2>1 DEF IsName
<1>6. ASSUME NEW i \in 1 .. Len(Tld(d)) - 1 PROVE Tld(d)[i] # "." \/ Tld(d)[i + 1] # "."
  <2>1. /\ i \in 1 .. Len(host) - d /\ i + 1 \in 1 .. Len(host) - d
        /\ d + i \in 1 .. Len(host) - 1 /\ d + (i + 1) = (d + i) + 1
    BY <1>2, <1>3
  <2>2. Tld(d)[i] = host[d + i] /\ Tld(d)[i + 1] = host[(d + i) + 1] BY <1>2, <2>1
  <2> QED BY <2>1, <2>2 DEF IsName
<1>7. ASSUME NEW i \in 1 .. Len(Tld(d)) PROVE Tld(d)[i] \notin {"*", "!"}
  <2>1. i \in 1 .. Len(host) - d /\ d + i \in 1 .. Len(host) BY <1>2, <1>3
  <2> QED BY <1>2, <2>1 DEF IsName
<1> QED BY <1>2, <1>4, <1>5, <1>6, <1>7 DEF IsName

LEMMA TldDots ==
  ASSUME HostOK, NEW d \in Positions
  PROVE  /\ LabelDots(Tld(d)) \in SUBSET (1 .. Len(host) - d)
         /\ \A e \in Dots : e > d => e - d \in LabelDots(Tld(d))
         /\ \A i \in LabelDots(Tld(d)) : d + i \in Dots
<1>1. /\ d \in 0 .. Len(host) - 1 /\ Len(host) \in Nat \ {0} /\ Len(Tld(d)) = Len(host) - d
      /\ \A i \in 1 .. Len(host) - d : Tld(d)[i] = host[d + i]
  BY TldIs
<1>2. Dots \in SUBSET (1 .. Len(host) - 1) /\ \A e \in 1 .. Len(host) : e \in Dots <=> host[e] = "."
  BY DotsAre
<1>3. ASSUME NEW e \in Dots, e > d PROVE e - d \in LabelDots(Tld(d))
  <2>1. e - d \in 1 .. Len(host) - d /\ d + (e - d) = e BY <1>1, <1>2, <1>3
  <2>2. Tld(d)[e - d] = "." BY <1>1, <1>2, <2>1
  <2> QED BY <1>1, <2>1, <2>2 DEF LabelDots
<1>4. ASSUME NEW i \in LabelDots(Tld(d)) PROVE i \in 1 .. Len(host) - d /\ d + i \in Dots
  <2>1. i \in 1 .. Len(host) - d /\ Tld(d)[i] = "." BY <1>1 DEF LabelDots
  <2>2. d + i \in 1 .. Len(host) /\ host[d + i] = "." BY <1>1, <2>1
  <2> QED BY <1>2, <2>1, <2>2
<1> QED BY <1>3, <1>4

LEMMA TldOfTld ==
  ASSUME HostOK, NEW c \in Positions, NEW d \in Dots, c <= d
  PROVE  Tld(d) = End(Tld(c), Len(host) - d) /\ Tld(d) \in LabelEnds(Tld(c))
<1>1. d \in Positions /\ c \in 0 .. Len(host) - 1 /\ d \in 0 .. Len(host) - 1 /\ Len(host) \in Nat
  BY TldIs DEF Positions
<1>2. Len(host) - c \in 0 .. Len(host) /\ Len(host) - d \in 0 .. Len(host) - c BY <1>1
<1>3. Tld(d) = End(Tld(c), Len(host) - d) BY <1>2, EndOfEnd DEF HostOK, Tld
<1>4. CASE c = d
  <2>1. Tld(d) \in LabelEnds(Tld(d)) BY LabelEndsIs
  <2> QED BY <1>3, <1>4, <2>1, Zenon
<1>5. CASE c # d
  <2>1. d > c BY <1>1, <1>5
  <2>2. d - c \in LabelDots(Tld(c)) BY <2>1, TldDots
  <2>3. Len(Tld(c)) = Len(host) - c BY TldIs
  <2>4. Len(Tld(c)) - (d - c) = Len(host) - d BY <1>1, <2>3
  <2> QED BY <1>3, <2>2, <2>4 DEF LabelEnds
<1> QED BY <1>3, <1>4, <1>5

(* Before every label there is another one, or the start of the host. *)
LEMMA HasPrevious ==
  ASSUME HostOK, NEW d \in 1 .. Len(host) + 1
  PROVE  \E c \in Positions : c < d /\ \A e \in Dots : e < d => e <= c
<1>1. Len(host) \in Nat \ {0} /\ Dots \in SUBSET (1 .. Len(host) - 1) BY DotsAre
<1> DEFINE S == {c \in Positions : c < d}
<1>2. S \in SUBSET (0 .. Len(host)) /\ 0 \in S
  <2>1. Positions \in SUBSET (0 .. Len(host)) /\ 0 \in Positions BY <1>1 DEF Positions
  <2>2. 0 < d BY <1>1
  <2> QED BY <2>1, <2>2
<1> HIDE DEF S
<1>3. 0 \in Int /\ Len(host) \in Int /\ S # {} BY <1>1, <1>2
<1>4. Max(S) \in S /\ \A x \in S : Max(S) >= x BY <1>2, <1>3, HasLargest, Zenon
<1>5. PICK c : c = Max(S) OBVIOUS
<1>6. c \in Positions /\ c < d BY <1>4, <1>5 DEF S
<1>7. ASSUME NEW e \in Dots, e < d PROVE e <= c
  <2>1. e \in S BY <1>7 DEF S, Positions
  <2>2. c >= e BY <1>4, <1>5, <2>1
  <2> QED BY <1>1, <1>2, <1>4, <1>5, <2>2
<1> QED BY <1>6, <1>7

(***************************************************************************)
(* Rules, and what a host has of them                                      *)
(***************************************************************************)
LEMMA StarIs ==
  ASSUME NEW s \in Str, NEW r \in Str
  PROVE  r = <<"*", ".">> \o s <=>
           /\ Len(r) = Len(s) + 2 /\ r[1] = "*" /\ r[2] = "."
           /\ \A i \in 1 .. Len(s) : r[i + 2] = s[i]
<1> DEFINE a == <<"*", ".">>
           t == a \o s
           S == STRING \cup {"*", "."}
<1>1. Len(s) \in Nat BY DEF Str
<1>2. /\ t \in Seq(S) /\ Len(t) = Len(s) + 2 /\ t[1] = "*" /\ t[2] = "."
      /\ \A i \in 1 .. Len(s) : t[i + 2] = s[i]
  <2>1. a \in Seq(S) /\ Len(a) = 2 /\ a[1] = "*" /\ a[2] = "." OBVIOUS
  <2>2. s \in Seq(S)
    <3>1. STRING \subseteq S OBVIOUS
    <3> QED BY <3>1, SeqMonotonic DEF Str
  <2> HIDE DEF a, S
  <2>3. /\ t \in Seq(S) /\ Len(t) = Len(a) + Len(s)
        /\ \A i \in 1 .. Len(a) + Len(s) : t[i] = IF i <= Len(a) THEN a[i] ELSE s[i - Len(a)]
    BY <2>1, <2>2, ConcatProperties
  <2>4. t[1] = a[1] /\ t[2] = a[2] BY <1>1, <2>1, <2>3
  <2>5. ASSUME NEW i \in 1 .. Len(s) PROVE t[i + 2] = s[i]
    <3>1. i + 2 \in 1 .. Len(a) + Len(s) /\ ~(i + 2 <= Len(a)) /\ (i + 2) - Len(a) = i BY <1>1, <2>1
    <3> QED BY <2>3, <3>1
  <2> QED BY <1>1, <2>1, <2>3, <2>4, <2>5
<1> HIDE DEF S
<1> HIDE DEF t
<1>3. ASSUME Len(r) = Len(s) + 2, r[1] = "*", r[2] = ".", \A i \in 1 .. Len(s) : r[i + 2] = s[i]
      PROVE  r = t
  <2>1. ASSUME NEW j \in 1 .. Len(r) PROVE r[j] = t[j]
    <3>1. CASE j \in {1, 2} BY <1>2, <1>3, <3>1
    <3>2. CASE j \notin {1, 2}
      <4>1. j - 2 \in 1 .. Len(s) /\ (j - 2) + 2 = j BY <1>1, <1>3, <3>2
      <4>2. r[(j - 2) + 2] = s[j - 2] /\ t[(j - 2) + 2] = s[j - 2] BY <1>2, <1>3, <4>1
      <4> QED BY <4>1, <4>2
    <3> QED BY <3>1, <3>2
  <2>2. r \in Seq(S)
    <3>1. STRING \subseteq S BY DEF S
    <3> QED BY <3>1, SeqMonotonic DEF Str
  <2> QED BY <1>2, <1>3, <2>1, <2>2
<1> QED BY <1>2, <1>3 DEF t

(* What a wildcard covers, of a host *)
LEMMA WildcardIs ==
  ASSUME HostOK, NEW R \in SUBSET (Str \ {<<>>}), NEW c \in Positions
  PROVE  CoveredByWildcard(R, Tld(c)) <=>
           \E r \in R : /\ r[1] = "*" /\ Len(r) - 1 < Len(host) - c
                        /\ Tail(r) = End(Tld(c), Len(r) - 1)
                        /\ \A e \in Dots : e > c => Len(host) - e < Len(r) - 1
<1>1. /\ c \in 0 .. Len(host) - 1 /\ Len(host) \in Nat \ {0} /\ Tld(c) \in Str
      /\ Len(Tld(c)) = Len(host) - c
  BY TldIs
<1>2. Dots \in SUBSET (1 .. Len(host) - 1) BY DotsAre
<1>3. ASSUME NEW r \in R, r[1] = "*"
      PROVE  /\ Len(Tail(r)) = Len(r) - 1 /\ Tail(r) \in Str /\ Len(r) \in Nat \ {0}
             /\ Len(r) - 1 < Len(host) - c =>
                  (LabelDots(Before(Tld(c), Tail(r))) = {} <=>
                     \A e \in Dots : e > c => Len(host) - e < Len(r) - 1)
  <2>1. Len(Tail(r)) = Len(r) - 1 /\ Tail(r) \in Str /\ Len(r) \in Nat \ {0} BY TailIs
  <2> SUFFICES ASSUME Len(r) - 1 < Len(host) - c
               PROVE  LabelDots(Before(Tld(c), Tail(r))) = {} <=>
                        \A e \in Dots : e > c => Len(host) - e < Len(r) - 1
    BY <2>1
  <2> DEFINE b == Before(Tld(c), Tail(r))
             n == (Len(host) - c) - (Len(r) - 1)
  <2>2. Len(Tail(r)) <= Len(Tld(c)) BY <1>1, <2>1
  <2>3. Len(b) = n /\ \A i \in 1 .. n : b[i] = Tld(c)[i] BY <1>1, <2>1, <2>2, BeforeIs
  <2> HIDE DEF b
  <2>4. \A i \in 1 .. n : i \in 1 .. Len(Tld(c)) BY <1>1, <2>1
  <2>5. LabelDots(b) = {} <=> \A i \in 1 .. n : i \notin LabelDots(Tld(c))
    BY <2>3, <2>4 DEF LabelDots
  <2>6. ASSUME \A i \in 1 .. n : i \notin LabelDots(Tld(c)), NEW e \in Dots, e > c
        PROVE  Len(host) - e < Len(r) - 1
    <3>1. e - c \in LabelDots(Tld(c)) BY <2>6, TldDots
    <3>2. e - c \notin 1 .. n BY <2>6, <3>1
    <3> QED BY <1>1, <1>2, <2>1, <2>6, <3>2
  <2>7. ASSUME \A e \in Dots : e > c => Len(host) - e < Len(r) - 1, NEW i \in 1 .. n, i \in LabelDots(Tld(c))
        PROVE  FALSE
    <3>1. c + i \in Dots /\ c + i > c BY <1>1, <2>7, TldDots
    <3>2. Len(host) - (c + i) < Len(r) - 1 BY <2>7, <3>1
    <3> QED BY <1>1, <2>1, <2>7, <3>2
  <2> QED BY <2>5, <2>6, <2>7 DEF b
<1>4. CoveredByWildcard(R, Tld(c)) <=>
        \E r \in R : r[1] = "*" /\ Len(Tld(c)) > Len(Tail(r)) /\ End(Tld(c), Len(Tail(r))) = Tail(r)
                     /\ LabelDots(Before(Tld(c), Tail(r))) = {}
  BY DEF CoveredByWildcard, Wildcards
<1>5. ASSUME NEW r \in R
      PROVE  (/\ r[1] = "*" /\ Len(Tld(c)) > Len(Tail(r)) /\ End(Tld(c), Len(Tail(r))) = Tail(r)
              /\ LabelDots(Before(Tld(c), Tail(r))) = {}) <=>
             (/\ r[1] = "*" /\ Len(r) - 1 < Len(host) - c
              /\ Tail(r) = End(Tld(c), Len(r) - 1)
              /\ \A e \in Dots : e > c => Len(host) - e < Len(r) - 1)
  <2>1. CASE r[1] # "*" BY <2>1
  <2>2. CASE r[1] = "*"
    <3>1. Len(Tail(r)) = Len(r) - 1 /\ Len(r) \in Nat \ {0} BY <1>3, <2>2
    <3>2. Len(Tld(c)) > Len(Tail(r)) <=> Len(r) - 1 < Len(host) - c BY <1>1, <3>1
    <3>3. Len(r) - 1 < Len(host) - c =>
            (LabelDots(Before(Tld(c), Tail(r))) = {} <=>
               \A e \in Dots : e > c => Len(host) - e < Len(r) - 1)
      BY <1>3, <2>2
    <3> QED BY <2>2, <3>1, <3>2, <3>3
  <2> QED BY <2>1, <2>2
<1> QED BY <1>4, <1>5

(* A wildcard over a label covers it with what is before it. *)
LEMMA StarCovers ==
  ASSUME HostOK, IsName(host), NEW R \in SUBSET (Str \ {<<>>}), NEW c, NEW d, NextTo(c, d),
         <<"*", ".">> \o Tld(d) \in R
  PROVE  CoveredByWildcard(R, Tld(c))
<1>1. c \in Positions /\ d \in Dots /\ d \in Positions /\ c + 1 < d BY NotAdjacent DEF NextTo, Positions
<1>2. /\ c \in 0 .. Len(host) - 1 /\ d \in 1 .. Len(host) - 1 /\ Len(host) \in Nat \ {0}
      /\ host[d] = "." /\ Dots \in SUBSET (1 .. Len(host) - 1)
  BY <1>1, TldIs, DotsAre
<1>3. /\ Tld(d) \in Str /\ Len(Tld(d)) = Len(host) - d
      /\ \A i \in 1 .. Len(host) - d : Tld(d)[i] = host[d + i]
  BY <1>1, TldIs
<1>4. /\ Tld(c) \in Str /\ Len(Tld(c)) = Len(host) - c
      /\ \A i \in 1 .. Len(host) - c : Tld(c)[i] = host[c + i]
  BY <1>1, TldIs
<1>5. PICK r \in R : r = <<"*", ".">> \o Tld(d) OBVIOUS
<1>6. r \in Str /\ r # <<>> OBVIOUS
<1>7. /\ Len(r) = Len(host) - d + 2 /\ r[1] = "*" /\ r[2] = "."
      /\ \A i \in 1 .. Len(host) - d : r[i + 2] = Tld(d)[i]
  BY <1>3, <1>5, <1>6, StarIs
<1>8. Len(r) - 1 < Len(host) - c /\ Len(r) - 1 \in 0 .. Len(host) - c BY <1>1, <1>2, <1>7
<1>9. Tail(r) = End(Tld(c), Len(r) - 1)
  <2> DEFINE n == Len(r) - 1
  <2>1. Tail(r) \in Str /\ Len(Tail(r)) = n /\ \A i \in 1 .. n : Tail(r)[i] = r[i + 1]
    BY <1>6, <1>7, <1>8 DEF Str
  <2>2. /\ End(Tld(c), n) \in Str /\ Len(End(Tld(c), n)) = n
        /\ \A i \in 1 .. n : End(Tld(c), n)[i] = Tld(c)[(Len(host) - c) - n + i]
    <3>1. n \in 0 .. Len(Tld(c)) BY <1>4, <1>8
    <3> HIDE DEF n
    <3> QED BY <1>4, <3>1, EndIs
  <2>3. ASSUME NEW i \in 1 .. n PROVE Tail(r)[i] = End(Tld(c), n)[i]
    <3>1. (Len(host) - c) - n + i \in 1 .. Len(host) - c /\ c + ((Len(host) - c) - n + i) = d - 1 + i
      BY <1>1, <1>2, <1>7, <1>8
    <3>2. End(Tld(c), n)[i] = host[d - 1 + i] BY <1>4, <2>2, <3>1
    <3>3. CASE i = 1
      <4>1. d - 1 + 1 = d BY <1>2
      <4> QED BY <1>2, <1>7, <2>1, <3>2, <3>3, <4>1
    <3>4. CASE i # 1
      <4>1. i - 1 \in 1 .. Len(host) - d /\ (i - 1) + 2 = i + 1 /\ d + (i - 1) = d - 1 + i
        BY <1>2, <1>7, <3>4
      <4>2. r[i + 1] = Tld(d)[i - 1] /\ Tld(d)[i - 1] = host[d - 1 + i] BY <1>3, <1>7, <4>1
      <4> QED BY <2>1, <3>2, <4>2
    <3> QED BY <3>3, <3>4
  <2> QED BY <2>1, <2>2, <2>3, SameSeq
<1>10. ASSUME NEW e \in Dots, e > c PROVE Len(host) - e < Len(r) - 1
  <2>1. ~(e < d) BY <1>10 DEF NextTo
  <2> QED BY <1>2, <1>7, <2>1
<1> QED BY <1>1, <1>7, <1>8, <1>9, <1>10, WildcardIs

(* The ends of what a list covers are in the tree. *)
LEMMA CoveredIsClosed ==
  ASSUME HostOK, NEW R \in SUBSET (Str \ {<<>>}), NEW c \in Positions, NEW d \in Dots, c <= d,
         Covered(R, Tld(c))
  PROVE  Listed(R, Tld(d))
<1>1. CASE Tld(c) \in Literals(R)
  <2>1. Tld(c) \in R /\ Regular(Tld(c)) BY <1>1 DEF Literals, Regular
  <2> QED BY <2>1, TldOfTld DEF Listed
<1>2. CASE CoveredByWildcard(R, Tld(c)) /\ c = d BY <1>2 DEF Listed
<1>3. CASE CoveredByWildcard(R, Tld(c)) /\ c # d
  <2>1. PICK r \in R : /\ r[1] = "*" /\ Len(r) - 1 < Len(host) - c
                       /\ Tail(r) = End(Tld(c), Len(r) - 1)
                       /\ \A e \in Dots : e > c => Len(host) - e < Len(r) - 1
    BY <1>3, WildcardIs
  <2>2. /\ c \in 0 .. Len(host) - 1 /\ d \in 1 .. Len(host) - 1 /\ Len(host) \in Nat \ {0}
        /\ host[d] = "." /\ Tld(c) \in Str /\ Len(Tld(c)) = Len(host) - c
        /\ \A i \in 1 .. Len(host) - c : Tld(c)[i] = host[c + i]
    BY TldIs, DotsAre
  <2>3. d > c BY <1>3, <2>2
  <2>4. r \in Str /\ Tail(r) = End(r, Len(r) - 1) /\ Len(r) \in Nat \ {0} BY TailIs
  <2> DEFINE n == Len(host) - d
  <2>5. /\ n \in 0 .. Len(r) - 1 /\ n < Len(r) - 1 /\ Len(r) - 1 \in 0 .. Len(Tld(c))
        /\ Len(r) - 1 \in 0 .. Len(r)
    BY <2>1, <2>2, <2>3, <2>4
  <2>6. Tld(d) = End(r, n)
    <3>1. Tld(d) = End(Tld(c), n) BY TldOfTld
    <3>2. End(Tld(c), n) = End(End(Tld(c), Len(r) - 1), n) BY <2>2, <2>5, EndOfEnd
    <3>3. End(r, n) = End(End(r, Len(r) - 1), n) BY <2>4, <2>5, EndOfEnd
    <3> QED BY <2>1, <2>4, <3>1, <3>2, <3>3
  <2>7. Len(r) - n \in 1 .. Len(r) /\ Len(r) - (Len(r) - n) = n BY <2>4, <2>5
  <2>8. r[Len(r) - n] = "."
    <3> DEFINE i == (Len(r) - 1) - n
    <3>1. i \in 1 .. Len(r) - 1 /\ Len(r) - (Len(r) - 1) + i = Len(r) - n
          /\ Len(Tld(c)) - (Len(r) - 1) + i = d - c /\ d - c \in 1 .. Len(host) - c
          /\ c + (d - c) = d
      BY <2>2, <2>3, <2>4, <2>5
    <3>2. Tail(r)[i] = r[Len(r) - n] BY <2>4, <2>5, <3>1, EndIs
    <3>3. Tail(r)[i] = Tld(c)[d - c]
      <4>1. Tld(c) \in Str /\ Len(r) - 1 \in 0 .. Len(Tld(c)) BY <2>2, <2>5
      <4>2. \A j \in 1 .. Len(r) - 1 : Tail(r)[j] = Tld(c)[Len(Tld(c)) - (Len(r) - 1) + j]
        BY <2>1, <4>1, EndIs
      <4> HIDE DEF i
      <4> QED BY <3>1, <4>2
    <3> QED BY <2>2, <3>1, <3>2, <3>3
  <2>9. Tld(d) \in LabelEnds(r) BY <2>6, <2>7, <2>8, LabelEndsIs
  <2>10. Regular(r) BY <2>1 DEF Regular
  <2> QED BY <2>9, <2>10 DEF Listed
<1> QED BY <1>1, <1>2, <1>3 DEF Covered

(* An exception among the ends of the host: the walk finds it, and stops.  *)
LEMMA WinnerIs ==
  ASSUME HostOK, IsName(host), NEW R \in SUBSET (Str \ {<<>>}),
         Unshadowed(R), ExceptionsUnderWildcards(R),
         NEW d \in Dots, Tld(d) \in Exceptions(R)
  PROVE  \E d1 \in Dots :
           /\ NextTo(d, d1) /\ Min(LabelDots(Tld(d))) = d1 - d
           /\ CoveredByWildcard(R, Tld(d))
           /\ \A c \in Dots : NextTo(c, d) => ~Listed(R, Tld(c))
<1>1. d \in Positions BY DEF Positions
<1>2. /\ d \in 1 .. Len(host) - 1 /\ Len(host) \in Nat \ {0} /\ Dots \in SUBSET (1 .. Len(host) - 1)
      /\ Tld(d) \in Str /\ Len(Tld(d)) = Len(host) - d
  BY <1>1, TldIs, DotsAre
<1> DEFINE D == LabelDots(Tld(d))
<1>3. /\ D \in SUBSET (1 .. Len(host) - d) /\ D # {}
      /\ \A e \in Dots : e > d => e - d \in D
      /\ \A i \in D : d + i \in Dots
  BY <1>1, TldDots DEF ExceptionsUnderWildcards
<1>4. End(Tld(d), Len(Tld(d)) - Min(D) + 1) \in Wildcards(R) BY DEF ExceptionsUnderWildcards
<1> HIDE DEF D
<1>5. Min(D) \in D /\ \A i \in D : Min(D) <= i
  <2>1. 1 \in Int /\ Len(host) - d \in Int BY <1>2
  <2> QED BY <1>3, <2>1, HasSmallest, Zenon
<1>6. PICK d1 : d1 = d + Min(D) OBVIOUS
<1>7. d1 \in Dots /\ d1 > d /\ Min(D) = d1 - d
  <2>1. Min(D) \in 1 .. Len(host) - d BY <1>3, <1>5
  <2>2. d1 \in Dots BY <1>3, <1>5, <1>6
  <2> QED BY <1>2, <1>6, <2>1, <2>2
<1>8. NextTo(d, d1)
  <2>1. ASSUME NEW e \in Dots, d < e, e < d1 PROVE FALSE
    <3>1. Min(D) <= e - d BY <1>3, <1>5, <2>1
    <3> QED BY <1>2, <1>7, <2>1, <3>1
  <2> QED BY <1>1, <1>2, <1>7, <2>1 DEF NextTo
<1>9. d + 1 < d1 /\ d1 \in 1 .. Len(host) - 1 BY <1>1, <1>2, <1>7, NotAdjacent
<1> DEFINE n == Len(host) - d1 + 1
<1>10. n \in 0 .. Len(host) - d /\ n < Len(host) - d /\ Len(Tld(d)) - Min(D) + 1 = n
  BY <1>2, <1>7, <1>9
<1>11. PICK r \in R : r[1] = "*" /\ End(Tld(d), n) = Tail(r) BY <1>4, <1>10 DEF Wildcards
<1> HIDE DEF n
<1>12. r \in Str /\ Len(Tail(r)) = Len(r) - 1 /\ Len(r) \in Nat \ {0} /\ <<"*">> \o Tail(r) = r
  BY <1>11, TailIs
<1>13. Len(r) - 1 = n BY <1>2, <1>10, <1>11, <1>12, EndIs
<1>14. CoveredByWildcard(R, Tld(d))
  <2>1. ASSUME NEW e \in Dots, e > d PROVE Len(host) - e < Len(r) - 1
    <3>1. ~(e < d1) BY <1>8, <2>1 DEF NextTo
    <3> QED BY <1>2, <1>7, <1>13, <3>1 DEF n
  <2> QED BY <1>1, <1>10, <1>11, <1>13, <2>1, WildcardIs
<1>15. ASSUME NEW c \in Dots, NextTo(c, d), Listed(R, Tld(c)) PROVE FALSE
  <2>1. c \in Positions /\ c < d /\ c \in 1 .. Len(host) - 1 BY <1>2, <1>15 DEF Positions, NextTo
  <2>2. Tld(c) \in Str /\ Len(Tld(c)) = Len(host) - c BY <2>1, TldIs
  <2>3. Tail(r) \in Wildcards(R) BY <1>11 DEF Wildcards
  <2>4. End(Tld(c), n) = Tail(r)
    <3>1. Tld(d) = End(Tld(c), Len(host) - d) BY <1>2, <2>1, TldOfTld
    <3>2. Len(host) - d \in 0 .. Len(Tld(c)) /\ n \in 0 .. Len(host) - d BY <1>2, <1>10, <2>1, <2>2
    <3> QED BY <1>11, <2>2, <3>1, <3>2, EndOfEnd
  <2>5. ASSUME NEW q \in R, Regular(q), NEW j \in 0 .. Len(q), j <= Len(host) - c,
               n <= j, n < Len(q), End(q, j) = End(Tld(c), j)
        PROVE  q = r
    <3>1. q \in Str /\ Len(q) \in Nat BY DEF Str
    <3>2. n \in 0 .. j /\ j \in 0 .. Len(Tld(c)) BY <1>2, <1>10, <2>2, <2>5, <3>1
    <3>3. End(q, n) = End(Tld(c), n) BY <2>2, <2>5, <3>1, <3>2, EndOfEnd
    <3>4. Len(q) > Len(Tail(r)) /\ End(q, Len(Tail(r))) = Tail(r)
      BY <1>12, <1>13, <2>4, <2>5, <3>1, <3>2, <3>3
    <3> QED BY <1>12, <2>3, <2>5, <3>4 DEF Unshadowed
  <2>6. CASE CoveredByWildcard(R, Tld(c))
    <3>1. PICK q \in R : /\ q[1] = "*" /\ Len(q) - 1 < Len(host) - c
                         /\ Tail(q) = End(Tld(c), Len(q) - 1)
                         /\ \A e \in Dots : e > c => Len(host) - e < Len(q) - 1
      BY <2>1, <2>6, WildcardIs
    <3>2. q \in Str /\ Tail(q) = End(q, Len(q) - 1) /\ Len(q) \in Nat \ {0} BY TailIs
    <3>3. Len(host) - d < Len(q) - 1 BY <1>2, <2>1, <3>1
    <3>4. Len(q) - 1 \in 0 .. Len(q) /\ n <= Len(q) - 1 /\ n < Len(q) /\ Len(q) - 1 <= Len(host) - c
      BY <1>2, <1>10, <2>1, <3>1, <3>2, <3>3
    <3>5. Regular(q) BY <3>1 DEF Regular
    <3>6. q = r BY <2>5, <3>1, <3>2, <3>4, <3>5
    <3> QED BY <1>2, <1>10, <1>13, <3>3, <3>6
  <2>7. CASE \E q \in R : Regular(q) /\ Tld(c) \in LabelEnds(q)
    <3>1. PICK q \in R : Regular(q) /\ Tld(c) \in LabelEnds(q) BY <2>7
    <3>2. q \in Str /\ Len(q) \in Nat BY DEF Str
    <3>3. \E j \in 0 .. Len(q) : Tld(c) = End(q, j)
      <4>1. CASE Tld(c) = q
        <5>1. Len(q) \in 0 .. Len(q) BY <3>2
        <5> QED BY <3>2, <4>1, <5>1, WholeEnd
      <4>2. CASE \E k \in 1 .. Len(q) : q[k] = "." /\ Tld(c) = End(q, Len(q) - k)
        <5>1. \A k \in 1 .. Len(q) : Len(q) - k \in 0 .. Len(q) BY <3>2
        <5> QED BY <4>2, <5>1
      <4> QED BY <3>1, <4>1, <4>2, LabelEndsIs
    <3>4. PICK j \in 0 .. Len(q) : Tld(c) = End(q, j) BY <3>3
    <3>5. j = Len(host) - c BY <2>2, <3>2, <3>4, EndIs
    <3>6. End(Tld(c), j) = Tld(c) BY <2>2, <3>5, WholeEnd
    <3>7. n <= j /\ n < Len(q) /\ j <= Len(host) - c BY <1>2, <1>10, <2>1, <3>2, <3>4, <3>5
    <3>8. q = r BY <2>5, <3>1, <3>4, <3>6, <3>7
    <3>9. Len(host) - c <= n + 1 BY <1>12, <1>13, <3>2, <3>4, <3>5, <3>8
    <3>10. c + 1 < d BY <1>2, <2>1, NotAdjacent
    <3> QED BY <1>2, <1>9, <2>1, <3>9, <3>10 DEF n
  <2> QED BY <1>15, <2>6, <2>7 DEF Listed
<1> QED BY <1>7, <1>8, <1>14, <1>15 DEF D

(* The tree of the exceptions finds them, *)
LEMMA ExceptionIsFound ==
  ASSUME NEW R \in SUBSET (Str \ {<<>>}), NEW s \in Str, s # <<>>, s \in Exceptions(R)
  PROVE  TldExists(Trie(Marked(R)), s)
<1>1. PICK x \in R : x[1] = "!" /\ s = Tail(x) BY DEF Exceptions
<1>2. x \in Str /\ s = End(x, Len(x) - 1) /\ Len(s) = Len(x) - 1 /\ Len(x) \in Nat \ {0}
  BY <1>1, TailIs
<1>3. x \in Marked(R) BY <1>1 DEF Marked, Regulars, Regular
<1>4. Len(s) # 0 /\ Len(x) - 1 \in 0 .. Len(x) /\ Len(x) - 1 > 0 /\ Len(x) - (Len(x) - 1) = 1
  BY <1>2 DEF Str
<1>5. EndsLookup(x, Len(x) - 1) BY <1>1, <1>4 DEF EndsLookup
<1>6. s \in Trie(Marked(R)).eot /\ s \in Trie(Marked(R)).nodes BY <1>2, <1>3, <1>4, <1>5, TrieIs
<1>7. Len(s) \in 0 .. Len(s) /\ (\A n \in 0 .. Len(s) : n <= Len(s)) /\ End(s, Len(s)) = s
  BY WholeEnd DEF Str
<1> QED BY <1>6, <1>7, LookupIs

(* and of other names only ends of one label, and what has a wildcard      *)
(* before it.                                                              *)
LEMMA FoundIsException ==
  ASSUME NEW R \in SUBSET (Str \ {<<>>}), WellFormed(R), ExceptionsUnderWildcards(R),
         NEW s \in Str, IsName(s), s \notin Exceptions(R), TldExists(Trie(Marked(R)), s)
  PROVE  LabelDots(s) = {} \/ <<"*", ".">> \o s \in R
<1> DEFINE G == Marked(R)
<1>1. G \in SUBSET Str /\ \A x \in G : x \in R /\ x[1] = "!" /\ x # <<>>
  BY DEF Marked, Regulars, Regular
<1>2. G # {} BY TrieIs, Zenon DEF TldExists, Exists
<1> HIDE DEF G
<1>3. PICK m \in 0 .. Len(s) :
        End(s, m) \in Trie(G).nodes /\ \A n \in 0 .. Len(s) : End(s, n) \in Trie(G).nodes => n <= m
  BY <1>1, <1>2, Known
<1>4. IF m = Len(s) THEN s \in Trie(G).eot
      ELSE <<"*">> \o End(s, m) \in Trie(G).nodes /\ \A k \in 2 .. Len(s) - m - 1 : s[k] # "."
  BY <1>3, LookupIs DEF G
<1>5. Len(s) \in Nat /\ Len(s) # 0 BY DEF Str, IsName
<1>6. CASE m # Len(s)
  <2>1. PICK e : e = <<"*">> \o End(s, m) OBVIOUS
  <2>2. e \in Trie(G).nodes BY <1>4, <1>6, <2>1
  <2>3. PICK x \in G : \E n \in 0 .. Len(x) : e = End(x, n) BY <2>2, TrieIs
  <2>4. PICK n \in 0 .. Len(x) : e = End(x, n) BY <2>3
  <2>5. x \in Str /\ x \in R /\ x[1] = "!" /\ Len(x) \in Nat BY <1>1 DEF Str
  <2>6. End(s, m) \in Seq(STRING) BY <1>3, EndIs DEF Str
  <2>7. Len(e) >= 1 /\ e[1] = "*"
    <3>1. Len(End(s, m)) \in Nat BY <2>6
    <3> QED BY <2>1, <2>6, <3>1
  <2>8. Len(x) - n + 1 \in 1 .. Len(x) /\ x[Len(x) - n + 1] = "*"
    <3>1. n \in 1 .. Len(x) /\ 1 \in 1 .. n BY <2>4, <2>5, <2>7, EndIs
    <3>2. End(x, n)[1] = x[Len(x) - n + 1] BY <2>5, <3>1, EndIs
    <3> QED BY <2>4, <2>5, <2>7, <3>1, <3>2
  <2>9. Len(x) - n + 1 = 1 BY <2>5, <2>8 DEF WellFormed
  <2> QED BY <2>5, <2>8, <2>9
<1>7. CASE m = Len(s)
  <2>1. PICK x \in G : \E n \in 0 .. Len(x) : s = End(x, n) /\ EndsLookup(x, n) BY <1>4, <1>7, TrieIs
  <2>2. PICK n \in 0 .. Len(x) : s = End(x, n) /\ EndsLookup(x, n) BY <2>1
  <2>3. x \in Str /\ x \in R /\ x[1] = "!" /\ Len(x) \in Nat /\ x # <<>> BY <1>1 DEF Str
  <2>4. Len(s) = n /\ \A i \in 1 .. n : s[i] = x[Len(x) - n + i] BY <2>2, <2>3, EndIs
  <2> DEFINE e == Tail(x)
             j == Len(x) - n
  <2>5. /\ e = End(x, Len(x) - 1) /\ e \in Str /\ Len(e) = Len(x) - 1 /\ Len(x) \in Nat \ {0}
    BY <2>3, TailIs
  <2>6. \A i \in 1 .. Len(x) - 1 : e[i] = x[i + 1] BY <2>3, <2>5 DEF Str
  <2>7. e \in Exceptions(R) BY <2>3 DEF Exceptions
  <2> HIDE DEF e
  <2>8. n # Len(x)
    <3>1. SUFFICES ASSUME n = Len(x) PROVE FALSE OBVIOUS
    <3>2. s = x BY <2>2, <2>3, <3>1, WholeEnd
    <3>3. 1 \in 1 .. Len(s) BY <1>5
    <3> QED BY <2>3, <3>2, <3>3 DEF IsName
  <2>9. j \in 1 .. Len(x) /\ x[j] \in {".", "!"} BY <2>2, <2>3, <2>8 DEF EndsLookup
  <2>10. x[j] # "!"
    <3>1. SUFFICES ASSUME x[j] = "!" PROVE FALSE OBVIOUS
    <3>2. j = 1 BY <2>3, <2>9, <3>1 DEF WellFormed
    <3>3. n = Len(x) - 1 BY <2>3, <3>2
    <3> QED BY <2>2, <2>5, <2>7, <3>3
  <2>11. x[j] = "." /\ j # 1 BY <2>3, <2>9, <2>10
  <2> DEFINE i == j - 1
             D == LabelDots(e)
  <2>12. i \in 1 .. Len(e) /\ e[i] = "." /\ Len(e) - i = n /\ i + 1 = j
    <3>1. i \in 1 .. Len(x) - 1 /\ i + 1 = j /\ Len(x) - 1 - i = n BY <2>3, <2>9, <2>11
    <3> QED BY <2>5, <2>6, <2>11, <3>1
  <2>13. i \in D /\ D \in SUBSET (1 .. Len(e)) BY <2>12 DEF LabelDots
  <2>14. \A q \in 1 .. n : s[q] = e[i + q]
    <3>1. ASSUME NEW q \in 1 .. n
          PROVE  i + q \in 1 .. Len(x) - 1 /\ (i + q) + 1 = Len(x) - n + q
      BY <2>3, <2>5, <2>9, <2>12
    <3> QED BY <2>4, <2>6, <3>1
  <2> HIDE DEF i, D
  <2>15. i = Min(D) \/ i = Max(D) BY <2>7, <2>13 DEF ExceptionsUnderWildcards, D
  <2>16. CASE i = Max(D)
    <3>1. 1 \in Int /\ Len(e) \in Int BY <2>5
    <3>2. \A y \in D : Max(D) >= y BY <2>13, <3>1, HasLargest
    <3>3. ASSUME NEW q \in LabelDots(s) PROVE FALSE
      <4>1. q \in 1 .. n /\ s[q] = "." BY <2>4, <3>3 DEF LabelDots
      <4>2. i + q \in 1 .. Len(e) /\ e[i + q] = "." BY <2>5, <2>12, <2>14, <4>1
      <4>3. i + q \in D BY <4>2 DEF LabelDots, D
      <4>4. i >= i + q BY <2>16, <3>2, <4>3
      <4> QED BY <2>12, <4>1, <4>4
    <3> QED BY <3>3
  <2>17. CASE i = Min(D)
    <3>1. End(e, Len(e) - i + 1) \in Wildcards(R) BY <2>7, <2>17 DEF ExceptionsUnderWildcards, D
    <3>2. n + 1 \in 0 .. Len(e) /\ Len(e) - i + 1 = n + 1 BY <2>5, <2>12
    <3>3. PICK r \in R : r[1] = "*" /\ End(e, n + 1) = Tail(r) BY <3>1, <3>2 DEF Wildcards
    <3>4. r \in Str /\ Len(Tail(r)) = Len(r) - 1 /\ Len(r) \in Nat \ {0} BY TailIs
    <3>5. Len(End(e, n + 1)) = n + 1 /\ \A q \in 1 .. n + 1 : End(e, n + 1)[q] = e[Len(e) - (n + 1) + q]
      BY <2>5, <3>2, EndIs
    <3>6. Len(r) = n + 2
      <4>1. Len(r) - 1 = n + 1 BY <3>3, <3>4, <3>5
      <4>2. n \in Nat /\ Len(r) \in Nat BY <2>3, <3>4
      <4> QED BY <4>1, <4>2
    <3>7. ASSUME NEW q \in 1 .. n + 1 PROVE r[q + 1] = e[i - 1 + q]
      <4>1. q \in 1 .. Len(r) - 1 /\ Len(e) - (n + 1) + q = i - 1 + q BY <2>5, <2>12, <3>6
      <4>2. Tail(r)[q] = r[q + 1] BY <3>4, <4>1 DEF Str
      <4> QED BY <3>3, <3>5, <4>1, <4>2
    <3>8. r[2] = "."
      <4>1. 1 \in 1 .. n + 1 /\ i - 1 + 1 = i /\ 1 + 1 = 2 BY <2>12, <3>2
      <4> QED BY <2>12, <3>7, <4>1
    <3>9. ASSUME NEW q \in 1 .. n PROVE r[q + 2] = s[q]
      <4>1. q + 1 \in 1 .. n + 1 /\ (q + 1) + 1 = q + 2 /\ i - 1 + (q + 1) = i + q BY <2>12
      <4>2. r[(q + 1) + 1] = e[i - 1 + (q + 1)] BY <3>7, <4>1
      <4> QED BY <2>14, <4>1, <4>2
    <3>10. r = <<"*", ".">> \o s BY <2>4, <3>3, <3>4, <3>6, <3>8, <3>9, StarIs
    <3> QED BY <3>10
  <2> QED BY <2>15, <2>16, <2>17
<1> QED BY <1>6, <1>7

(***************************************************************************)
(* The walk stops at the public suffix.                                    *)
(***************************************************************************)

(* Where it stops, in terms of the list: all the ends from k on are        *)
(* listed, the one before them is not.                                     *)
Ends(R, k) ==
  /\ Reached(k)
  /\ \A d \in Dots : /\ d >= k => Listed(R, Tld(d))
                     /\ IsPrevious(d, k) => ~Listed(R, Tld(d))

LEMMA StopIs ==
  ASSUME LoadOK, WalkOK, phase = "done", ~TruncatedFound, IsName(host),
         WellFormed(rules), Unshadowed(rules)
  PROVE  /\ HostOK /\ rules \in SUBSET (Str \ {<<>>}) /\ sibling = Trie(Marked(rules))
         /\ \E k \in Int : /\ Ends(rules, k)
                           /\ tld_extracted = IF last = Null THEN NotFound ELSE Extracted
<1>1. HostOK BY DEF WalkOK
<1>2. /\ rules \in SUBSET (Str \ {<<>>}) /\ kid = Trie(Regulars(rules))
      /\ sibling = Trie(Marked(rules))
  BY RulesAre DEF LoadOK
<1>3. PICK k \in Int : Stopped(k) /\ tld_extracted = IF last = Null THEN NotFound ELSE Extracted
  BY DEF WalkOK, Plain, IsName
<1>4. ASSUME NEW d \in Dots PROVE TldExists(kid, Tld(d)) <=> Listed(rules, Tld(d))
  <2>1. Tld(d) \in Str BY <1>1, TldIs DEF Positions
  <2>2. IsName(Tld(d)) BY <1>1, TldIsName
  <2>3. PICK R : R = rules OBVIOUS
  <2> QED BY <1>2, <2>1, <2>2, <2>3, FoundIsListed, ListedIsFound
<1>5. Ends(rules, k) BY <1>3, <1>4 DEF Ends, Stopped, Reached
<1> QED BY <1>1, <1>2, <1>3, <1>5

(* What a list covers of a host is not before the place where the walk     *)
(* stops, unless it is the whole host.                                     *)
LEMMA NothingBefore ==
  ASSUME HostOK, NEW R \in SUBSET (Str \ {<<>>}), NEW k \in 1 .. Len(host) + 1, Ends(R, k),
         NEW d \in Dots, d < k
  PROVE  ~Covered(R, Tld(d))
<1> SUFFICES ASSUME Covered(R, Tld(d)) PROVE FALSE OBVIOUS
<1>1. Len(host) \in Nat \ {0} /\ Dots \in SUBSET (1 .. Len(host) - 1) BY DotsAre
<1>2. PICK c \in Positions : c < k /\ \A e \in Dots : e < k => e <= c BY HasPrevious
<1>3. d <= c /\ c \in Dots BY <1>1, <1>2 DEF Positions
<1>4. IsPrevious(c, k) BY <1>2, <1>3 DEF IsPrevious
<1>5. Listed(R, Tld(c)) BY <1>3, CoveredIsClosed DEF Positions
<1> QED BY <1>3, <1>4, <1>5 DEF Ends

LEMMA NoStarBefore ==
  ASSUME HostOK, IsName(host), NEW R \in SUBSET (Str \ {<<>>}), NEW k \in Dots, Ends(R, k),
         ~Covered(R, host)
  PROVE  <<"*", ".">> \o Tld(k) \notin R
<1> SUFFICES ASSUME <<"*", ".">> \o Tld(k) \in R PROVE FALSE OBVIOUS
<1>1. Len(host) \in Nat \ {0} /\ Dots \in SUBSET (1 .. Len(host) - 1) BY DotsAre
<1>2. k \in 1 .. Len(host) + 1 BY <1>1
<1>3. PICK c \in Positions : c < k /\ \A e \in Dots : e < k => e <= c BY <1>2, HasPrevious
<1>4. NextTo(c, k)
  <2>1. ASSUME NEW e \in Dots, c < e, e < k PROVE FALSE
    <3>1. e <= c BY <1>3, <2>1
    <3> QED BY <1>1, <2>1, <3>1 DEF Positions
  <2> QED BY <1>3, <2>1 DEF NextTo
<1>5. Covered(R, Tld(c)) BY <1>4, StarCovers DEF Covered
<1>6. c # 0 BY <1>5, TldZero
<1>7. c \in Dots BY <1>6 DEF Positions
<1> QED BY <1>2, <1>3, <1>5, <1>7, NothingBefore

LEMMA IsExceptionIs ==
  ASSUME HostOK, Beyond = 0, last \in Dots
  PROVE  IsException <=> TldExists(sibling, Tld(last))
<1>1. /\ Len(host) \in Nat \ {0} /\ last \in 1 .. Len(host) - 1 /\ Len(before) \in Nat
      /\ Len(host) - last \in 0 .. Len(host) - last
      /\ last + (Len(host) - last) = Len(host)
      /\ Len(host) - (Len(host) - last) + 1 = last + 1
  <2>1. Len(host) \in Nat \ {0} /\ last \in 1 .. Len(host) - 1 BY DotsAre
  <2>2. before \in Seq(STRING) BY DEF HostOK, Str
  <2>3. Len(before) \in Nat BY <2>2
  <2> QED BY <2>1, <2>3
<1>2. Slice(last, Len(host) - last) = SubSeq(host, last + 1, Len(host))
  <2>1. last \in 0 .. Len(host) BY <1>1
  <2> QED BY <1>1, <2>1, BufferIs
<1>3. Slice(last, Len(host) - last + Beyond) = Tld(last)
  <2>1. Len(host) - last + Beyond = Len(host) - last BY <1>1
  <2> QED BY <1>1, <1>2, <2>1 DEF Tld, End
<1>4. last >= -Len(before) BY <1>1
<1> QED BY <1>3, <1>4 DEF IsException

(* The public suffix when an exception matches *)
LEMMA WinnerSuffix ==
  ASSUME NEW R, host \notin Exceptions(R),
         NEW d \in Dots, Tld(d) \in Exceptions(R),
         \A e \in Dots : Tld(e) \in Exceptions(R) => e = d
  PROVE  PublicSuffixLen(R, host) = Max({Len(AfterFirstLabel(Tld(d)))})
<1> DEFINE winners == LabelEnds(host) \cap Exceptions(R)
<1>1. LabelEnds(host) = {host} \cup {Tld(e) : e \in Dots} BY DEF LabelEnds, Tld, Dots
<1>2. winners = {Tld(d)} BY <1>1
<1>3. {Len(AfterFirstLabel(s)) : s \in winners} = {Len(AfterFirstLabel(Tld(d)))} BY <1>2
<1>4. winners # {} BY <1>2
<1> QED BY <1>3, <1>4 DEF PublicSuffixLen

(* and when none does: the longest end that is covered, or the last label. *)
LEMMA PlainSuffix ==
  ASSUME HostOK, NEW R, host \notin Exceptions(R), \A e \in Dots : Tld(e) \notin Exceptions(R)
  PROVE  \E m \in Dots :
           /\ \A e \in Dots : e <= m
           /\ LastLabel(host) = Tld(m)
           /\ PublicSuffixLen(R, host) =
                Max({Len(s) : s \in {t \in {host} \cup {Tld(e) : e \in Dots} : Covered(R, t)} \cup {Tld(m)}})
<1>1. Len(host) \in Nat \ {0} /\ Dots \in SUBSET (1 .. Len(host) - 1) /\ Dots # {} BY DotsAre DEF HostOK
<1>2. Max(Dots) \in Dots /\ \A e \in Dots : Max(Dots) >= e
  <2>1. 1 \in Int /\ Len(host) - 1 \in Int BY <1>1
  <2> QED BY <1>1, <2>1, HasLargest, Zenon
<1>3. PICK m \in Dots : m = Max(Dots) BY <1>2
<1>4. \A e \in Dots : e <= m BY <1>1, <1>2, <1>3
<1>5. LastLabel(host) = Tld(m) BY <1>3 DEF LastLabel, Tld, Dots
<1>6. LabelEnds(host) = {host} \cup {Tld(e) : e \in Dots} BY DEF LabelEnds, Tld, Dots
<1>7. LabelEnds(host) \cap Exceptions(R) = {} BY <1>6
<1>8. PublicSuffixLen(R, host) =
        Max({Len(s) : s \in {t \in LabelEnds(host) : Covered(R, t)} \cup {LastLabel(host)}})
  BY <1>7 DEF PublicSuffixLen
<1> QED BY <1>4, <1>5, <1>6, <1>8

(* SuffixAgreement, for every list and host: faup_tld_tree_extract finds   *)
(* the public suffix of the host, as the algorithm that is published with  *)
(* the list defines it.                                                    *)
THEOREM TldIsPublicSuffix == TldSpec => []SuffixAgreement
<1>1. LoadOK /\ WalkOK => SuffixAgreement
  <2> SUFFICES ASSUME LoadOK, WalkOK, phase = "done", Beyond = 0,
                      WellFormed(rules), Unshadowed(rules), ParentsListed(rules),
                      ExceptionsUnderWildcards(rules), IsName(host), ~TruncatedFound,
                      host \notin Exceptions(rules), PublicSuffixLen(rules, host) < Len(host)
               PROVE  PublicSuffixLen(rules, host) =
                        IF tld_extracted = NotFound THEN Len(LastLabel(host)) ELSE tld_extracted.size
    BY DEF SuffixAgreement
  <2> DEFINE R == rules
             L == Len(host)
  <2>1. HostOK /\ R \in SUBSET (Str \ {<<>>}) /\ sibling = Trie(Marked(R)) BY StopIs
  <2>2. PICK k \in Int : Ends(R, k) /\ tld_extracted = IF last = Null THEN NotFound ELSE Extracted
    BY StopIs
  <2> HIDE DEF R
  <2>3. L \in Nat \ {0} /\ Dots \in SUBSET (1 .. L - 1) /\ Dots # {} BY <2>1, DotsAre DEF HostOK
  <2>4. k \in 2 .. L + 1 /\ k \in 1 .. L + 1 /\ (last = Null <=> k = L + 1)
    <3>1. host[1] # "." BY DEF IsName
    <3>2. k \in 2 .. L + 1 /\ (last = Null <=> k = L + 1) BY <2>1, <2>2, <3>1, ReachedIs DEF Ends
    <3> QED BY <2>3, <3>2
  <2>5. k # L + 1 => k \in Dots /\ last = k /\ last \in Dots /\ tld_len = L - last
    BY <2>2 DEF Ends, Reached
  <2>6. \A e \in Dots : Tld(e) \in Str /\ Len(Tld(e)) = L - e /\ Tld(e) # <<>>
    BY <2>1, TldIs DEF Positions
  <2>7. \A n : Extracted = [pos |-> n, size |-> L - n] /\ n \in Dots =>
               Extracted # NotFound /\ Extracted.size = L - n
    BY <2>3 DEF NotFound
  <2>8. CASE \E d \in Dots : Tld(d) \in Exceptions(R)
    <3>1. ASSUME NEW d \in Dots, Tld(d) \in Exceptions(R) PROVE d = k
      <4>1. CoveredByWildcard(R, Tld(d)) /\ \A c \in Dots : NextTo(c, d) => ~Listed(R, Tld(c))
        BY <2>1, <3>1, WinnerIs DEF R
      <4>2. ~(d < k) BY <2>1, <2>2, <2>4, <4>1, NothingBefore DEF Covered
      <4>3. SUFFICES ASSUME k < d PROVE FALSE BY <2>3, <4>2
      <4>4. d \in 1 .. L + 1 BY <2>3
      <4>5. PICK c \in Positions : c < d /\ \A e \in Dots : e < d => e <= c
        BY <2>1, <4>4, HasPrevious
      <4>6. k \in Dots BY <2>3, <2>5, <4>3
      <4>7. k <= c /\ c \in Dots BY <2>3, <2>4, <4>3, <4>5, <4>6 DEF Positions
      <4>8. NextTo(c, d)
        <5>1. ASSUME NEW e \in Dots, c < e, e < d PROVE FALSE
          <6>1. e <= c BY <4>5, <5>1
          <6> QED BY <2>3, <4>7, <5>1, <6>1
        <5> QED BY <4>5, <5>1 DEF NextTo
      <4>9. c >= k BY <2>3, <4>7
      <4> QED BY <2>2, <4>1, <4>7, <4>8, <4>9 DEF Ends
    <3>2. k \in Dots /\ Tld(k) \in Exceptions(R) BY <2>8, <3>1
    <3>3. PICK d1 \in Dots : NextTo(k, d1) /\ Min(LabelDots(Tld(k))) = d1 - k
      BY <2>1, <3>2, WinnerIs DEF R
    <3>4. k \in 1 .. L - 1 /\ d1 \in 1 .. L - 1 /\ k < d1 /\ k # L + 1 BY <2>3, <3>2, <3>3 DEF NextTo
    <3>5. PublicSuffixLen(R, host) = L - d1
      <4>1. PublicSuffixLen(R, host) = Max({Len(AfterFirstLabel(Tld(k)))})
        BY <3>1, <3>2, WinnerSuffix DEF R
      <4>2. Len(AfterFirstLabel(Tld(k))) = L - d1
        <5> DEFINE t == Tld(k)
        <5>1. t \in Seq(STRING) /\ Len(t) = L - k BY <2>6, <3>2 DEF Str
        <5> HIDE DEF t
        <5>2. AfterFirstLabel(t) = SubSeq(t, (d1 - k) + 1, L - k) BY <3>3, <5>1 DEF AfterFirstLabel, t
        <5>3. Len(SubSeq(t, (d1 - k) + 1, L - k)) = L - d1
          <6>1. (d1 - k) + 1 \in 1 .. L - k + 1 /\ (L - k) - ((d1 - k) + 1) + 1 = L - d1 BY <2>3, <3>4
          <6> QED BY <2>3, <3>4, <5>1, <6>1
        <5> QED BY <5>2, <5>3 DEF t
      <4>3. L - d1 \in Int BY <2>3, <3>4
      <4>4. {L - d1} \in SUBSET Int /\ \A y \in {L - d1} : y <= L - d1 BY <4>3
      <4>5. Max({L - d1}) = L - d1 BY <4>4, LargestIs
      <4> QED BY <4>1, <4>2, <4>5
    <3>6. IsException
      <4>1. TldExists(Trie(Marked(R)), Tld(k)) BY <2>1, <2>6, <3>2, ExceptionIsFound
      <4> QED BY <2>1, <2>5, <3>4, <4>1, IsExceptionIs
    <3>7. Extracted = [pos |-> d1, size |-> L - d1]
      <4>1. last = k /\ last \in Dots /\ tld_len = L - last BY <2>5, <3>4
      <4>2. ~(\A d \in Dots : d <= last) BY <3>4, <4>1
      <4>3. PICK d \in Dots : /\ d > last /\ \A e \in Dots : e > last => d <= e
                              /\ Extracted = [pos |-> d, size |-> L - d]
        BY <2>1, <3>6, <4>1, <4>2, ExtractedIs
      <4>4. d = d1
        <5>1. d <= d1 BY <3>4, <4>1, <4>3
        <5>2. ~(k < d /\ d < d1) BY <3>3 DEF NextTo
        <5> QED BY <2>3, <3>4, <4>1, <4>3, <5>1, <5>2
      <4> QED BY <4>3, <4>4
    <3>8. tld_extracted = Extracted BY <2>2, <2>4, <3>4
    <3> QED BY <2>7, <3>5, <3>7, <3>8 DEF R
  <2>9. CASE \A d \in Dots : Tld(d) \notin Exceptions(R)
    <3>1. PICK m \in Dots :
            /\ \A e \in Dots : e <= m
            /\ LastLabel(host) = Tld(m)
            /\ PublicSuffixLen(R, host) =
                 Max({Len(s) : s \in {t \in {host} \cup {Tld(e) : e \in Dots} : Covered(R, t)} \cup {Tld(m)}})
      BY <2>1, <2>9, PlainSuffix DEF R
    <3> DEFINE M == {t \in {host} \cup {Tld(e) : e \in Dots} : Covered(R, t)} \cup {Tld(m)}
               S == {Len(s) : s \in M}
    <3>2. \A t \in M : t = host \/ \E e \in Dots : t = Tld(e) OBVIOUS
    <3>3. S \in SUBSET (0 .. L) /\ S # {}
      <4>1. \A t \in M : Len(t) \in 0 .. L
        <5>1. \A e \in Dots : L - e \in 0 .. L BY <2>3
        <5>2. L \in 0 .. L BY <2>3
        <5> QED BY <2>6, <3>2, <5>1, <5>2
      <4>2. Tld(m) \in M OBVIOUS
      <4> QED BY <4>1, <4>2
    <3>4. PublicSuffixLen(R, host) = Max(S) BY <3>1
    <3>5. ~Covered(R, host)
      <4> SUFFICES ASSUME Covered(R, host) PROVE FALSE OBVIOUS
      <4>1. L \in S OBVIOUS
      <4>2. 0 \in Int /\ L \in Int BY <2>3
      <4> HIDE DEF S
      <4>3. Max(S) >= L /\ Max(S) \in S BY <3>3, <4>1, <4>2, HasLargest
      <4>4. Max(S) \in 0 .. L BY <3>3, <4>3
      <4>5. PublicSuffixLen(R, host) < L BY <2>1 DEF R
      <4>6. Max(S) < L BY <3>4, <4>5
      <4> QED BY <2>3, <4>3, <4>4, <4>6
    <3>6. \A t \in M : t = Tld(m) \/ \E e \in Dots : t = Tld(e) /\ Covered(R, Tld(e)) BY <3>5
    <3>7. \A e \in Dots : Covered(R, Tld(e)) => ~(e < k) BY <2>1, <2>2, <2>4, NothingBefore
    <3>8. CASE k = L + 1
      <4>1. \A e \in Dots : e < k BY <2>3, <3>8
      <4>2. \A t \in M : t = Tld(m) BY <3>6, <3>7, <4>1
      <4>3. S = {L - m} BY <2>6, <4>2
      <4>4. L - m \in Int BY <2>3
      <4>5. {L - m} \in SUBSET Int /\ \A y \in {L - m} : y <= L - m BY <4>4
      <4>6. Max({L - m}) = L - m BY <4>5, LargestIs
      <4>7. tld_extracted = NotFound BY <2>2, <2>4, <3>8
      <4>8. Len(LastLabel(host)) = L - m BY <2>6, <3>1
      <4> QED BY <3>4, <4>3, <4>6, <4>7, <4>8 DEF R
    <3>9. CASE k # L + 1
      <4>1. k \in Dots /\ last = k /\ last \in Dots /\ tld_len = L - last BY <2>5, <3>9
      <4>2. <<"*", ".">> \o Tld(k) \notin R BY <2>1, <2>2, <3>5, <4>1, NoStarBefore
      <4>3. Covered(R, Tld(k)) \/ k = m
        <5>1. SUFFICES ASSUME k # m PROVE Covered(R, Tld(k)) OBVIOUS
        <5>2. m > k BY <2>3, <3>1, <4>1, <5>1
        <5>3. m - k \in LabelDots(Tld(k)) BY <2>1, <4>1, <5>2, TldDots DEF Positions
        <5>4. Listed(R, Tld(k)) BY <2>2, <2>4, <4>1 DEF Ends
        <5>5. CASE CoveredByWildcard(R, Tld(k)) BY <5>5 DEF Covered
        <5>6. CASE \E r \in R : Regular(r) /\ Tld(k) \in LabelEnds(r)
          <6>1. LabelDots(Tld(k)) # {} BY <5>3
          <6>2. Covered(R, Tld(k)) \/ <<"*", ".">> \o Tld(k) \in R
            BY <5>6, <6>1 DEF ParentsListed, R
          <6> QED BY <4>2, <6>2
        <5> QED BY <5>4, <5>5, <5>6 DEF Listed
      <4>4. L - k \in S
        <5>1. Tld(k) \in M BY <4>1, <4>3
        <5> QED BY <2>6, <4>1, <5>1
      <4>5. \A y \in S : y <= L - k
        <5>1. ASSUME NEW t \in M PROVE Len(t) <= L - k
          <6>1. PICK e \in Dots : t = Tld(e) /\ ~(e < k)
            <7>1. ~(m < k) BY <2>3, <3>1, <4>1
            <7> QED BY <3>6, <3>7, <7>1
          <6> QED BY <2>3, <2>6, <4>1, <6>1
        <5> QED BY <5>1
      <4>6. Max(S) = L - k
        <5>1. S \in SUBSET Int BY <3>3
        <5> HIDE DEF S
        <5> QED BY <4>4, <4>5, <5>1, LargestIs
      <4>7. Extracted = [pos |-> k, size |-> L - k]
        <5>1. ~IsException \/ \A d \in Dots : d <= last
          <6>1. SUFFICES ASSUME IsException, NEW d \in Dots, ~(d <= last) PROVE FALSE OBVIOUS
          <6>2. TldExists(Trie(Marked(R)), Tld(k)) BY <2>1, <4>1, <6>1, IsExceptionIs
          <6>3. Tld(k) \in Str /\ IsName(Tld(k)) /\ Tld(k) \notin Exceptions(R)
            BY <2>1, <2>6, <2>9, <4>1, TldIsName
          <6>4. LabelDots(Tld(k)) = {}
            BY <2>1, <4>2, <6>2, <6>3, FoundIsException DEF R
          <6>5. d > k BY <2>3, <4>1, <6>1
          <6>6. d - k \in LabelDots(Tld(k)) BY <2>1, <4>1, <6>5, TldDots DEF Positions
          <6> QED BY <6>4, <6>6
        <5>2. \A d \in Dots : ~(d > last) \/ ~IsException
          <6>1. ASSUME NEW d \in Dots, d > last, d <= last PROVE FALSE
            <7>1. d \in Int /\ last \in Int BY <2>3, <4>1
            <7> QED BY <6>1, <7>1
          <6> QED BY <5>1, <6>1
        <5>3. Extracted = [pos |-> last, size |-> L - last]
          BY <2>1, <4>1, <5>2, ExtractedIs
        <5> QED BY <4>1, <5>3
      <4>8. tld_extracted = Extracted BY <2>2, <2>4, <3>9
      <4> QED BY <2>7, <3>4, <4>1, <4>6, <4>7, <4>8 DEF R
    <3> QED BY <3>8, <3>9
  <2> QED BY <2>8, <2>9
<1> QED BY <1>1, TreeInvariant, WalkInvariant, PTL

=============================================================================
