---------------------------- MODULE ArchiveProofs ----------------------------
(***************************************************************************)
(* An archive that is written in place, for any files to add, of any size, *)
(* and any window: a reader that is not refused finds what was added, and  *)
(* what was added stays there for readers to find.                         *)
(***************************************************************************)
EXTENDS Archive, SequenceTheorems, WellFoundedInduction, TLAPS

Plain == {"local", "data", "descriptor"}
StreamLen(n) == Sizes[n] + 2

(* Entries of a directory whose data is in the file, before position s *)
Holds(f, e, s) ==
  /\ e \in [kind : {"entry"}, name : DOMAIN Sizes, at : Nat]
  /\ e.at + 2 + Sizes[e.name] <= s
  /\ f[e.at + 1] = Local(e.name)
  /\ \A i \in 1 .. Sizes[e.name] : f[e.at + 1 + i] = Data(e.name)[i]

IsDir(f, dir, s) ==
  /\ Len(dir) \in Nat /\ dir = [i \in 1 .. Len(dir) |-> dir[i]]
  /\ \A i \in 1 .. Len(dir) : Holds(f, dir[i], s)

IsFile(f) == Len(f) \in Nat /\ f = [i \in 1 .. Len(f) |-> f[i]]

(* Data up to s, for the entries of dir *)
Settled(f, s, dir) ==
  /\ IsFile(f) /\ s \in 0 .. Len(f) /\ \A i \in 1 .. s : f[i].kind \in Plain
  /\ IsDir(f, dir, s)

(* Behind s: a directory and its end record, *)
EndCell(s, dir, i) == IF i = s + Len(dir) + 1 THEN End(s, Len(dir)) ELSE dir[i - s]
EndAt(s, dir) == s + Len(dir) + 1

(* a file that is added there, and then the directory with its entry. *)
Larger(s, dir, n) == Append(dir, Entry(n, s))
Behind(s, n) == s + StreamLen(n)
NewEnd(s, dir, n) == Behind(s, n) + Len(dir) + 2

NewCell(s, dir, n, i) ==
  IF i <= Behind(s, n) THEN AddStream(n)[i - s]
  ELSE EndCell(Behind(s, n), Larger(s, dir, n), i)

(* The file while n is added, and when the directory is put back: what was *)
(* written up to p, and behind it what was there before.                   *)
OnTheWay(f, s, dir, n, p) ==
  /\ p \in s .. NewEnd(s, dir, n) /\ p <= Len(f)
  /\ \A i \in s + 1 .. p : f[i] = NewCell(s, dir, n, i)
  /\ Len(dir) # 0 => EndAt(s, dir) <= Len(f)
  /\ \A i \in p + 1 .. Len(f) :
       Len(dir) # 0 /\ i <= EndAt(s, dir) /\ f[i] = EndCell(s, dir, i)

PutBack(f, s, dir, p) ==
  /\ p \in s .. EndAt(s, dir) /\ p <= Len(f)
  /\ \A i \in s + 1 .. p : f[i] = EndCell(s, dir, i)
  /\ \A i \in p + 1 .. Len(f) :
       f[i].kind \in Plain \/ (i <= EndAt(s, dir) /\ f[i] = EndCell(s, dir, i))

Whole(f, s, dir) == Settled(f, s, dir) /\ PutBack(f, s, dir, EndAt(s, dir))

(***************************************************************************)
(* The inductive invariant.                                                *)
(***************************************************************************)
IsWriter(v) ==
  v \in [at : {"between", "add", "finalize", "close", "dead"}, todo : SUBSET DOMAIN Sizes,
         name : {v.name}, size : Nat, dir : {v.dir}, buf : {v.buf}, pos : Nat, left : {v.left},
         created : BOOLEAN, ok : BOOLEAN]

IsReader(v) ==
  v \in [at : {"none", "located", "extract", "done"}, size : Nat, end : Nat, dir : {v.dir},
         got : {v.got}]

(* What is in the buffer and what is left go to the positions behind pos. *)
Target(v, s, dir, i) == IF v.ok THEN NewCell(s, dir, v.name, i) ELSE EndCell(s, dir, i)

ToWrite(v, s, dir, end) ==
  /\ IsFile(v.buf) /\ IsFile(v.left)
  /\ v.pos + Len(v.buf) + Len(v.left) = end
  /\ \A i \in 1 .. Len(v.buf) : v.buf[i] = Target(v, s, dir, v.pos + i)
  /\ \A i \in 1 .. Len(v.left) : v.left[i] = Target(v, s, dir, v.pos + Len(v.buf) + i)

Begins(first, dir) ==
  /\ Len(first) <= Len(dir)
  /\ \A i \in 1 .. Len(first) : first[i] = dir[i]

(* The writer v adds to the file f, of which a reader may have read the    *)
(* directory "first",                                                      *)
Adds(v, f, first, s, dir) ==
  /\ v.ok
  /\ IF v.at = "add" THEN v.size = s /\ v.dir = dir
     ELSE v.size = Behind(s, v.name) /\ v.dir = Larger(s, dir, v.name)
  /\ OnTheWay(f, s, dir, v.name, v.pos)
  /\ ToWrite(v, s, dir, IF v.at = "add" THEN Behind(s, v.name) ELSE NewEnd(s, dir, v.name))
  /\ v.at = "close" => v.pos = NewEnd(s, dir, v.name)
  /\ Begins(first, IF v.pos = NewEnd(s, dir, v.name) THEN Larger(s, dir, v.name) ELSE dir)

(* or, after a failure, writes the directory of before.                    *)
Restores(v, f, first, s, dir) ==
  /\ ~v.ok /\ v.at = "finalize" /\ v.size = s /\ v.dir = dir
  /\ PutBack(f, s, dir, v.pos)
  /\ ToWrite(v, s, dir, EndAt(s, dir))
  /\ Begins(first, dir)

Busy ==
  \E s \in Nat : \E dir :
    /\ Settled(file, s, dir) /\ NamesIn(dir) = added
    /\ w.created <=> Len(dir) = 0
    /\ w.name \in DOMAIN Sizes
    /\ Adds(w, file, r.dir, s, dir) \/ Restores(w, file, r.dir, s, dir)

(* Every end record that a reader may come upon has, if entries are where  *)
(* it says, a directory of files that were added.                          *)
OfAdded(dir, names) ==
  IsPrefix(NamesIn(dir), names) \/ \E n \in DOMAIN Sizes : NamesIn(dir) = Append(names, n)

Valid(f, i) ==
  f[i].kind = "end" /\ \A k \in 1 .. f[i].total : f[f[i].at + k].kind = "entry"

Leads(f, i, dir) ==
  /\ f[i].at \in Nat /\ f[i].total = Len(dir)
  /\ \A k \in 1 .. Len(dir) : f[f[i].at + k] = dir[k]

EndsGood(f, names) ==
  \A i \in 1 .. Len(f) : Valid(f, i) =>
    \E dir : IsDir(f, dir, Len(f)) /\ OfAdded(dir, names) /\ Leads(f, i, dir)

Ready ==
  /\ exists => \E s \in Nat : \E dir :
                 /\ Whole(file, s, dir) /\ NamesIn(dir) = added /\ Len(file) = EndAt(s, dir) /\ Len(dir) # 0
                 /\ Begins(r.dir, dir)
  /\ ~exists => Len(file) = 0 /\ added = <<>> /\ Len(r.dir) = 0

Over ==
  /\ ~torn /\ added # <<>> => \E s \in Nat : \E dir : Whole(file, s, dir) /\ NamesIn(dir) = added
  /\ w.at = "close" /\ w.created => added = <<>>

WriterOK ==
  /\ IsWriter(w)
  /\ IF w.at \in {"add", "finalize"} \/ (w.at = "close" /\ w.ok) THEN Busy
     ELSE IF w.at = "between" /\ w.todo # {} THEN Ready
     ELSE Over

ReaderOK ==
  /\ IsReader(r)
  /\ r.at \in {"none", "located"} => r.got = <<>>
  /\ r.at = "located" => r.end \in 1 .. Len(file) /\ r.size \in 0 .. Len(file)
  /\ IsDir(file, r.dir, Len(file)) /\ OfAdded(r.dir, added)
  /\ IsFile(r.got) /\ Len(r.got) <= Len(r.dir)
  /\ \A i \in 1 .. Len(r.got) : r.got[i] = Data(r.dir[i].name)

ArchiveOK == IsFile(file) /\ WriterOK /\ ReaderOK /\ EndsGood(file, added)

(***************************************************************************)
(* Sequences.                                                              *)
(***************************************************************************)
LEMMA FileIsSeq ==
  ASSUME NEW f, IsFile(f)
  PROVE  f \in Seq({f[i] : i \in 1 .. Len(f)}) /\ DOMAIN f = 1 .. Len(f)
<1>1. f \in [1 .. Len(f) -> {f[i] : i \in 1 .. Len(f)}] BY DEF IsFile
<1> QED BY <1>1 DEF IsFile

LEMMA FilesEqual ==
  ASSUME NEW f, NEW g, IsFile(f), IsFile(g), Len(f) = Len(g), \A i \in 1 .. Len(f) : f[i] = g[i]
  PROVE  f = g
<1>1. [i \in 1 .. Len(f) |-> f[i]] = [i \in 1 .. Len(g) |-> g[i]] OBVIOUS
<1> QED BY <1>1 DEF IsFile

LEMMA FunctionIsFile ==
  ASSUME NEW n \in Nat, NEW f, f = [i \in 1 .. n |-> f[i]]
  PROVE  IsFile(f) /\ Len(f) = n
<1>1. f \in [1 .. n -> {f[i] : i \in 1 .. n}] OBVIOUS
<1>2. f \in Seq({f[i] : i \in 1 .. n}) BY <1>1
<1>3. Len(f) \in Nat /\ DOMAIN f = 1 .. Len(f) BY <1>2, LenProperties
<1>4. Len(f) = n BY <1>1, <1>3
<1> QED BY <1>4 DEF IsFile

LEMMA EmptyIsFile == IsFile(<<>>) /\ Len(<<>>) = 0
BY DEF IsFile

LEMMA AppendedFile ==
  ASSUME NEW f, IsFile(f), NEW c
  PROVE  /\ IsFile(Append(f, c)) /\ Len(Append(f, c)) = Len(f) + 1
         /\ \A i \in 1 .. Len(f) : Append(f, c)[i] = f[i]
         /\ Append(f, c)[Len(f) + 1] = c
<1> DEFINE S == {f[i] : i \in 1 .. Len(f)} \cup {c}
           g == Append(f, c)
<1>1. f \in Seq(S)
  <2>1. f \in [1 .. Len(f) -> S] BY DEF IsFile
  <2> QED BY <2>1 DEF IsFile
<1>2. /\ g \in Seq(S) /\ Len(g) = Len(f) + 1
      /\ \A i \in 1 .. Len(f) : g[i] = f[i]
      /\ g[Len(f) + 1] = c
  BY <1>1, AppendProperties DEF IsFile
<1>3. g \in [1 .. Len(g) -> S] /\ Len(g) \in Nat BY <1>2, LenProperties
<1>4. IsFile(g) BY <1>3 DEF IsFile
<1> QED BY <1>2, <1>4

LEMMA ConcatenatedFile ==
  ASSUME NEW f, NEW g, IsFile(f), IsFile(g)
  PROVE  /\ IsFile(f \o g) /\ Len(f \o g) = Len(f) + Len(g)
         /\ \A i \in 1 .. Len(f) : (f \o g)[i] = f[i]
         /\ \A i \in 1 .. Len(g) : (f \o g)[Len(f) + i] = g[i]
<1> DEFINE S == {f[i] : i \in 1 .. Len(f)} \cup {g[i] : i \in 1 .. Len(g)}
           h == f \o g
<1>1. f \in Seq(S) /\ g \in Seq(S)
  <2>1. f \in [1 .. Len(f) -> S] /\ g \in [1 .. Len(g) -> S] BY DEF IsFile
  <2> QED BY <2>1 DEF IsFile
<1>2. /\ h \in Seq(S) /\ Len(h) = Len(f) + Len(g)
      /\ \A i \in 1 .. Len(f) + Len(g) : h[i] = IF i <= Len(f) THEN f[i] ELSE g[i - Len(f)]
  BY <1>1, ConcatProperties
<1> HIDE DEF h
<1>3. h \in [1 .. Len(h) -> S] /\ Len(h) \in Nat BY <1>2, LenProperties
<1>4. IsFile(h) BY <1>3 DEF IsFile
<1>5. \A i \in 1 .. Len(f) : h[i] = f[i] BY <1>2 DEF IsFile
<1>6. \A i \in 1 .. Len(g) : h[Len(f) + i] = g[i]
  <2>1. ASSUME NEW i \in 1 .. Len(g) PROVE h[Len(f) + i] = g[i]
    <3>1. Len(f) + i \in 1 .. Len(f) + Len(g) /\ ~(Len(f) + i <= Len(f)) /\ Len(f) + i - Len(f) = i
      BY DEF IsFile
    <3> QED BY <1>2, <3>1
  <2> QED BY <2>1
<1> QED BY <1>2, <1>4, <1>5, <1>6 DEF h

LEMMA CutFile ==
  ASSUME NEW f, IsFile(f), NEW a \in Nat, NEW n \in Nat, a + n <= Len(f)
  PROVE  /\ IsFile(Cells(f, a, n)) /\ Len(Cells(f, a, n)) = n
         /\ \A i \in 1 .. n : Cells(f, a, n)[i] = f[a + i]
<1> DEFINE S == {f[i] : i \in 1 .. Len(f)}
           g == SubSeq(f, a + 1, a + n)
<1>1. Len(f) \in Nat BY DEF IsFile
<1>2. \A i \in a + 1 .. a + n : f[i] \in S BY <1>1
<1> HIDE DEF S
<1>3. /\ g \in Seq(S)
      /\ Len(g) = IF a + 1 <= a + n THEN a + n - (a + 1) + 1 ELSE 0
      /\ \A i \in 1 .. a + n - (a + 1) + 1 : g[i] = f[a + 1 + i - 1]
  BY <1>2, SubSeqProperties
<1> HIDE DEF g
<1>4. Len(g) = n BY <1>3
<1>5. ASSUME NEW i \in 1 .. n PROVE g[i] = f[a + i]
  <2>1. i \in 1 .. a + n - (a + 1) + 1 /\ a + 1 + i - 1 = a + i OBVIOUS
  <2> QED BY <1>3, <2>1
<1>6. g \in [1 .. Len(g) -> S] /\ Len(g) \in Nat BY <1>3, LenProperties
<1>7. IsFile(g) BY <1>6 DEF IsFile
<1> QED BY <1>4, <1>5, <1>7 DEF Cells, g

LEMMA TailOfFile ==
  ASSUME NEW f, IsFile(f), f # <<>>
  PROVE  /\ Len(f) >= 1 /\ Head(f) = f[1]
         /\ IsFile(Tail(f)) /\ Len(Tail(f)) = Len(f) - 1
         /\ \A i \in 1 .. Len(f) - 1 : Tail(f)[i] = f[i + 1]
<1> DEFINE S == {f[i] : i \in 1 .. Len(f)}
           g == Tail(f)
<1>1. f \in Seq(S) /\ Len(f) \in Nat BY FileIsSeq DEF IsFile
<1> HIDE DEF S
<1>2. Len(f) >= 1 BY <1>1, EmptySeq, LenProperties
<1>3. /\ Head(f) = f[1] /\ g \in Seq(S) /\ Len(g) = Len(f) - 1
      /\ \A i \in 1 .. Len(g) : g[i] = f[i + 1]
  BY <1>1, HeadTailProperties
<1> HIDE DEF g
<1>4. g \in [1 .. Len(g) -> S] /\ Len(g) \in Nat BY <1>3, LenProperties
<1>5. IsFile(g) BY <1>4 DEF IsFile
<1> QED BY <1>2, <1>3, <1>5 DEF g

LEMMA MaxIs ==
  ASSUME NEW S \in SUBSET Nat, NEW m \in S, \A x \in S : m >= x
  PROVE  Max(S) = m
<1>1. \E x \in S : \A y \in S : x >= y OBVIOUS
<1>2. Max(S) \in S /\ \A y \in S : Max(S) >= y BY <1>1, Zenon DEF Max
<1>3. PICK x : x = Max(S) OBVIOUS
<1>4. x \in Nat /\ x >= m /\ m >= x BY <1>2, <1>3
<1> QED BY <1>3, <1>4

(* The numbers up to n have a largest *)
LEMMA HasMax ==
  ASSUME NEW n \in Nat, NEW S \in SUBSET (0 .. n), S # {}
  PROVE  Max(S) \in S /\ \A x \in S : Max(S) >= x
<1> DEFINE T == {n - x : x \in S}
<1>1. T \subseteq Nat /\ T # {}
  <2>1. \A x \in S : n - x \in Nat OBVIOUS
  <2>2. \E x : x \in S OBVIOUS
  <2> QED BY <2>1, <2>2
<1>2. PICK m \in T : \A y \in T : ~(<<y, m>> \in OpToRel(<, Nat))
  BY <1>1, NatLessThanWellFounded, WFMin, Zenon
<1>3. ASSUME NEW y \in T PROVE m <= y
  <2> HIDE DEF T
  <2>1. y \in Nat /\ m \in Nat BY <1>1, <1>2
  <2>2. ~(y < m)
    <3>1. <<y, m>> \notin OpToRel(<, Nat) BY <1>2
    <3> QED BY <2>1, <3>1 DEF OpToRel
  <2> QED BY <2>1, <2>2
<1>4. PICK x \in S : m = n - x OBVIOUS
<1>5. ASSUME NEW y \in S PROVE x >= y
  <2>1. m <= n - y BY <1>3
  <2> QED BY <1>4, <2>1
<1>6. \E z \in S : \A y \in S : z >= y BY <1>5
<1> QED BY <1>6, Zenon DEF Max

LEMMA OverwrittenFile ==
  ASSUME NEW f, IsFile(f), NEW cells, IsFile(cells), NEW p \in 0 .. Len(f)
  PROVE  /\ IsFile(Overwritten(f, p, cells))
         /\ Len(f) <= Len(Overwritten(f, p, cells))
         /\ p + Len(cells) <= Len(Overwritten(f, p, cells))
         /\ \A i \in 1 .. p : Overwritten(f, p, cells)[i] = f[i]
         /\ \A i \in 1 .. Len(cells) : Overwritten(f, p, cells)[p + i] = cells[i]
         /\ \A i \in p + Len(cells) + 1 .. Len(Overwritten(f, p, cells)) :
              i <= Len(f) /\ Overwritten(f, p, cells)[i] = f[i]
<1> DEFINE n == Max({Len(f), p + Len(cells)})
           g == [i \in 1 .. n |-> IF i \in p + 1 .. p + Len(cells) THEN cells[i - p] ELSE f[i]]
<1>1. Len(f) \in Nat /\ Len(cells) \in Nat BY DEF IsFile
<1>2. n = IF Len(f) >= p + Len(cells) THEN Len(f) ELSE p + Len(cells)
  <2>1. CASE Len(f) >= p + Len(cells) BY <1>1, <2>1, MaxIs
  <2>2. CASE ~(Len(f) >= p + Len(cells)) BY <1>1, <2>2, MaxIs
  <2> QED BY <2>1, <2>2
<1> HIDE DEF n
<1>3. n \in Nat BY <1>1, <1>2
<1>4. IsFile(g) /\ Len(g) = n BY <1>3, FunctionIsFile
<1>5. Overwritten(f, p, cells) = g BY DEF Overwritten, n
<1>6. \A i \in 1 .. n : g[i] = IF i \in p + 1 .. p + Len(cells) THEN cells[i - p] ELSE f[i] OBVIOUS
<1> HIDE DEF g
<1>7. \A i \in 1 .. p : g[i] = f[i] BY <1>1, <1>2, <1>6
<1>8. ASSUME NEW i \in 1 .. Len(cells) PROVE g[p + i] = cells[i]
  <2>1. p + i \in 1 .. n /\ p + i \in p + 1 .. p + Len(cells) /\ p + i - p = i BY <1>1, <1>2
  <2> QED BY <1>6, <2>1
<1>9. \A i \in p + Len(cells) + 1 .. n : i <= Len(f) /\ g[i] = f[i] BY <1>1, <1>2, <1>6
<1> QED BY <1>1, <1>2, <1>4, <1>5, <1>7, <1>8, <1>9

(***************************************************************************)
(* Cells.                                                                  *)
(***************************************************************************)
LEMMA StreamCells ==
  ASSUME NEW n \in DOMAIN Sizes
  PROVE  /\ IsFile(AddStream(n)) /\ Len(AddStream(n)) = StreamLen(n) /\ StreamLen(n) \in Nat \ {0, 1, 2}
         /\ AddStream(n)[1] = Local(n)
         /\ \A i \in 1 .. Sizes[n] : AddStream(n)[1 + i] = Data(n)[i]
         /\ \A i \in 1 .. StreamLen(n) : AddStream(n)[i].kind \in Plain
<1> DEFINE first == <<Local(n)>>
           last == <<Descriptor(n)>>
           front == first \o Data(n)
           stream == front \o last
<1>1. Sizes[n] \in Nat \ {0} BY SizesAssumption
<1>2. /\ IsFile(first) /\ Len(first) = 1 /\ first[1] = Local(n)
      /\ IsFile(last) /\ Len(last) = 1 /\ last[1] = Descriptor(n)
  BY DEF IsFile
<1>3. /\ IsFile(Data(n)) /\ Len(Data(n)) = Sizes[n]
      /\ \A i \in 1 .. Sizes[n] : Data(n)[i].kind = "data"
  BY <1>1, FunctionIsFile DEF Data
<1> HIDE DEF first, last
<1>4. /\ IsFile(front) /\ Len(front) = 1 + Sizes[n] /\ front[1] = Local(n)
      /\ \A i \in 1 .. Sizes[n] : front[1 + i] = Data(n)[i]
  <2>8. PICK a, b : a = first /\ b = Data(n) OBVIOUS
  <2>1. /\ IsFile(a \o b) /\ Len(a \o b) = Len(a) + Len(b)
        /\ \A i \in 1 .. Len(a) : (a \o b)[i] = a[i]
    BY <1>2, <1>3, <2>8, ConcatenatedFile
  <2>2. \A i \in 1 .. Len(b) : (a \o b)[Len(a) + i] = b[i]
    BY <1>2, <1>3, <2>8, ConcatenatedFile
  <2>3. front = a \o b BY <2>8
  <2>4. Len(a) = 1 /\ a[1] = Local(n) /\ Len(b) = Sizes[n] BY <1>2, <1>3, <2>8
  <2> HIDE DEF front
  <2>5. IsFile(front) /\ Len(front) = 1 + Sizes[n] BY <2>1, <2>3, <2>4
  <2>6. front[1] = Local(n)
    <3>1. 1 \in 1 .. Len(a) BY <2>4
    <3> QED BY <2>1, <2>3, <2>4, <3>1
  <2>7. \A i \in 1 .. Sizes[n] : front[1 + i] = Data(n)[i] BY <2>8, <2>2, <2>3, <2>4
  <2> QED BY <2>5, <2>6, <2>7
<1> HIDE DEF front
<1>5. /\ IsFile(stream) /\ Len(stream) = StreamLen(n)
      /\ \A i \in 1 .. 1 + Sizes[n] : stream[i] = front[i]
      /\ stream[1 + Sizes[n] + 1] = Descriptor(n)
  <2>1. /\ IsFile(front \o last) /\ Len(front \o last) = Len(front) + Len(last)
        /\ \A i \in 1 .. Len(front) : (front \o last)[i] = front[i]
    BY <1>2, <1>4, ConcatenatedFile
  <2>2. \A i \in 1 .. Len(last) : (front \o last)[Len(front) + i] = last[i]
    BY <1>2, <1>4, ConcatenatedFile
  <2>3. stream = front \o last OBVIOUS
  <2> HIDE DEF stream
  <2> QED BY <1>1, <1>2, <1>4, <2>1, <2>2, <2>3 DEF StreamLen
<1>6. AddStream(n) = stream BY DEF AddStream, first, front, last
<1> HIDE DEF stream
<1>7. stream[1] = Local(n) /\ \A i \in 1 .. Sizes[n] : stream[1 + i] = Data(n)[i]
  BY <1>1, <1>4, <1>5
<1>8. ASSUME NEW i \in 1 .. StreamLen(n) PROVE stream[i].kind \in Plain
  <2>1. i = 1 \/ i = 1 + Sizes[n] + 1 \/ \E k \in 1 .. Sizes[n] : i = 1 + k
    <3>1. i = 1 \/ i = 1 + Sizes[n] + 1 \/ i - 1 \in 1 .. Sizes[n] BY <1>1 DEF StreamLen
    <3> QED BY <1>1, <3>1
  <2>2. Local(n).kind = "local" /\ Descriptor(n).kind = "descriptor" BY DEF Local, Descriptor
  <2> QED BY <1>3, <1>5, <1>7, <2>1, <2>2 DEF Plain
<1>9. StreamLen(n) \in Nat \ {0, 1, 2} BY <1>1 DEF StreamLen
<1> QED BY <1>5, <1>6, <1>7, <1>8, <1>9

LEMMA DirCells ==
  ASSUME NEW f, NEW dir, NEW t, IsDir(f, dir, t), NEW s \in Nat
  PROVE  /\ IsFile(dir)
         /\ \A k \in 1 .. Len(dir) : /\ EndCell(s, dir, s + k) = dir[k] /\ dir[k].kind = "entry"
                                     /\ dir[k] = Entry(dir[k].name, dir[k].at)
         /\ EndCell(s, dir, EndAt(s, dir)) = End(s, Len(dir))
         /\ End(s, Len(dir)).kind = "end" /\ End(s, Len(dir)).at = s
         /\ End(s, Len(dir)).total = Len(dir)
<1>1. IsFile(dir) /\ Len(dir) \in Nat BY DEF IsDir, IsFile
<1>2. ASSUME NEW k \in 1 .. Len(dir)
      PROVE  EndCell(s, dir, s + k) = dir[k]
  BY <1>1 DEF EndCell
<1>3. ASSUME NEW k \in 1 .. Len(dir)
      PROVE  dir[k].kind = "entry" /\ dir[k] = Entry(dir[k].name, dir[k].at)
  BY DEF IsDir, Holds, Entry
<1> QED BY <1>1, <1>2, <1>3 DEF EndCell, EndAt, End

LEMMA EndingCells ==
  ASSUME NEW dir, IsFile(dir), NEW s \in Nat,
         \A i \in 1 .. Len(dir) : dir[i] = Entry(dir[i].name, dir[i].at)
  PROVE  /\ IsFile(Ending(s, dir)) /\ Len(Ending(s, dir)) = Len(dir) + 1
         /\ \A i \in 1 .. Len(dir) + 1 : Ending(s, dir)[i] = EndCell(s, dir, s + i)
<1>1. IsFile(dir) /\ Len(dir) \in Nat BY DEF IsFile
<1>2. DOMAIN dir = 1 .. Len(dir) BY <1>1, FileIsSeq
<1>3. /\ IsFile(Entries(dir)) /\ Len(Entries(dir)) = Len(dir)
      /\ \A i \in 1 .. Len(dir) : Entries(dir)[i] = dir[i]
  <2>1. Entries(dir) = [i \in 1 .. Len(dir) |-> Entry(dir[i].name, dir[i].at)]
    BY <1>2 DEF Entries
  <2>2. \A i \in 1 .. Len(dir) : Entries(dir)[i] = Entry(dir[i].name, dir[i].at) BY <2>1
  <2>3. Entries(dir) = [i \in 1 .. Len(dir) |-> Entries(dir)[i]] BY <2>1
  <2>4. IsFile(Entries(dir)) /\ Len(Entries(dir)) = Len(dir) BY <1>1, <2>3, FunctionIsFile
  <2> QED BY <2>2, <2>4
<1>4. PICK entries : entries = Entries(dir) OBVIOUS
<1>5. /\ IsFile(Append(entries, End(s, Len(dir))))
      /\ Len(Append(entries, End(s, Len(dir)))) = Len(dir) + 1
      /\ \A i \in 1 .. Len(dir) : Append(entries, End(s, Len(dir)))[i] = dir[i]
      /\ Append(entries, End(s, Len(dir)))[Len(dir) + 1] = End(s, Len(dir))
  BY <1>3, <1>4, AppendedFile
<1>6. Ending(s, dir) = Append(entries, End(s, Len(dir))) BY <1>4 DEF Ending
<1>7. ASSUME NEW i \in 1 .. Len(dir) + 1 PROVE Ending(s, dir)[i] = EndCell(s, dir, s + i)
  <2>1. CASE i = Len(dir) + 1
    <3>1. s + i = s + Len(dir) + 1 BY <1>1, <2>1
    <3> QED BY <1>5, <1>6, <2>1, <3>1 DEF EndCell
  <2>2. CASE i # Len(dir) + 1
    <3>1. i \in 1 .. Len(dir) BY <1>1, <2>2
    <3>2. EndCell(s, dir, s + i) = dir[i] BY <1>1, <3>1 DEF EndCell
    <3> QED BY <1>5, <1>6, <3>1, <3>2
  <2> QED BY <2>1, <2>2
<1> QED BY <1>5, <1>6, <1>7

LEMMA LargerCells ==
  ASSUME NEW dir, IsFile(dir), NEW n \in DOMAIN Sizes, NEW s \in Nat
  PROVE  /\ IsFile(Larger(s, dir, n)) /\ Len(Larger(s, dir, n)) = Len(dir) + 1
         /\ \A k \in 1 .. Len(dir) : Larger(s, dir, n)[k] = dir[k]
         /\ Larger(s, dir, n)[Len(dir) + 1] = Entry(n, s)
         /\ Begins(dir, Larger(s, dir, n))
         /\ Behind(s, n) \in Nat /\ Behind(s, n) > s
         /\ NewEnd(s, dir, n) = EndAt(Behind(s, n), Larger(s, dir, n))
<1>1. Len(dir) \in Nat BY DEF IsFile
<1>2. /\ IsFile(Larger(s, dir, n)) /\ Len(Larger(s, dir, n)) = Len(dir) + 1
      /\ \A k \in 1 .. Len(dir) : Larger(s, dir, n)[k] = dir[k]
      /\ Larger(s, dir, n)[Len(dir) + 1] = Entry(n, s)
  BY AppendedFile DEF Larger
<1>3. Behind(s, n) \in Nat /\ Behind(s, n) > s BY StreamCells DEF Behind
<1>4. NewEnd(s, dir, n) = EndAt(Behind(s, n), Larger(s, dir, n))
  BY <1>1, <1>2, <1>3 DEF NewEnd, EndAt
<1> QED BY <1>1, <1>2, <1>3, <1>4 DEF Begins

(* What is written when n is added *)
LEMMA NewCells ==
  ASSUME NEW f, NEW dir, NEW s \in Nat, IsDir(f, dir, s), NEW n \in DOMAIN Sizes
  PROVE  /\ NewCell(s, dir, n, s + 1) = Local(n)
         /\ \A i \in 1 .. Sizes[n] : NewCell(s, dir, n, s + 1 + i) = Data(n)[i]
         /\ \A i \in s + 1 .. Behind(s, n) : NewCell(s, dir, n, i).kind \in Plain
         /\ \A k \in 1 .. Len(dir) + 1 :
              /\ NewCell(s, dir, n, Behind(s, n) + k) = Larger(s, dir, n)[k]
              /\ Larger(s, dir, n)[k].kind = "entry"
         /\ NewCell(s, dir, n, NewEnd(s, dir, n)) = End(Behind(s, n), Len(dir) + 1)
<1>1. IsFile(dir) /\ Len(dir) \in Nat BY DirCells DEF IsFile
<1>2. Sizes[n] \in Nat \ {0} /\ StreamLen(n) = Sizes[n] + 2 /\ Behind(s, n) = s + Sizes[n] + 2
  BY SizesAssumption DEF StreamLen, Behind
<1>3. ASSUME NEW j \in 1 .. StreamLen(n) PROVE NewCell(s, dir, n, s + j) = AddStream(n)[j]
  <2>1. s + j <= Behind(s, n) /\ s + j - s = j BY <1>2
  <2> QED BY <2>1 DEF NewCell
<1>4. NewCell(s, dir, n, s + 1) = Local(n) BY <1>2, <1>3, StreamCells
<1>5. ASSUME NEW i \in 1 .. Sizes[n] PROVE NewCell(s, dir, n, s + 1 + i) = Data(n)[i]
  <2>1. 1 + i \in 1 .. StreamLen(n) /\ s + (1 + i) = s + 1 + i BY <1>2
  <2>2. NewCell(s, dir, n, s + (1 + i)) = AddStream(n)[1 + i] BY <1>3, <2>1
  <2> QED BY <2>1, <2>2, StreamCells
<1>6. ASSUME NEW i \in s + 1 .. Behind(s, n) PROVE NewCell(s, dir, n, i).kind \in Plain
  <2>1. i - s \in 1 .. StreamLen(n) /\ s + (i - s) = i BY <1>2
  <2>2. NewCell(s, dir, n, s + (i - s)) = AddStream(n)[i - s] BY <1>3, <2>1
  <2> QED BY <2>1, <2>2, StreamCells
<1>7. PICK larger, b : larger = Larger(s, dir, n) /\ b = Behind(s, n) OBVIOUS
<1>8. /\ Len(larger) = Len(dir) + 1 /\ b \in Nat /\ b > s
      /\ \A k \in 1 .. Len(dir) : larger[k] = dir[k]
      /\ larger[Len(dir) + 1] = Entry(n, s)
      /\ NewEnd(s, dir, n) = b + Len(dir) + 2
  BY <1>1, <1>7, LargerCells DEF NewEnd
<1>9. ASSUME NEW k \in 1 .. Len(dir) + 2 PROVE NewCell(s, dir, n, b + k) = EndCell(b, larger, b + k)
  <2>1. ~(b + k <= b) BY <1>8
  <2> QED BY <1>7, <2>1 DEF NewCell
<1>10. ASSUME NEW k \in 1 .. Len(dir) + 1
       PROVE  NewCell(s, dir, n, b + k) = larger[k] /\ larger[k].kind = "entry"
  <2>1. k \in 1 .. Len(dir) + 2 /\ b + k # b + Len(larger) + 1 /\ b + k - b = k BY <1>1, <1>8
  <2>2. EndCell(b, larger, b + k) = larger[k]
    <3>1. b + k # b + Len(larger) + 1 BY <1>1, <1>8
    <3>2. b + k - b = k BY <1>8
    <3>3. EndCell(b, larger, b + k) = larger[b + k - b] BY <1>1, <1>8, <3>1 DEF EndCell
    <3> QED BY <3>2, <3>3
  <2>3. larger[k].kind = "entry"
    <3>1. CASE k = Len(dir) + 1
      <4>1. larger[k] = Entry(n, s) BY <1>8, <3>1
      <4> QED BY <4>1 DEF Entry
    <3>2. CASE k # Len(dir) + 1
      <4>1. k \in 1 .. Len(dir) BY <1>1, <3>2
      <4>2. larger[k] = dir[k] BY <1>8, <4>1
      <4>3. dir[k].kind = "entry" BY <4>1, DirCells
      <4> QED BY <4>2, <4>3
    <3> QED BY <3>1, <3>2
  <2> QED BY <1>9, <2>1, <2>2, <2>3
<1>11. NewCell(s, dir, n, NewEnd(s, dir, n)) = End(b, Len(dir) + 1)
  <2>1. Len(dir) + 2 \in 1 .. Len(dir) + 2 /\ NewEnd(s, dir, n) = b + (Len(dir) + 2)
        /\ NewEnd(s, dir, n) = b + Len(larger) + 1
    BY <1>1, <1>8
  <2>2. NewCell(s, dir, n, NewEnd(s, dir, n)) = EndCell(b, larger, NewEnd(s, dir, n)) BY <1>9, <2>1
  <2> QED BY <1>8, <2>1, <2>2 DEF EndCell
<1> QED BY <1>4, <1>5, <1>6, <1>7, <1>10, <1>11

(***************************************************************************)
(* Directories and the files they are in.                                  *)
(***************************************************************************)
LEMMA DirKept ==
  ASSUME NEW f, NEW g, NEW dir, NEW s, IsDir(f, dir, s), NEW t, t >= s, s \in Nat, t \in Nat,
         \A i \in 1 .. s : g[i] = f[i]
  PROVE  IsDir(g, dir, t)
<1>1. ASSUME NEW k \in 1 .. Len(dir) PROVE Holds(g, dir[k], t)
  <2>1. PICK e : e = dir[k] OBVIOUS
  <2>2. Holds(f, e, s) BY <2>1 DEF IsDir
  <2>3. e.at \in Nat /\ Sizes[e.name] \in Nat /\ e.at + 2 + Sizes[e.name] <= s
    BY <2>2, SizesAssumption DEF Holds
  <2>4. g[e.at + 1] = f[e.at + 1] BY <2>3
  <2>5. \A i \in 1 .. Sizes[e.name] : g[e.at + 1 + i] = f[e.at + 1 + i]
    <3>1. \A i \in 1 .. Sizes[e.name] : e.at + 1 + i \in 1 .. s BY <2>3
    <3> QED BY <3>1
  <2>6. e.at + 2 + Sizes[e.name] <= t BY <2>3
  <2>7. Holds(g, e, t) BY <2>2, <2>4, <2>5, <2>6 DEF Holds
  <2> QED BY <2>1, <2>7
<1> QED BY <1>1 DEF IsDir

LEMMA DirBegins ==
  ASSUME NEW f, NEW dir, NEW s, IsDir(f, dir, s), NEW first, IsFile(first), Begins(first, dir)
  PROVE  IsDir(f, first, s)
BY DEF IsDir, IsFile, Begins

LEMMA DirIsFile ==
  ASSUME NEW f, NEW dir, NEW s, IsDir(f, dir, s)
  PROVE  IsFile(dir)
BY DEF IsDir, IsFile

LEMMA DirLarger ==
  ASSUME NEW f, NEW s \in Nat, NEW dir, IsDir(f, dir, s), NEW n \in DOMAIN Sizes,
         \A i \in s + 1 .. Behind(s, n) : f[i] = NewCell(s, dir, n, i)
  PROVE  IsDir(f, Larger(s, dir, n), Behind(s, n))
<1>1. PICK larger, b : larger = Larger(s, dir, n) /\ b = Behind(s, n) OBVIOUS
<1>2. IsFile(dir) BY DirIsFile
<1>3. /\ IsFile(larger) /\ Len(larger) = Len(dir) + 1 /\ b \in Nat /\ b > s
      /\ \A k \in 1 .. Len(dir) : larger[k] = dir[k]
      /\ larger[Len(dir) + 1] = Entry(n, s)
  BY <1>1, <1>2, LargerCells
<1>4. IsDir(f, dir, b) BY <1>3, DirKept
<1>5. Holds(f, Entry(n, s), b)
  <2>1. PICK e : e = Entry(n, s) OBVIOUS
  <2>2. e \in [kind : {"entry"}, name : DOMAIN Sizes, at : Nat] /\ e.name = n /\ e.at = s
    BY <2>1 DEF Entry
  <2>3. Sizes[n] \in Nat \ {0} /\ b = s + Sizes[n] + 2
    BY <1>1, SizesAssumption DEF Behind, StreamLen
  <2>4. f[s + 1] = Local(n)
    <3>1. s + 1 \in s + 1 .. Behind(s, n) BY <1>1, <2>3
    <3> QED BY <3>1, NewCells
  <2>5. ASSUME NEW i \in 1 .. Sizes[n] PROVE f[s + 1 + i] = Data(n)[i]
    <3>1. s + 1 + i \in s + 1 .. Behind(s, n) BY <1>1, <2>3
    <3>2. NewCell(s, dir, n, s + 1 + i) = Data(n)[i] BY NewCells
    <3> QED BY <3>1, <3>2
  <2>6. s + 2 + Sizes[n] <= b BY <2>3
  <2>7. Holds(f, e, b) BY <2>2, <2>4, <2>5, <2>6 DEF Holds
  <2> QED BY <2>1, <2>7
<1>6. ASSUME NEW k \in 1 .. Len(larger) PROVE Holds(f, larger[k], b)
  <2>1. CASE k = Len(dir) + 1 BY <1>3, <1>5, <2>1
  <2>2. CASE k # Len(dir) + 1
    <3>1. k \in 1 .. Len(dir) BY <1>2, <1>3, <2>2 DEF IsFile
    <3> QED BY <1>3, <1>4, <3>1 DEF IsDir
  <2> QED BY <2>1, <2>2
<1>7. IsDir(f, larger, b) BY <1>3, <1>6 DEF IsDir, IsFile
<1> QED BY <1>1, <1>7

(***************************************************************************)
(* Where an end record leads.                                              *)
(***************************************************************************)
LEMMA WayEnds ==
  ASSUME NEW f, NEW s \in Nat, NEW dir, Settled(f, s, dir), NEW n \in DOMAIN Sizes,
         NEW p, OnTheWay(f, s, dir, n, p), NEW i \in 1 .. Len(f), Valid(f, i)
  PROVE  \/ Leads(f, i, dir) /\ p = s
         \/ Leads(f, i, Larger(s, dir, n)) /\ p = NewEnd(s, dir, n)
<1>1. IsDir(f, dir, s) /\ IsFile(dir) /\ Len(dir) \in Nat /\ Len(f) \in Nat
  BY DirIsFile DEF Settled, IsFile
<1>2. PICK larger, b, end : larger = Larger(s, dir, n) /\ b = Behind(s, n) /\ end = NewEnd(s, dir, n)
  OBVIOUS
<1>3. /\ Len(larger) = Len(dir) + 1 /\ b \in Nat /\ b > s /\ end = b + Len(dir) + 2
  BY <1>1, <1>2, LargerCells DEF NewEnd
<1>4. p \in s .. end /\ p <= Len(f) /\ \A j \in s + 1 .. p : f[j] = NewCell(s, dir, n, j)
  BY <1>2 DEF OnTheWay
<1>5. f[i].kind = "end" /\ "end" \notin Plain BY DEF Valid, Plain
<1>6. CASE i <= s
  <2>1. f[i].kind \in Plain BY <1>6 DEF Settled
  <2> QED BY <1>5, <2>1
<1>7. CASE i \in s + 1 .. p
  <2>1. f[i] = NewCell(s, dir, n, i) BY <1>4, <1>7
  <2>2. ~(i <= b) BY <1>1, <1>2, <1>5, <1>7, <2>1, NewCells
  <2>3. ASSUME i # end PROVE FALSE
    <3>1. i - b \in 1 .. Len(dir) + 1 /\ b + (i - b) = i BY <1>1, <1>3, <1>4, <1>7, <2>2, <2>3
    <3>2. NewCell(s, dir, n, b + (i - b)) = larger[i - b] /\ larger[i - b].kind = "entry"
      BY <1>1, <1>2, <3>1, NewCells
    <3> QED BY <1>5, <2>1, <3>1, <3>2
  <2>4. i = end /\ p = end BY <1>3, <1>4, <1>7, <2>3
  <2>5. f[i] = End(b, Len(dir) + 1) BY <1>1, <1>2, <2>1, <2>4, NewCells
  <2>6. f[i].at = b /\ f[i].total = Len(larger) BY <1>3, <2>5 DEF End
  <2>7. ASSUME NEW k \in 1 .. Len(larger) PROVE f[b + k] = larger[k]
    <3>1. k \in 1 .. Len(dir) + 1 /\ b + k \in s + 1 .. p BY <1>1, <1>3, <2>4
    <3>2. NewCell(s, dir, n, b + k) = larger[k] BY <1>1, <1>2, <3>1, NewCells
    <3> QED BY <1>4, <3>1, <3>2
  <2> QED BY <1>2, <1>3, <2>4, <2>6, <2>7 DEF Leads
<1>8. CASE i > p
  <2>1. /\ Len(dir) # 0 /\ i <= EndAt(s, dir) /\ f[i] = EndCell(s, dir, i) /\ EndAt(s, dir) <= Len(f)
    BY <1>1, <1>4, <1>8 DEF OnTheWay
  <2>2. EndAt(s, dir) = s + Len(dir) + 1 BY DEF EndAt
  <2>3. i = EndAt(s, dir)
    <3>1. SUFFICES ASSUME i # EndAt(s, dir) PROVE FALSE OBVIOUS
    <3>2. PICK k \in 1 .. Len(dir) : i = s + k
      <4>1. i - s \in 1 .. Len(dir) /\ s + (i - s) = i BY <1>1, <1>4, <1>8, <2>1, <2>2, <3>1
      <4> QED BY <4>1
    <3>3. EndCell(s, dir, s + k) = dir[k] /\ dir[k].kind = "entry" BY <1>1, DirCells
    <3> QED BY <1>5, <2>1, <3>2, <3>3
  <2>4. f[i] = End(s, Len(dir)) BY <1>1, <2>1, <2>3, DirCells
  <2>5. f[i].at = s /\ f[i].total = Len(dir) BY <2>4 DEF End
  <2>6. p = s
    <3>1. SUFFICES ASSUME p # s PROVE FALSE OBVIOUS
    <3>2. s + 1 \in s + 1 .. p /\ 1 \in 1 .. Len(dir) BY <1>1, <1>3, <1>4, <2>1, <3>1
    <3>3. f[s + 1] = Local(n) BY <1>1, <1>4, <3>2, NewCells
    <3>4. f[s + 1].kind = "entry" BY <2>5, <3>2 DEF Valid
    <3> QED BY <3>3, <3>4 DEF Local
  <2>7. ASSUME NEW k \in 1 .. Len(dir) PROVE f[s + k] = dir[k]
    <3>1. s + k \in p + 1 .. Len(f) BY <1>1, <2>1, <2>2, <2>6
    <3>2. f[s + k] = EndCell(s, dir, s + k) BY <3>1 DEF OnTheWay
    <3> QED BY <1>1, <3>2, DirCells
  <2> QED BY <2>5, <2>6, <2>7 DEF Leads
<1> QED BY <1>1, <1>4, <1>6, <1>7, <1>8

LEMMA BackEnds ==
  ASSUME NEW f, NEW s \in Nat, NEW dir, Settled(f, s, dir),
         NEW p, PutBack(f, s, dir, p), NEW i \in 1 .. Len(f), f[i].kind = "end"
  PROVE  /\ i = EndAt(s, dir) /\ f[i] = End(s, Len(dir))
         /\ Valid(f, i) => Leads(f, i, dir)
<1>1. IsDir(f, dir, s) /\ IsFile(dir) /\ Len(dir) \in Nat /\ Len(f) \in Nat
  BY DirIsFile DEF Settled, IsFile
<1>2. p \in s .. EndAt(s, dir) /\ p <= Len(f) /\ EndAt(s, dir) = s + Len(dir) + 1
  BY DEF PutBack, EndAt
<1>3. "end" \notin Plain /\ "entry" \notin Plain BY DEF Plain
<1>4. ~(i <= s) BY <1>3 DEF Settled
<1>5. ASSUME NEW j \in s + 1 .. Len(f), f[j].kind \notin Plain
      PROVE  j <= EndAt(s, dir) /\ f[j] = EndCell(s, dir, j)
  <2>1. CASE j <= p
    <3>1. j \in s + 1 .. p BY <1>2, <2>1
    <3> QED BY <1>2, <3>1 DEF PutBack
  <2>2. CASE ~(j <= p)
    <3>1. j \in p + 1 .. Len(f) BY <1>1, <1>2, <2>2
    <3> QED BY <1>5, <3>1 DEF PutBack
  <2> QED BY <2>1, <2>2
<1>6. i \in s + 1 .. Len(f) /\ i <= EndAt(s, dir) /\ f[i] = EndCell(s, dir, i)
  <2>1. i \in s + 1 .. Len(f) BY <1>1, <1>4
  <2> QED BY <1>3, <1>5, <2>1
<1>7. i = EndAt(s, dir)
  <2>1. SUFFICES ASSUME i # EndAt(s, dir) PROVE FALSE OBVIOUS
  <2>2. PICK k \in 1 .. Len(dir) : i = s + k
    <3>1. i - s \in 1 .. Len(dir) /\ s + (i - s) = i BY <1>1, <1>2, <1>6, <2>1
    <3> QED BY <3>1
  <2>3. EndCell(s, dir, s + k) = dir[k] /\ dir[k].kind = "entry" BY <1>1, <2>2, DirCells
  <2> QED BY <1>3, <1>6, <2>2, <2>3
<1>8. f[i] = End(s, Len(dir)) BY <1>1, <1>6, <1>7, DirCells
<1>9. f[i].at = s /\ f[i].total = Len(dir) BY <1>8 DEF End
<1>10. ASSUME Valid(f, i), NEW k \in 1 .. Len(dir) PROVE f[s + k] = dir[k]
  <2>1. f[s + k].kind = "entry" BY <1>9, <1>10 DEF Valid
  <2>2. s + k \in s + 1 .. Len(f) BY <1>1, <1>2, <1>6, <1>7
  <2>3. f[s + k] = EndCell(s, dir, s + k) BY <1>3, <1>5, <2>1, <2>2
  <2> QED BY <1>1, <2>3, DirCells
<1> QED BY <1>7, <1>8, <1>9, <1>10 DEF Leads

(***************************************************************************)
(* What is written.                                                        *)
(***************************************************************************)
LEMMA SettledKept ==
  ASSUME NEW f, NEW s \in Nat, NEW dir, Settled(f, s, dir),
         NEW g, IsFile(g), Len(f) <= Len(g), \A i \in 1 .. s : g[i] = f[i]
  PROVE  Settled(g, s, dir)
<1>1. Len(f) \in Nat /\ Len(g) \in Nat /\ s <= Len(f) BY DEF Settled, IsFile
<1>2. IsDir(g, dir, s) BY DirKept DEF Settled
<1>3. \A i \in 1 .. s : g[i].kind \in Plain BY DEF Settled
<1> QED BY <1>1, <1>2, <1>3 DEF Settled

LEMMA FlushWay ==
  ASSUME NEW f, NEW s \in Nat, NEW dir, Settled(f, s, dir), NEW n \in DOMAIN Sizes,
         NEW p, OnTheWay(f, s, dir, n, p),
         NEW cells, IsFile(cells), p + Len(cells) <= NewEnd(s, dir, n),
         \A i \in 1 .. Len(cells) : cells[i] = NewCell(s, dir, n, p + i),
         NEW g, g = Overwritten(f, p, cells), NEW q, q = p + Len(cells)
  PROVE  /\ IsFile(g) /\ Len(f) <= Len(g)
         /\ Settled(g, s, dir) /\ OnTheWay(g, s, dir, n, q)
<1>1. IsFile(f) /\ Len(f) \in Nat /\ Len(cells) \in Nat /\ IsFile(dir) /\ Len(dir) \in Nat
  BY DirIsFile DEF Settled, IsFile
<1>2. NewEnd(s, dir, n) \in Nat /\ EndAt(s, dir) \in Nat
  <2>1. PICK b : b = Behind(s, n) OBVIOUS
  <2>2. b \in Nat BY <1>1, <2>1, LargerCells
  <2> QED BY <1>1, <2>1, <2>2 DEF NewEnd, EndAt
<1>3. p \in s .. NewEnd(s, dir, n) /\ p \in 0 .. Len(f) BY <1>1, <1>2 DEF OnTheWay
<1>4. /\ IsFile(g) /\ Len(f) <= Len(g) /\ q <= Len(g)
      /\ \A i \in 1 .. p : g[i] = f[i]
      /\ \A i \in 1 .. Len(cells) : g[p + i] = cells[i]
      /\ \A i \in q + 1 .. Len(g) : i <= Len(f) /\ g[i] = f[i]
  BY <1>1, <1>3, OverwrittenFile
<1>5. Len(g) \in Nat BY <1>4 DEF IsFile
<1>6. Settled(g, s, dir) BY <1>3, <1>4, SettledKept
<1>7. ASSUME NEW i \in s + 1 .. q PROVE g[i] = NewCell(s, dir, n, i)
  <2>1. CASE i <= p
    <3>1. i \in s + 1 .. p /\ i \in 1 .. p BY <1>3, <2>1
    <3> QED BY <1>4, <3>1 DEF OnTheWay
  <2>2. CASE ~(i <= p)
    <3>1. PICK k \in 1 .. Len(cells) : i = p + k
      <4>1. i - p \in 1 .. Len(cells) /\ i = p + (i - p) BY <1>1, <1>3, <2>2
      <4> QED BY <4>1
    <3> QED BY <1>4, <3>1
  <2> QED BY <2>1, <2>2
<1>8. ASSUME NEW i \in q + 1 .. Len(g)
      PROVE  Len(dir) # 0 /\ i <= EndAt(s, dir) /\ g[i] = EndCell(s, dir, i)
  <2>1. i \in p + 1 .. Len(f) /\ g[i] = f[i] BY <1>1, <1>3, <1>4, <1>5
  <2> QED BY <2>1 DEF OnTheWay
<1>9. q \in s .. NewEnd(s, dir, n) /\ q <= Len(g) BY <1>1, <1>2, <1>3, <1>4
<1>10. Len(dir) # 0 => EndAt(s, dir) <= Len(g) BY <1>1, <1>2, <1>4, <1>5 DEF OnTheWay
<1>11. OnTheWay(g, s, dir, n, q) BY <1>7, <1>8, <1>9, <1>10 DEF OnTheWay
<1> QED BY <1>4, <1>6, <1>11

LEMMA FlushBack ==
  ASSUME NEW f, NEW s \in Nat, NEW dir, Settled(f, s, dir), NEW p, PutBack(f, s, dir, p),
         NEW cells, IsFile(cells), p + Len(cells) <= EndAt(s, dir),
         \A i \in 1 .. Len(cells) : cells[i] = EndCell(s, dir, p + i),
         NEW g, g = Overwritten(f, p, cells), NEW q, q = p + Len(cells)
  PROVE  /\ IsFile(g) /\ Len(f) <= Len(g)
         /\ Settled(g, s, dir) /\ PutBack(g, s, dir, q)
<1>1. IsFile(f) /\ Len(f) \in Nat /\ Len(cells) \in Nat /\ IsFile(dir) /\ Len(dir) \in Nat
  BY DirIsFile DEF Settled, IsFile
<1>2. EndAt(s, dir) \in Nat BY <1>1 DEF EndAt
<1>3. p \in s .. EndAt(s, dir) /\ p \in 0 .. Len(f) BY <1>1, <1>2 DEF PutBack
<1>4. /\ IsFile(g) /\ Len(f) <= Len(g) /\ q <= Len(g)
      /\ \A i \in 1 .. p : g[i] = f[i]
      /\ \A i \in 1 .. Len(cells) : g[p + i] = cells[i]
      /\ \A i \in q + 1 .. Len(g) : i <= Len(f) /\ g[i] = f[i]
  BY <1>1, <1>3, OverwrittenFile
<1>5. Len(g) \in Nat BY <1>4 DEF IsFile
<1>6. Settled(g, s, dir) BY <1>3, <1>4, SettledKept
<1>7. ASSUME NEW i \in s + 1 .. q PROVE g[i] = EndCell(s, dir, i)
  <2>1. CASE i <= p
    <3>1. i \in s + 1 .. p /\ i \in 1 .. p BY <1>3, <2>1
    <3> QED BY <1>4, <3>1 DEF PutBack
  <2>2. CASE ~(i <= p)
    <3>1. PICK k \in 1 .. Len(cells) : i = p + k
      <4>1. i - p \in 1 .. Len(cells) /\ i = p + (i - p) BY <1>1, <1>3, <2>2
      <4> QED BY <4>1
    <3> QED BY <1>4, <3>1
  <2> QED BY <2>1, <2>2
<1>8. ASSUME NEW i \in q + 1 .. Len(g)
      PROVE  g[i].kind \in Plain \/ (i <= EndAt(s, dir) /\ g[i] = EndCell(s, dir, i))
  <2>1. i \in p + 1 .. Len(f) /\ g[i] = f[i] BY <1>1, <1>3, <1>4, <1>5
  <2> QED BY <2>1 DEF PutBack
<1>9. q \in s .. EndAt(s, dir) /\ q <= Len(g) BY <1>1, <1>2, <1>3, <1>4
<1>10. PutBack(g, s, dir, q) BY <1>7, <1>8, <1>9 DEF PutBack
<1> QED BY <1>4, <1>6, <1>10

(* Until the directory of before is overwritten, it can be put back. *)
LEMMA WayToBack ==
  ASSUME NEW f, NEW s \in Nat, NEW dir, Settled(f, s, dir), NEW n \in DOMAIN Sizes,
         NEW p, OnTheWay(f, s, dir, n, p), p <= Behind(s, n)
  PROVE  PutBack(f, s, dir, s)
<1>1. IsDir(f, dir, s) /\ IsFile(dir) /\ Len(dir) \in Nat /\ Len(f) \in Nat /\ s <= Len(f)
  BY DirIsFile DEF Settled, IsFile
<1>2. EndAt(s, dir) \in Nat /\ s <= EndAt(s, dir) BY <1>1 DEF EndAt
<1>3. PICK b, end : b = Behind(s, n) /\ end = NewEnd(s, dir, n) OBVIOUS
<1>4. b \in Nat /\ end = b + Len(dir) + 2 BY <1>1, <1>3, LargerCells DEF NewEnd
<1>5. p \in s .. end BY <1>3 DEF OnTheWay
<1>6. ASSUME NEW i \in s + 1 .. Len(f)
      PROVE  f[i].kind \in Plain \/ (i <= EndAt(s, dir) /\ f[i] = EndCell(s, dir, i))
  <2>1. CASE i <= p
    <3>1. i \in s + 1 .. p /\ i \in s + 1 .. b BY <1>3, <1>4, <1>5, <2>1
    <3>2. f[i] = NewCell(s, dir, n, i) BY <3>1 DEF OnTheWay
    <3> QED BY <1>1, <1>3, <3>1, <3>2, NewCells
  <2>2. CASE ~(i <= p)
    <3>1. i \in p + 1 .. Len(f) BY <1>1, <1>4, <1>5, <2>2
    <3> QED BY <3>1 DEF OnTheWay
  <2> QED BY <2>1, <2>2
<1>7. s \in s .. EndAt(s, dir) /\ \A i \in s + 1 .. s : f[i] = EndCell(s, dir, i) BY <1>2
<1> QED BY <1>1, <1>6, <1>7 DEF PutBack

(* The archive is complete, *)
LEMMA WayDone ==
  ASSUME NEW f, NEW s \in Nat, NEW dir, Settled(f, s, dir), NEW n \in DOMAIN Sizes,
         OnTheWay(f, s, dir, n, NewEnd(s, dir, n))
  PROVE  /\ Whole(f, Behind(s, n), Larger(s, dir, n))
         /\ Len(f) = NewEnd(s, dir, n)
<1>1. IsDir(f, dir, s) /\ IsFile(dir) /\ Len(dir) \in Nat /\ Len(f) \in Nat /\ IsFile(f)
  BY DirIsFile DEF Settled, IsFile
<1>2. PICK larger, b, end : larger = Larger(s, dir, n) /\ b = Behind(s, n) /\ end = NewEnd(s, dir, n)
  OBVIOUS
<1>3. /\ IsFile(larger) /\ Len(larger) = Len(dir) + 1 /\ b \in Nat /\ b > s
      /\ end = b + Len(dir) + 2 /\ end = EndAt(b, larger)
  BY <1>1, <1>2, LargerCells DEF NewEnd
<1>4. end <= Len(f) /\ \A i \in s + 1 .. end : f[i] = NewCell(s, dir, n, i)
  BY <1>2 DEF OnTheWay
<1>5. Len(f) = end
  <2>1. SUFFICES ASSUME Len(f) # end PROVE FALSE OBVIOUS
  <2>2. end + 1 \in end + 1 .. Len(f) BY <1>1, <1>3, <1>4, <2>1
  <2>3. end + 1 <= EndAt(s, dir) BY <1>2, <2>2 DEF OnTheWay
  <2> QED BY <1>1, <1>3, <2>3 DEF EndAt
<1>6. IsDir(f, larger, b)
  <2>1. \A i \in s + 1 .. b : f[i] = NewCell(s, dir, n, i) BY <1>1, <1>3, <1>4
  <2> QED BY <1>1, <1>2, <2>1, DirLarger
<1>7. ASSUME NEW i \in 1 .. b PROVE f[i].kind \in Plain
  <2>1. CASE i <= s BY <2>1 DEF Settled
  <2>2. CASE ~(i <= s)
    <3>1. i \in s + 1 .. end /\ i \in s + 1 .. b BY <1>1, <1>3, <2>2
    <3> QED BY <1>1, <1>2, <1>4, <3>1, NewCells
  <2> QED BY <2>1, <2>2
<1>8. Settled(f, b, larger) BY <1>1, <1>3, <1>5, <1>6, <1>7 DEF Settled
<1>9. ASSUME NEW i \in b + 1 .. end PROVE f[i] = EndCell(b, larger, i)
  <2>1. i \in s + 1 .. end /\ ~(i <= b) BY <1>1, <1>3
  <2> QED BY <1>2, <1>4, <2>1 DEF NewCell
<1>10. PutBack(f, b, larger, end)
  <2>1. end \in b .. end /\ end <= Len(f) /\ end + 1 .. Len(f) = {} BY <1>1, <1>3, <1>5
  <2> QED BY <1>3, <1>9, <2>1 DEF PutBack
<1> QED BY <1>2, <1>3, <1>5, <1>8, <1>10 DEF Whole

(* and the next file is added to it. *)
LEMMA WayFrom ==
  ASSUME NEW f, NEW s \in Nat, NEW dir, Whole(f, s, dir), Len(f) = EndAt(s, dir), Len(dir) # 0,
         NEW n \in DOMAIN Sizes
  PROVE  OnTheWay(f, s, dir, n, s)
<1>1. IsDir(f, dir, s) /\ IsFile(dir) /\ Len(dir) \in Nat /\ Len(f) \in Nat /\ s <= Len(f)
  BY DirIsFile DEF Whole, Settled, IsFile
<1>2. PICK b, end : b = Behind(s, n) /\ end = NewEnd(s, dir, n) OBVIOUS
<1>3. b \in Nat /\ b > s /\ end = b + Len(dir) + 2 BY <1>1, <1>2, LargerCells DEF NewEnd
<1>4. s \in s .. end /\ \A i \in s + 1 .. s : f[i] = NewCell(s, dir, n, i) BY <1>1, <1>3
<1>5. \A i \in s + 1 .. Len(f) : f[i] = EndCell(s, dir, i) BY DEF Whole, PutBack
<1>6. EndAt(s, dir) <= Len(f) /\ \A i \in s + 1 .. Len(f) : i <= EndAt(s, dir) BY <1>1
<1> QED BY <1>1, <1>2, <1>4, <1>5, <1>6 DEF OnTheWay

LEMMA EmptyWay ==
  ASSUME NEW n \in DOMAIN Sizes
  PROVE  Settled(<<>>, 0, <<>>) /\ OnTheWay(<<>>, 0, <<>>, n, 0)
<1>1. IsFile(<<>>) /\ Len(<<>>) = 0 BY EmptyIsFile
<1>2. IsDir(<<>>, <<>>, 0) BY <1>1 DEF IsDir, IsFile
<1>3. NewEnd(0, <<>>, n) \in Nat
  <2>1. PICK b : b = Behind(0, n) OBVIOUS
  <2>2. b \in Nat BY <1>1, <2>1, LargerCells
  <2> QED BY <1>1, <2>1, <2>2 DEF NewEnd
<1>4. Settled(<<>>, 0, <<>>) BY <1>1, <1>2 DEF Settled
<1> QED BY <1>1, <1>3, <1>4 DEF OnTheWay

(***************************************************************************)
(* The names that are in directories.                                      *)
(***************************************************************************)
LEMMA NamesCells ==
  ASSUME NEW dir, IsFile(dir)
  PROVE  /\ IsFile(NamesIn(dir)) /\ Len(NamesIn(dir)) = Len(dir)
         /\ \A i \in 1 .. Len(dir) : NamesIn(dir)[i] = dir[i].name
<1>1. Len(dir) \in Nat /\ DOMAIN dir = 1 .. Len(dir) BY FileIsSeq DEF IsFile
<1>2. NamesIn(dir) = [i \in 1 .. Len(dir) |-> dir[i].name] BY <1>1 DEF NamesIn
<1>3. PICK names : names = [i \in 1 .. Len(dir) |-> dir[i].name] OBVIOUS
<1>4. names = [i \in 1 .. Len(dir) |-> names[i]] BY <1>3
<1>5. IsFile(names) /\ Len(names) = Len(dir) BY <1>1, <1>4, FunctionIsFile
<1>6. \A i \in 1 .. Len(dir) : names[i] = dir[i].name BY <1>3
<1> QED BY <1>2, <1>3, <1>5, <1>6

LEMMA NamesLarger ==
  ASSUME NEW dir, IsFile(dir), NEW s \in Nat, NEW n \in DOMAIN Sizes
  PROVE  NamesIn(Larger(s, dir, n)) = Append(NamesIn(dir), n)
<1>1. PICK larger, names, all :
        larger = Larger(s, dir, n) /\ names = NamesIn(dir) /\ all = NamesIn(larger)
  OBVIOUS
<1>2. /\ IsFile(larger) /\ Len(larger) = Len(dir) + 1
      /\ \A k \in 1 .. Len(dir) : larger[k] = dir[k]
      /\ larger[Len(dir) + 1] = Entry(n, s)
  BY <1>1, LargerCells
<1>3. /\ IsFile(names) /\ Len(names) = Len(dir)
      /\ \A i \in 1 .. Len(dir) : names[i] = dir[i].name
  BY <1>1, NamesCells
<1>4. /\ IsFile(all) /\ Len(all) = Len(dir) + 1
      /\ \A i \in 1 .. Len(dir) + 1 : all[i] = larger[i].name
  <2>1. /\ IsFile(all) /\ Len(all) = Len(larger)
        /\ \A i \in 1 .. Len(larger) : all[i] = larger[i].name
    BY <1>1, <1>2, NamesCells
  <2> QED BY <1>2, <2>1
<1>5. /\ IsFile(Append(names, n)) /\ Len(Append(names, n)) = Len(dir) + 1
      /\ \A i \in 1 .. Len(dir) : Append(names, n)[i] = names[i]
      /\ Append(names, n)[Len(dir) + 1] = n
  BY <1>3, AppendedFile
<1>6. ASSUME NEW i \in 1 .. Len(dir) + 1 PROVE all[i] = Append(names, n)[i]
  <2>1. CASE i = Len(dir) + 1
    <3>1. all[i] = Entry(n, s).name BY <1>2, <1>4, <2>1
    <3> QED BY <1>5, <2>1, <3>1 DEF Entry
  <2>2. CASE i # Len(dir) + 1
    <3>1. i \in 1 .. Len(dir) BY <2>2 DEF IsFile
    <3> QED BY <1>2, <1>3, <1>4, <1>5, <3>1
  <2> QED BY <2>1, <2>2
<1>7. all = Append(names, n) BY <1>4, <1>5, <1>6, FilesEqual
<1> QED BY <1>1, <1>7

LEMMA PrefixIs ==
  ASSUME NEW f, NEW g, IsFile(f), IsFile(g), Len(f) <= Len(g), \A i \in 1 .. Len(f) : f[i] = g[i]
  PROVE  IsPrefix(f, g)
<1>1. Len(f) \in Nat /\ Len(g) \in Nat BY DEF IsFile
<1>2. PICK n : n = Len(f) OBVIOUS
<1>3. /\ IsFile(Cells(f, 0, n)) /\ Len(Cells(f, 0, n)) = n
      /\ \A i \in 1 .. n : Cells(f, 0, n)[i] = f[0 + i]
  BY <1>1, <1>2, CutFile
<1>4. /\ IsFile(Cells(g, 0, n)) /\ Len(Cells(g, 0, n)) = n
      /\ \A i \in 1 .. n : Cells(g, 0, n)[i] = g[0 + i]
  BY <1>1, <1>2, CutFile
<1>5. \A i \in 1 .. n : Cells(f, 0, n)[i] = Cells(g, 0, n)[i]
  <2>1. \A i \in 1 .. n : 0 + i = i OBVIOUS
  <2> QED BY <1>2, <1>3, <1>4, <2>1
<1>6. PICK a, b : a = Cells(f, 0, n) /\ b = Cells(g, 0, n) OBVIOUS
<1>7. a = b BY <1>3, <1>4, <1>5, <1>6, FilesEqual
<1>8. Cells(f, 0, n) = SubSeq(f, 1, Len(f)) /\ Cells(g, 0, n) = SubSeq(g, 1, Len(f))
  BY <1>1, <1>2 DEF Cells
<1> QED BY <1>6, <1>7, <1>8 DEF IsPrefix

LEMMA BeginsOfAdded ==
  ASSUME NEW first, IsFile(first), NEW dir, IsFile(dir), Begins(first, dir)
  PROVE  OfAdded(first, NamesIn(dir))
<1>1. PICK a, b : a = NamesIn(first) /\ b = NamesIn(dir) OBVIOUS
<1>2. IsFile(a) /\ Len(a) = Len(first) /\ \A i \in 1 .. Len(first) : a[i] = first[i].name
  BY <1>1, NamesCells
<1>3. IsFile(b) /\ Len(b) = Len(dir) /\ \A i \in 1 .. Len(dir) : b[i] = dir[i].name
  BY <1>1, NamesCells
<1>4. Len(a) <= Len(b) /\ \A i \in 1 .. Len(a) : a[i] = b[i]
  BY <1>2, <1>3 DEF Begins, IsFile
<1>5. IsPrefix(a, b) BY <1>2, <1>3, <1>4, PrefixIs
<1> QED BY <1>1, <1>5 DEF OfAdded

LEMMA EndsGoodWay ==
  ASSUME NEW f, NEW s \in Nat, NEW dir, Settled(f, s, dir), NEW n \in DOMAIN Sizes,
         NEW p, OnTheWay(f, s, dir, n, p)
  PROVE  EndsGood(f, NamesIn(dir))
<1>1. IsDir(f, dir, s) /\ IsFile(dir) /\ Len(dir) \in Nat /\ Len(f) \in Nat /\ s <= Len(f)
  BY DirIsFile DEF Settled, IsFile
<1>2. IsDir(f, dir, Len(f)) BY <1>1, DirKept
<1>3. OfAdded(dir, NamesIn(dir))
  <2>1. Begins(dir, dir) BY <1>1 DEF Begins
  <2> QED BY <1>1, <2>1, BeginsOfAdded
<1>4. PICK larger, names : larger = Larger(s, dir, n) /\ names = NamesIn(dir) OBVIOUS
<1>5. OfAdded(larger, names) BY <1>1, <1>4, NamesLarger DEF OfAdded
<1>6. ASSUME p = NewEnd(s, dir, n) PROVE IsDir(f, larger, Len(f))
  <2>1. PICK b, end : b = Behind(s, n) /\ end = NewEnd(s, dir, n) OBVIOUS
  <2>2. b \in Nat /\ b > s /\ end = b + Len(dir) + 2 BY <1>1, <2>1, LargerCells DEF NewEnd
  <2>3. \A i \in s + 1 .. b : f[i] = NewCell(s, dir, n, i)
    <3>1. \A i \in s + 1 .. b : i \in s + 1 .. p BY <1>1, <1>6, <2>1, <2>2
    <3> QED BY <3>1 DEF OnTheWay
  <2>4. IsDir(f, larger, b) BY <1>1, <1>4, <2>1, <2>3, DirLarger
  <2>5. b <= Len(f) BY <1>1, <1>6, <2>1, <2>2 DEF OnTheWay
  <2> QED BY <1>1, <2>2, <2>4, <2>5, DirKept
<1>7. ASSUME NEW i \in 1 .. Len(f), Valid(f, i)
      PROVE  \E d : IsDir(f, d, Len(f)) /\ OfAdded(d, names) /\ Leads(f, i, d)
  <2>1. Leads(f, i, dir) \/ (Leads(f, i, larger) /\ p = NewEnd(s, dir, n))
    BY <1>4, <1>7, WayEnds
  <2> QED BY <1>2, <1>3, <1>4, <1>5, <1>6, <2>1
<1> QED BY <1>4, <1>7 DEF EndsGood

LEMMA EndsGoodBack ==
  ASSUME NEW f, NEW s \in Nat, NEW dir, Settled(f, s, dir), NEW p, PutBack(f, s, dir, p)
  PROVE  EndsGood(f, NamesIn(dir))
<1>1. IsDir(f, dir, s) /\ IsFile(dir) /\ Len(dir) \in Nat /\ Len(f) \in Nat /\ s <= Len(f)
  BY DirIsFile DEF Settled, IsFile
<1>2. IsDir(f, dir, Len(f)) BY <1>1, DirKept
<1>3. OfAdded(dir, NamesIn(dir))
  <2>1. Begins(dir, dir) BY <1>1 DEF Begins
  <2> QED BY <1>1, <2>1, BeginsOfAdded
<1>4. ASSUME NEW i \in 1 .. Len(f), Valid(f, i) PROVE Leads(f, i, dir)
  <2>1. f[i].kind = "end" BY <1>4 DEF Valid
  <2> QED BY <1>4, <2>1, BackEnds
<1> QED BY <1>2, <1>3, <1>4 DEF EndsGood

LEMMA BeginsFurther ==
  ASSUME NEW first, NEW dir, NEW s \in Nat, NEW n \in DOMAIN Sizes, IsFile(first), IsFile(dir),
         Begins(first, dir)
  PROVE  Begins(first, Larger(s, dir, n))
<1>1. PICK larger : larger = Larger(s, dir, n) OBVIOUS
<1>2. Begins(dir, larger) BY <1>1, LargerCells
<1>3. Begins(first, larger) BY <1>2 DEF Begins, IsFile
<1> QED BY <1>1, <1>3

(***************************************************************************)
(* The writer.                                                             *)
(***************************************************************************)
Started(v, n, s, dir, created) ==
  [v EXCEPT !.at = "add", !.name = n, !.size = s, !.dir = dir, !.buf = <<>>,
            !.pos = s, !.left = AddStream(n), !.created = created, !.ok = TRUE]

LEMMA StartsAdding ==
  ASSUME NEW v, IsWriter(v), NEW n \in DOMAIN Sizes, NEW s \in Nat, NEW dir,
         NEW created \in BOOLEAN, NEW f, NEW first,
         NEW v2, v2 = Started(v, n, s, dir, created),
         Settled(f, s, dir), OnTheWay(f, s, dir, n, s), Begins(first, dir)
  PROVE  IsWriter(v2) /\ v2.at = "add" /\ v2.created = created /\ v2.name = n
         /\ Adds(v2, f, first, s, dir)
<1>1. /\ v2.at = "add" /\ v2.name = n /\ v2.size = s /\ v2.dir = dir /\ v2.buf = <<>>
      /\ v2.pos = s /\ v2.left = AddStream(n) /\ v2.created = created /\ v2.ok = TRUE
      /\ IsWriter(v2)
  BY DEF IsWriter, Started
<1>2. IsFile(dir) /\ Len(dir) \in Nat BY DirIsFile DEF Settled, IsFile
<1>3. PICK b, end, stream : b = Behind(s, n) /\ end = NewEnd(s, dir, n) /\ stream = AddStream(n)
  OBVIOUS
<1>4. b \in Nat /\ b > s /\ end = b + Len(dir) + 2 BY <1>2, <1>3, LargerCells DEF NewEnd
<1>5. IsFile(stream) /\ Len(stream) = StreamLen(n) /\ StreamLen(n) \in Nat /\ b = s + StreamLen(n)
  BY <1>3, StreamCells DEF Behind
<1>6. ASSUME NEW i \in 1 .. Len(stream) PROVE stream[i] = Target(v2, s, dir, s + 0 + i)
  <2>1. s + 0 + i <= b /\ s + 0 + i - s = i BY <1>5
  <2> QED BY <1>1, <1>3, <2>1 DEF Target, NewCell
<1>7. ToWrite(v2, s, dir, b)
  <2>1. IsFile(v2.buf) /\ Len(v2.buf) = 0 BY <1>1, EmptyIsFile
  <2>2. s + 0 + StreamLen(n) = b BY <1>5
  <2> QED BY <1>1, <1>3, <1>5, <1>6, <2>1, <2>2 DEF ToWrite
<1>8. s # end BY <1>2, <1>4
<1> QED BY <1>1, <1>3, <1>7, <1>8 DEF Adds

HasPut(v) == [v EXCEPT !.buf = Append(v.buf, Head(v.left)), !.left = Tail(v.left)]

LEMMA Puts ==
  ASSUME NEW v, IsWriter(v), NEW s, NEW dir, NEW end, ToWrite(v, s, dir, end), v.left # <<>>,
         NEW v2, v2 = HasPut(v)
  PROVE  /\ IsWriter(v2) /\ ToWrite(v2, s, dir, end)
         /\ v2.at = v.at /\ v2.name = v.name /\ v2.size = v.size /\ v2.dir = v.dir
         /\ v2.pos = v.pos /\ v2.ok = v.ok /\ v2.created = v.created
<1>1. /\ IsWriter(v2)
      /\ v2.at = v.at /\ v2.name = v.name /\ v2.size = v.size /\ v2.dir = v.dir
      /\ v2.pos = v.pos /\ v2.ok = v.ok /\ v2.created = v.created
      /\ v2.buf = Append(v.buf, Head(v.left)) /\ v2.left = Tail(v.left) /\ v.pos \in Nat
  BY DEF IsWriter, HasPut
<1>2. PICK buf, left, c, longer, rest, p :
        buf = v.buf /\ left = v.left /\ c = left[1] /\ longer = Append(buf, c) /\ rest = Tail(left)
        /\ p = v.pos
  OBVIOUS
<1>3. /\ IsFile(buf) /\ IsFile(left) /\ Len(buf) \in Nat /\ Len(left) \in Nat
      /\ p + Len(buf) + Len(left) = end /\ p \in Nat
      /\ \A i \in 1 .. Len(buf) : buf[i] = Target(v, s, dir, p + i)
      /\ \A i \in 1 .. Len(left) : left[i] = Target(v, s, dir, p + Len(buf) + i)
  BY <1>1, <1>2 DEF ToWrite, IsFile
<1>4. /\ Len(left) >= 1 /\ Head(left) = c
      /\ IsFile(rest) /\ Len(rest) = Len(left) - 1
      /\ \A i \in 1 .. Len(left) - 1 : rest[i] = left[i + 1]
  BY <1>2, <1>3, TailOfFile
<1>5. /\ IsFile(longer) /\ Len(longer) = Len(buf) + 1
      /\ \A i \in 1 .. Len(buf) : longer[i] = buf[i]
      /\ longer[Len(buf) + 1] = c
  BY <1>2, <1>3, AppendedFile
<1>6. \A i : Target(v2, s, dir, i) = Target(v, s, dir, i) BY <1>1 DEF Target
<1>7. ASSUME NEW i \in 1 .. Len(longer) PROVE longer[i] = Target(v, s, dir, p + i)
  <2>1. CASE i = Len(buf) + 1
    <3>1. p + i = p + Len(buf) + 1 /\ 1 \in 1 .. Len(left) BY <1>3, <1>4, <2>1
    <3> QED BY <1>2, <1>3, <1>5, <2>1, <3>1
  <2>2. CASE i # Len(buf) + 1
    <3>1. i \in 1 .. Len(buf) BY <1>3, <1>5, <2>2
    <3> QED BY <1>3, <1>5, <3>1
  <2> QED BY <2>1, <2>2
<1>8. ASSUME NEW i \in 1 .. Len(rest) PROVE rest[i] = Target(v, s, dir, p + Len(longer) + i)
  <2>1. i \in 1 .. Len(left) - 1 /\ i + 1 \in 1 .. Len(left)
    <3>1. Len(left) \in Nat /\ Len(rest) = Len(left) - 1 BY <1>3, <1>4
    <3> QED BY <3>1
  <2>2. p + Len(longer) + i = p + Len(buf) + (i + 1)
    <3>1. Len(buf) \in Nat /\ Len(longer) = Len(buf) + 1 /\ p \in Nat /\ i \in Int
      BY <1>3, <1>4, <1>5, <2>1
    <3> QED BY <3>1
  <2> QED BY <1>3, <1>4, <2>1, <2>2
<1>9. p + Len(longer) + Len(rest) = end BY <1>3, <1>4, <1>5
<1>10. v2.buf = longer /\ v2.left = rest /\ v2.pos = p BY <1>1, <1>2, <1>4
<1>11. ToWrite(v2, s, dir, end)
  <2>1. IsFile(v2.buf) /\ IsFile(v2.left) BY <1>4, <1>5, <1>10
  <2>2. v2.pos + Len(v2.buf) + Len(v2.left) = end BY <1>9, <1>10
  <2>3. \A i \in 1 .. Len(v2.buf) : v2.buf[i] = Target(v2, s, dir, v2.pos + i)
    BY <1>6, <1>7, <1>10
  <2>4. \A i \in 1 .. Len(v2.left) : v2.left[i] = Target(v2, s, dir, v2.pos + Len(v2.buf) + i)
    BY <1>6, <1>8, <1>10
  <2> QED BY <2>1, <2>2, <2>3, <2>4 DEF ToWrite
<1> QED BY <1>1, <1>11

HasFlushed(v) == [v EXCEPT !.pos = v.pos + Len(v.buf), !.buf = <<>>]

LEMMA Flushes ==
  ASSUME NEW v, IsWriter(v), NEW s, NEW dir, NEW end, ToWrite(v, s, dir, end),
         NEW v2, v2 = HasFlushed(v)
  PROVE  /\ IsWriter(v2) /\ ToWrite(v2, s, dir, end)
         /\ v2.at = v.at /\ v2.name = v.name /\ v2.size = v.size /\ v2.dir = v.dir
         /\ v2.pos = v.pos + Len(v.buf) /\ v2.ok = v.ok /\ v2.created = v.created
<1>1. v.pos \in Nat /\ Len(v.buf) \in Nat /\ v.pos + Len(v.buf) \in Nat BY DEF ToWrite, IsFile, IsWriter
<1>2. /\ IsWriter(v2)
      /\ v2.at = v.at /\ v2.name = v.name /\ v2.size = v.size /\ v2.dir = v.dir
      /\ v2.pos = v.pos + Len(v.buf) /\ v2.ok = v.ok /\ v2.created = v.created
      /\ v2.buf = <<>> /\ v2.left = v.left
  BY <1>1 DEF IsWriter, HasFlushed
<1>3. \A i : Target(v2, s, dir, i) = Target(v, s, dir, i) BY <1>2 DEF Target
<1>4. IsFile(v2.buf) /\ Len(v2.buf) = 0 BY <1>2, EmptyIsFile
<1>5. Len(v.left) \in Nat /\ v2.pos + 0 = v.pos + Len(v.buf) BY <1>1, <1>2 DEF ToWrite, IsFile
<1>6. ToWrite(v2, s, dir, end) BY <1>2, <1>3, <1>4, <1>5 DEF ToWrite
<1> QED BY <1>2, <1>6

(* How far the writer can be *)
LEMMA AddsUpTo ==
  ASSUME NEW v, IsWriter(v), v.name \in DOMAIN Sizes, NEW f, NEW first, NEW s \in Nat, NEW dir,
         Settled(f, s, dir), Adds(v, f, first, s, dir)
  PROVE  /\ Len(v.buf) \in Nat /\ Len(v.left) \in Nat /\ v.pos \in Nat
         /\ Behind(s, v.name) \in Nat /\ NewEnd(s, dir, v.name) \in Nat
         /\ s < Behind(s, v.name) /\ Behind(s, v.name) < NewEnd(s, dir, v.name)
         /\ v.pos + Len(v.buf) <= NewEnd(s, dir, v.name)
         /\ v.at = "add" => v.pos + Len(v.buf) <= Behind(s, v.name)
<1>1. IsFile(dir) /\ Len(dir) \in Nat BY DirIsFile DEF Settled, IsFile
<1>2. PICK b, end : b = Behind(s, v.name) /\ end = NewEnd(s, dir, v.name) OBVIOUS
<1>3. b \in Nat /\ b > s /\ end = b + Len(dir) + 2 BY <1>1, <1>2, LargerCells DEF NewEnd
<1>4. v.pos \in Nat BY DEF IsWriter
<1>5. PICK buf, left : buf = v.buf /\ left = v.left OBVIOUS
<1>6. /\ Len(buf) \in Nat /\ Len(left) \in Nat
      /\ v.pos + Len(buf) + Len(left) = IF v.at = "add" THEN b ELSE end
  BY <1>2, <1>5 DEF Adds, ToWrite, IsFile
<1>7. v.pos + Len(buf) <= end /\ (v.at = "add" => v.pos + Len(buf) <= b) BY <1>1, <1>3, <1>4, <1>6
<1> QED BY <1>1, <1>2, <1>3, <1>4, <1>5, <1>6, <1>7

LEMMA RestoresUpTo ==
  ASSUME NEW v, IsWriter(v), NEW f, NEW first, NEW s \in Nat, NEW dir,
         Settled(f, s, dir), Restores(v, f, first, s, dir)
  PROVE  /\ Len(v.buf) \in Nat /\ Len(v.left) \in Nat /\ v.pos \in Nat
         /\ EndAt(s, dir) \in Nat /\ v.pos + Len(v.buf) <= EndAt(s, dir)
<1>1. IsFile(dir) /\ Len(dir) \in Nat BY DirIsFile DEF Settled, IsFile
<1>2. EndAt(s, dir) \in Nat BY <1>1 DEF EndAt
<1>3. v.pos \in Nat BY DEF IsWriter
<1>4. PICK buf, left : buf = v.buf /\ left = v.left OBVIOUS
<1>5. Len(buf) \in Nat /\ Len(left) \in Nat /\ v.pos + Len(buf) + Len(left) = EndAt(s, dir)
  BY <1>4 DEF Restores, ToWrite, IsFile
<1>6. v.pos + Len(buf) <= EndAt(s, dir) BY <1>2, <1>3, <1>5
<1> QED BY <1>2, <1>3, <1>4, <1>5, <1>6

(***************************************************************************)
(* What a reader has read stays.                                           *)
(***************************************************************************)
LEMMA ReadsOfDir ==
  ASSUME NEW f, NEW s \in Nat, NEW dir, Settled(f, s, dir), NEW first, IsFile(first),
         Begins(first, dir)
  PROVE  IsDir(f, first, Len(f))
<1>1. IsDir(f, dir, s) /\ Len(f) \in Nat /\ s <= Len(f) BY DEF Settled, IsFile
<1>2. IsDir(f, first, s) BY <1>1, DirBegins
<1> QED BY <1>1, <1>2, DirKept

LEMMA ReadsOnTheWay ==
  ASSUME NEW f, NEW s \in Nat, NEW dir, Settled(f, s, dir), NEW n \in DOMAIN Sizes,
         NEW p, OnTheWay(f, s, dir, n, p), NEW first, IsFile(first),
         Begins(first, IF p = NewEnd(s, dir, n) THEN Larger(s, dir, n) ELSE dir)
  PROVE  IsDir(f, first, Len(f))
<1>1. CASE p = NewEnd(s, dir, n)
  <2>1. PICK b, larger : b = Behind(s, n) /\ larger = Larger(s, dir, n) OBVIOUS
  <2>2. Settled(f, b, larger) BY <1>1, <2>1, WayDone DEF Whole
  <2>3. IsFile(dir) BY DirIsFile DEF Settled
  <2>4. b \in Nat BY <2>1, <2>3, LargerCells
  <2>5. Begins(first, larger) BY <1>1, <2>1
  <2> QED BY <2>2, <2>4, <2>5, ReadsOfDir
<1>2. CASE p # NewEnd(s, dir, n) BY <1>2, ReadsOfDir
<1> QED BY <1>1, <1>2

LEMMA ReaderKept ==
  ASSUME ReaderOK, r' = r, IsFile(file), IsFile(file'), Len(file) <= Len(file'),
         IsDir(file', r.dir, Len(file')), OfAdded(r.dir, added')
  PROVE  ReaderOK'
<1>1. Len(file) \in Nat /\ Len(file') \in Nat BY DEF IsFile
<1>2. r.at = "located" => r.end \in 1 .. Len(file') /\ r.size \in 0 .. Len(file')
  BY <1>1 DEF ReaderOK
<1> QED BY <1>2 DEF ReaderOK

LEMMA ReaderFacts ==
  ASSUME ReaderOK
  PROVE  /\ IsReader(r) /\ IsFile(r.dir) /\ IsDir(file, r.dir, Len(file)) /\ OfAdded(r.dir, added)
         /\ IsFile(r.got) /\ Len(r.got) <= Len(r.dir)
BY DirIsFile DEF ReaderOK

(***************************************************************************)
(* The steps of the writer.                                                *)
(***************************************************************************)
LEMMA CreateStep ==
  ASSUME ArchiveOK, Create
  PROVE  ArchiveOK'
<1>1. PICK n \in w.todo : StartAdd(n, 0, <<>>, TRUE) BY DEF Create
<1>2. w.at = "between" /\ ~exists /\ file' = <<>> /\ r' = r /\ added' = added BY DEF Create
<1>3. IsWriter(w) /\ n \in DOMAIN Sizes BY DEF ArchiveOK, WriterOK, IsWriter
<1>4. Ready BY <1>1, <1>2 DEF ArchiveOK, WriterOK
<1>5. Len(file) = 0 /\ added = <<>> /\ Len(r.dir) = 0 BY <1>2, <1>4 DEF Ready
<1>6. file = <<>>
  <2>1. IsFile(file) /\ IsFile(<<>>) /\ Len(<<>>) = 0 BY EmptyIsFile DEF ArchiveOK
  <2> QED BY <1>5, <2>1, FilesEqual
<1>7. Begins(r.dir, <<>>) BY <1>5, EmptyIsFile DEF Begins
<1>8. Settled(<<>>, 0, <<>>) /\ OnTheWay(<<>>, 0, <<>>, n, 0) BY <1>3, EmptyWay
<1>9. PICK f, dir, s, v, created, v2, first :
        f = <<>> /\ dir = <<>> /\ s = 0 /\ v = w /\ created = TRUE /\ v2 = w' /\ first = r.dir
  OBVIOUS
<1>10. v2 = Started(v, n, s, dir, created) BY <1>1, <1>9 DEF StartAdd, Started
<1>11. /\ IsWriter(v) /\ s \in Nat /\ created \in BOOLEAN /\ Settled(f, s, dir)
       /\ OnTheWay(f, s, dir, n, s) /\ Begins(first, dir)
  BY <1>3, <1>7, <1>8, <1>9
<1>13. /\ IsWriter(v2) /\ v2.at = "add" /\ v2.created = created /\ v2.name = n
       /\ Adds(v2, f, first, s, dir)
  BY <1>3, <1>10, <1>11, StartsAdding
<1>14. NamesIn(dir) = added' /\ Len(dir) = 0
  <2>1. IsFile(dir) /\ Len(dir) = 0 BY <1>9, EmptyIsFile
  <2>2. IsFile(NamesIn(dir)) /\ Len(NamesIn(dir)) = 0 BY <2>1, NamesCells
  <2>3. IsFile(<<>>) /\ Len(<<>>) = 0 BY EmptyIsFile
  <2>4. NamesIn(dir) = <<>> BY <2>2, <2>3, FilesEqual
  <2> QED BY <1>2, <1>5, <2>1, <2>4
<1>15. Busy'
  BY <1>2, <1>3, <1>9, <1>11, <1>13, <1>14 DEF Busy
<1>16. WriterOK' BY <1>9, <1>13, <1>15 DEF WriterOK
<1>17. file' = file /\ IsFile(file) BY <1>2, <1>6 DEF ArchiveOK
<1>18. ReaderOK' BY <1>2, <1>17 DEF ArchiveOK, ReaderOK
<1>19. EndsGood(file', added') BY <1>2, <1>17 DEF ArchiveOK
<1> QED BY <1>16, <1>17, <1>18, <1>19 DEF ArchiveOK

(***************************************************************************)
(* Reading a whole archive.                                                *)
(***************************************************************************)
LEMMA LastEnd ==
  ASSUME NEW f, NEW s \in Nat, NEW dir, Whole(f, s, dir)
  PROVE  /\ EndAt(s, dir) \in 1 .. Len(f) /\ f[EndAt(s, dir)] = End(s, Len(dir))
         /\ EndOfArchive(f) = EndAt(s, dir)
         /\ Len(f) - EndAt(s, dir) <= Window => Located(f) = EndAt(s, dir)
<1>1. IsDir(f, dir, s) /\ IsFile(dir) /\ Len(dir) \in Nat /\ Len(f) \in Nat /\ Settled(f, s, dir)
      /\ DOMAIN f = 1 .. Len(f)
  BY DirIsFile, FileIsSeq DEF Whole, Settled, IsFile
<1>2. PICK at : at = EndAt(s, dir) OBVIOUS
<1>3. at \in s + 1 .. Len(f) /\ at \in 1 .. Len(f) BY <1>1, <1>2 DEF Whole, PutBack, EndAt
<1>4. f[at] = End(s, Len(dir))
  <2>1. f[at] = EndCell(s, dir, at) BY <1>2, <1>3, <1>1 DEF Whole, PutBack
  <2> QED BY <1>1, <1>2, <2>1, DirCells
<1>5. f[at].kind = "end" BY <1>4 DEF End
<1>6. ASSUME NEW i \in DOMAIN f, f[i].kind = "end" PROVE i = at
  <2>1. PutBack(f, s, dir, at) BY <1>2 DEF Whole
  <2> QED BY <1>1, <1>2, <1>6, <2>1, BackEnds
<1>7. EndOfArchive(f) = at
  <2>1. {i \in DOMAIN f : f[i].kind = "end"} \cup {0} = {at, 0} BY <1>1, <1>3, <1>5, <1>6
  <2>2. at \in Nat /\ \A x \in {at, 0} : at >= x BY <1>3
  <2>3. Max({at, 0}) = at BY <2>2, MaxIs
  <2> QED BY <2>1, <2>3 DEF EndOfArchive
<1>8. ASSUME Len(f) - at <= Window PROVE Located(f) = at
  <2>1. EndRecords(f) = {at} BY <1>1, <1>3, <1>5, <1>6, <1>8 DEF EndRecords
  <2>2. at \in Nat /\ \A x \in {at} : at >= x BY <1>3
  <2>3. Max({at}) = at BY <2>2, MaxIs
  <2> QED BY <2>1, <2>3 DEF Located
<1> QED BY <1>2, <1>3, <1>4, <1>7, <1>8

LEMMA WholeIsRead ==
  ASSUME NEW f, NEW s \in Nat, NEW dir, Whole(f, s, dir), Len(f) - EndAt(s, dir) <= Window
  PROVE  IsArchive(f) /\ f[Located(f)].at = s /\ DirectoryOf(f) = dir
<1>1. IsDir(f, dir, s) /\ IsFile(dir) /\ Len(dir) \in Nat /\ Len(f) \in Nat /\ IsFile(f)
      /\ s <= Len(f)
  BY DirIsFile DEF Whole, Settled, IsFile
<1>2. PICK at, end : at = EndAt(s, dir) /\ end = f[at] OBVIOUS
<1>3. at \in 1 .. Len(f) /\ end = End(s, Len(dir)) /\ Located(f) = at BY <1>2, LastEnd
<1>4. end.at = s /\ end.total = Len(dir) BY <1>3 DEF End
<1>5. at = s + Len(dir) + 1 BY <1>2 DEF EndAt
<1>6. ASSUME NEW i \in 1 .. Len(dir) PROVE f[s + i] = dir[i]
  <2>1. s + i \in s + 1 .. at BY <1>1, <1>5
  <2>2. f[s + i] = EndCell(s, dir, s + i) BY <1>2, <2>1 DEF Whole, PutBack
  <2> QED BY <1>1, <2>2, DirCells
<1>7. ASSUME NEW i \in 1 .. Len(dir)
      PROVE  dir[i].kind = "entry" /\ dir[i].at + 1 + Sizes[dir[i].name] <= Len(f)
  <2>1. PICK e : e = dir[i] OBVIOUS
  <2>2. Holds(f, e, s) BY <1>1, <2>1 DEF IsDir
  <2>3. e.kind = "entry" /\ e.at \in Nat /\ Sizes[e.name] \in Nat /\ e.at + 2 + Sizes[e.name] <= s
    BY <2>2, SizesAssumption DEF Holds
  <2>4. e.at + 1 + Sizes[e.name] <= Len(f) BY <1>1, <2>3
  <2> QED BY <2>1, <2>3, <2>4
<1>8. IsDirectory(f, end, Len(f))
  <2>1. s + Len(dir) <= Len(f) BY <1>1, <1>3, <1>5
  <2> QED BY <1>4, <1>6, <1>7, <2>1 DEF IsDirectory
<1>9. IsArchive(f)
  <2>1. Located(f) = at /\ at # 0 BY <1>3
  <2>2. f[Located(f)] = end BY <1>2, <2>1
  <2>3. IsDirectory(f, f[Located(f)], Len(f)) BY <1>8, <2>2
  <2> QED BY <2>1, <2>3 DEF IsArchive
<1>10. PICK cells : cells = Cells(f, s, Len(dir)) OBVIOUS
<1>11. cells = dir
  <2>1. s + Len(dir) <= Len(f) BY <1>1, <1>3, <1>5
  <2>2. IsFile(cells) /\ Len(cells) = Len(dir) /\ \A i \in 1 .. Len(dir) : cells[i] = f[s + i]
    BY <1>1, <1>10, <2>1, CutFile
  <2> QED BY <1>1, <1>6, <2>2, FilesEqual
<1>12. DirectoryOf(f) = dir BY <1>2, <1>3, <1>4, <1>10, <1>11 DEF DirectoryOf
<1> QED BY <1>2, <1>3, <1>4, <1>9, <1>12

LEMMA ExtractedIs ==
  ASSUME NEW f, IsFile(f), NEW e, NEW t \in Nat, t <= Len(f), Holds(f, e, t)
  PROVE  Extracted(f, e) = Data(e.name)
<1>1. /\ e.at \in Nat /\ Sizes[e.name] \in Nat \ {0} /\ e.at + 2 + Sizes[e.name] <= t
      /\ f[e.at + 1] = Local(e.name)
      /\ \A i \in 1 .. Sizes[e.name] : f[e.at + 1 + i] = Data(e.name)[i]
  BY SizesAssumption DEF Holds
<1>2. PICK cells, data, n : cells = Cells(f, e.at + 1, n) /\ data = Data(e.name) /\ n = Sizes[e.name]
  OBVIOUS
<1>3. IsFile(data) /\ Len(data) = n
  <2>1. data = [i \in 1 .. n |-> data[i]] BY <1>2 DEF Data
  <2> QED BY <1>1, <1>2, <2>1, FunctionIsFile
<1>4. IsFile(cells) /\ Len(cells) = n /\ \A i \in 1 .. n : cells[i] = f[e.at + 1 + i]
  <2>1. e.at + 1 \in Nat /\ n \in Nat /\ e.at + 1 + n <= Len(f) BY <1>1, <1>2 DEF IsFile
  <2>2. PICK a : a = e.at + 1 OBVIOUS
  <2>3. IsFile(Cells(f, a, n)) /\ Len(Cells(f, a, n)) = n
        /\ \A i \in 1 .. n : Cells(f, a, n)[i] = f[a + i]
    BY <2>1, <2>2, CutFile
  <2> QED BY <1>2, <2>2, <2>3
<1>5. cells = data BY <1>1, <1>2, <1>3, <1>4, FilesEqual
<1>6. f[e.at + 1].kind = "local" BY <1>1 DEF Local
<1> QED BY <1>2, <1>5, <1>6 DEF Extracted

LEMMA ReopenStep ==
  ASSUME ArchiveOK, Reopen
  PROVE  ArchiveOK'
<1>1. w.at = "between" /\ exists /\ file' = file /\ r' = r /\ added' = added BY DEF Reopen
<1>2. PICK n \in w.todo :
        IF IsArchive(file) THEN StartAdd(n, file[Located(file)].at, DirectoryOf(file), FALSE)
        ELSE w' = [w EXCEPT !.todo = {}, !.ok = FALSE]
  BY DEF Reopen
<1>3. IsWriter(w) /\ n \in DOMAIN Sizes /\ IsFile(file) BY DEF ArchiveOK, WriterOK, IsWriter
<1>4. Ready BY <1>1, <1>2 DEF ArchiveOK, WriterOK
<1>5. PICK s \in Nat : \E dir : /\ Whole(file, s, dir) /\ NamesIn(dir) = added
                                /\ Len(file) = EndAt(s, dir) /\ Len(dir) # 0 /\ Begins(r.dir, dir)
  BY <1>1, <1>4 DEF Ready
<1>6. PICK dir : /\ Whole(file, s, dir) /\ NamesIn(dir) = added
                 /\ Len(file) = EndAt(s, dir) /\ Len(dir) # 0 /\ Begins(r.dir, dir)
  BY <1>5
<1>7. IsArchive(file) /\ file[Located(file)].at = s /\ DirectoryOf(file) = dir
  <2>1. Len(file) - EndAt(s, dir) <= Window BY <1>3, <1>6, WindowAssumption DEF IsFile
  <2> QED BY <1>6, <2>1, WholeIsRead
<1>8. PICK f, v, created, v2, first :
        f = file /\ v = w /\ created = FALSE /\ v2 = w' /\ first = r.dir
  OBVIOUS
<1>9. v2 = Started(v, n, s, dir, created) BY <1>2, <1>7, <1>8 DEF StartAdd, Started
<1>10. Settled(f, s, dir) /\ OnTheWay(f, s, dir, n, s) BY <1>3, <1>6, <1>8, WayFrom DEF Whole
<1>11. IsWriter(v) /\ created \in BOOLEAN /\ Begins(first, dir) BY <1>3, <1>6, <1>8
<1>12. /\ IsWriter(v2) /\ v2.at = "add" /\ v2.created = created /\ v2.name = n
       /\ Adds(v2, f, first, s, dir)
  BY <1>3, <1>9, <1>10, <1>11, StartsAdding
<1>13. Busy' BY <1>1, <1>3, <1>6, <1>8, <1>10, <1>12 DEF Busy
<1>14. WriterOK' BY <1>8, <1>12, <1>13 DEF WriterOK
<1>15. ReaderOK' BY <1>1 DEF ArchiveOK, ReaderOK
<1>16. EndsGood(file', added') BY <1>1 DEF ArchiveOK
<1> QED BY <1>1, <1>3, <1>14, <1>15, <1>16 DEF ArchiveOK

LEMMA PutStep ==
  ASSUME ArchiveOK, Put
  PROVE  ArchiveOK'
<1>1. /\ w.at \in {"add", "finalize"} /\ w.left # <<>>
      /\ file' = file /\ r' = r /\ added' = added
  BY DEF Put
<1>2. IsWriter(w) /\ Busy BY <1>1 DEF ArchiveOK, WriterOK
<1>3. PICK s \in Nat : \E dir :
        /\ Settled(file, s, dir) /\ NamesIn(dir) = added
        /\ w.created <=> Len(dir) = 0
        /\ w.name \in DOMAIN Sizes
        /\ Adds(w, file, r.dir, s, dir) \/ Restores(w, file, r.dir, s, dir)
  BY <1>2 DEF Busy
<1>4. PICK dir :
        /\ Settled(file, s, dir) /\ NamesIn(dir) = added
        /\ w.created <=> Len(dir) = 0
        /\ w.name \in DOMAIN Sizes
        /\ Adds(w, file, r.dir, s, dir) \/ Restores(w, file, r.dir, s, dir)
  BY <1>3
<1>5. PICK f, v, v2, first : f = file /\ v = w /\ v2 = w' /\ first = r.dir OBVIOUS
<1>6. v2 = HasPut(v) BY <1>5 DEF Put, HasPut
<1>7. IsWriter(v) /\ v.left # <<>> BY <1>1, <1>2, <1>5
<1>8. ASSUME NEW end, ToWrite(v, s, dir, end)
      PROVE  /\ IsWriter(v2) /\ ToWrite(v2, s, dir, end)
             /\ v2.at = v.at /\ v2.name = v.name /\ v2.size = v.size /\ v2.dir = v.dir
             /\ v2.pos = v.pos /\ v2.ok = v.ok /\ v2.created = v.created
  BY <1>6, <1>7, <1>8, Puts
<1>9. ASSUME Adds(v, f, first, s, dir)
      PROVE  IsWriter(v2) /\ v2.at = v.at /\ v2.name = v.name /\ v2.created = v.created
             /\ Adds(v2, f, first, s, dir)
  <2>1. PICK end : end = IF v.at = "add" THEN Behind(s, v.name) ELSE NewEnd(s, dir, v.name) OBVIOUS
  <2>2. ToWrite(v, s, dir, end) BY <1>9, <2>1 DEF Adds
  <2>3. /\ IsWriter(v2) /\ ToWrite(v2, s, dir, end)
        /\ v2.at = v.at /\ v2.name = v.name /\ v2.size = v.size /\ v2.dir = v.dir
        /\ v2.pos = v.pos /\ v2.ok = v.ok /\ v2.created = v.created
    BY <1>8, <2>2
  <2>4. ToWrite(v2, s, dir, IF v2.at = "add" THEN Behind(s, v2.name) ELSE NewEnd(s, dir, v2.name))
    BY <2>1, <2>3
  <2>5. v2.ok /\ OnTheWay(f, s, dir, v2.name, v2.pos) BY <1>9, <2>3 DEF Adds
  <2>6. IF v2.at = "add" THEN v2.size = s /\ v2.dir = dir
        ELSE v2.size = Behind(s, v2.name) /\ v2.dir = Larger(s, dir, v2.name)
    BY <1>9, <2>3 DEF Adds
  <2>7. v2.at = "close" => v2.pos = NewEnd(s, dir, v2.name) BY <1>9, <2>3 DEF Adds
  <2>8. Begins(first, IF v2.pos = NewEnd(s, dir, v2.name) THEN Larger(s, dir, v2.name) ELSE dir)
    BY <1>9, <2>3 DEF Adds
  <2> QED BY <2>3, <2>4, <2>5, <2>6, <2>7, <2>8 DEF Adds
<1>10. ASSUME Restores(v, f, first, s, dir)
       PROVE  IsWriter(v2) /\ v2.at = v.at /\ v2.name = v.name /\ v2.created = v.created
              /\ Restores(v2, f, first, s, dir)
  BY <1>8, <1>10 DEF Restores
<1>11. /\ IsWriter(v2) /\ v2.at = v.at /\ v2.name = v.name /\ v2.created = v.created
       /\ Adds(v2, f, first, s, dir) \/ Restores(v2, f, first, s, dir)
  BY <1>4, <1>5, <1>9, <1>10
<1>12. Busy' BY <1>1, <1>4, <1>5, <1>11 DEF Busy
<1>13. WriterOK' BY <1>1, <1>5, <1>11, <1>12 DEF WriterOK
<1>14. ReaderOK' BY <1>1 DEF ArchiveOK, ReaderOK
<1>15. EndsGood(file', added') /\ IsFile(file') BY <1>1 DEF ArchiveOK
<1> QED BY <1>13, <1>14, <1>15 DEF ArchiveOK

(* What a writer keeps while it writes *)
Keeps(v, v2) == IsWriter(v2) /\ v2.at = v.at /\ v2.name = v.name /\ v2.created = v.created

LEMMA AddsFlushed ==
  ASSUME NEW v, IsWriter(v), v.name \in DOMAIN Sizes, NEW f, NEW first, IsFile(first),
         NEW s \in Nat, NEW dir, Settled(f, s, dir), Adds(v, f, first, s, dir), v.buf # <<>>,
         NEW v2, v2 = HasFlushed(v), NEW g, g = Overwritten(f, v.pos, v.buf)
  PROVE  /\ IsFile(g) /\ Len(f) <= Len(g) /\ Settled(g, s, dir)
         /\ IsDir(g, first, Len(g)) /\ EndsGood(g, NamesIn(dir))
         /\ Keeps(v, v2) /\ Adds(v2, g, first, s, dir)
<1>1. PICK n, end, to, cells, p :
        /\ n = v.name /\ end = NewEnd(s, dir, n) /\ cells = v.buf /\ p = v.pos
        /\ to = IF v.at = "add" THEN Behind(s, n) ELSE end
  OBVIOUS
<1>2. /\ p \in Nat /\ Len(cells) \in Nat /\ end \in Nat /\ p + Len(cells) <= end
      /\ n \in DOMAIN Sizes
  BY <1>1, AddsUpTo
<1>3. OnTheWay(f, s, dir, n, p) /\ ToWrite(v, s, dir, to) /\ v.ok BY <1>1 DEF Adds
<1>4. IsFile(cells) /\ \A i \in 1 .. Len(cells) : cells[i] = NewCell(s, dir, n, p + i)
  BY <1>1, <1>3 DEF ToWrite, Target
<1>5. Len(cells) # 0
  <2>1. IsFile(<<>>) /\ Len(<<>>) = 0 BY EmptyIsFile
  <2> QED BY <1>1, <1>4, <2>1, FilesEqual
<1>6. PICK q : q = p + Len(cells) OBVIOUS
<1>7. /\ IsFile(g) /\ Len(f) <= Len(g) /\ Settled(g, s, dir) /\ OnTheWay(g, s, dir, n, q)
  <2>1. g = Overwritten(f, p, cells) /\ p + Len(cells) <= NewEnd(s, dir, n) BY <1>1, <1>2
  <2>2. n \in DOMAIN Sizes /\ IsFile(cells) /\ OnTheWay(f, s, dir, n, p) BY <1>2, <1>3, <1>4
  <2> QED BY <1>4, <1>6, <2>1, <2>2, FlushWay
<1>8. /\ IsWriter(v2) /\ ToWrite(v2, s, dir, to)
      /\ v2.at = v.at /\ v2.name = n /\ v2.size = v.size /\ v2.dir = v.dir
      /\ v2.pos = q /\ v2.ok = v.ok /\ v2.created = v.created
  <2>1. /\ IsWriter(v2) /\ ToWrite(v2, s, dir, to)
        /\ v2.at = v.at /\ v2.name = v.name /\ v2.size = v.size /\ v2.dir = v.dir
        /\ v2.pos = v.pos + Len(v.buf) /\ v2.ok = v.ok /\ v2.created = v.created
    BY <1>3, Flushes
  <2> QED BY <1>1, <1>6, <2>1
<1>9. Begins(first, dir) /\ p # end
  <2>1. p # end BY <1>2, <1>5
  <2> QED BY <1>1, <2>1 DEF Adds
<1>10. IsFile(dir) BY DirIsFile DEF Settled
<1>11. Begins(first, IF q = end THEN Larger(s, dir, n) ELSE dir)
  BY <1>2, <1>9, <1>10, BeginsFurther
<1>12. IsDir(g, first, Len(g)) BY <1>1, <1>2, <1>7, <1>11, ReadsOnTheWay
<1>13. EndsGood(g, NamesIn(dir)) BY <1>2, <1>7, EndsGoodWay
<1>14. v.at = "close" => v2.pos = end
  BY <1>1, <1>9 DEF Adds
<1>15. IF v2.at = "add" THEN v2.size = s /\ v2.dir = dir
       ELSE v2.size = Behind(s, v2.name) /\ v2.dir = Larger(s, dir, v2.name)
  BY <1>1, <1>8 DEF Adds
<1>16. ToWrite(v2, s, dir, IF v2.at = "add" THEN Behind(s, v2.name) ELSE NewEnd(s, dir, v2.name))
  BY <1>1, <1>8
<1>17. v2.ok BY <1>3, <1>8
<1>18. OnTheWay(g, s, dir, v2.name, v2.pos) BY <1>7, <1>8
<1>19. Begins(first, IF v2.pos = NewEnd(s, dir, v2.name) THEN Larger(s, dir, v2.name) ELSE dir)
  BY <1>1, <1>8, <1>11
<1>20. v2.at = "close" => v2.pos = NewEnd(s, dir, v2.name) BY <1>1, <1>8, <1>14
<1>21. Adds(v2, g, first, s, dir)
  BY <1>15, <1>16, <1>17, <1>18, <1>19, <1>20 DEF Adds
<1>22. Keeps(v, v2) BY <1>1, <1>8 DEF Keeps
<1> QED BY <1>7, <1>12, <1>13, <1>21, <1>22

LEMMA RestoresFlushed ==
  ASSUME NEW v, IsWriter(v), NEW f, NEW first, IsFile(first),
         NEW s \in Nat, NEW dir, Settled(f, s, dir), Restores(v, f, first, s, dir),
         NEW v2, v2 = HasFlushed(v), NEW g, g = Overwritten(f, v.pos, v.buf)
  PROVE  /\ IsFile(g) /\ Len(f) <= Len(g) /\ Settled(g, s, dir)
         /\ IsDir(g, first, Len(g)) /\ EndsGood(g, NamesIn(dir))
         /\ Keeps(v, v2) /\ Restores(v2, g, first, s, dir)
<1>1. PICK end, cells, p : end = EndAt(s, dir) /\ cells = v.buf /\ p = v.pos OBVIOUS
<1>2. p \in Nat /\ Len(cells) \in Nat /\ p + Len(cells) <= end BY <1>1, RestoresUpTo
<1>3. PutBack(f, s, dir, p) /\ ToWrite(v, s, dir, end) /\ ~v.ok /\ Begins(first, dir)
  BY <1>1 DEF Restores
<1>4. IsFile(cells) /\ \A i \in 1 .. Len(cells) : cells[i] = EndCell(s, dir, p + i)
  BY <1>1, <1>3 DEF ToWrite, Target
<1>5. PICK q : q = p + Len(cells) OBVIOUS
<1>6. /\ IsFile(g) /\ Len(f) <= Len(g) /\ Settled(g, s, dir) /\ PutBack(g, s, dir, q)
  <2>1. g = Overwritten(f, p, cells) /\ p + Len(cells) <= EndAt(s, dir) BY <1>1, <1>2
  <2> QED BY <1>3, <1>4, <1>5, <2>1, FlushBack
<1>7. /\ IsWriter(v2) /\ ToWrite(v2, s, dir, end)
      /\ v2.at = v.at /\ v2.name = v.name /\ v2.size = v.size /\ v2.dir = v.dir
      /\ v2.pos = q /\ v2.ok = v.ok /\ v2.created = v.created
  <2>1. /\ IsWriter(v2) /\ ToWrite(v2, s, dir, end)
        /\ v2.at = v.at /\ v2.name = v.name /\ v2.size = v.size /\ v2.dir = v.dir
        /\ v2.pos = v.pos + Len(v.buf) /\ v2.ok = v.ok /\ v2.created = v.created
    BY <1>3, Flushes
  <2> QED BY <1>1, <1>5, <2>1
<1>8. IsDir(g, first, Len(g)) BY <1>3, <1>6, ReadsOfDir
<1>9. EndsGood(g, NamesIn(dir)) BY <1>6, EndsGoodBack
<1>10. ~v2.ok BY <1>3, <1>7
<1>11. v2.at = "finalize" /\ v2.size = s /\ v2.dir = dir BY <1>7 DEF Restores
<1>12. Restores(v2, g, first, s, dir) BY <1>1, <1>3, <1>6, <1>7, <1>10, <1>11 DEF Restores
<1>13. Keeps(v, v2) BY <1>7 DEF Keeps
<1> QED BY <1>6, <1>8, <1>9, <1>12, <1>13

LEMMA FlushStep ==
  ASSUME ArchiveOK, Flush
  PROVE  ArchiveOK'
<1>1. /\ w.at \in {"add", "finalize"} /\ w.buf # <<>>
      /\ file' = Overwritten(file, w.pos, w.buf) /\ r' = r /\ added' = added
  BY DEF Flush
<1>2. IsWriter(w) /\ Busy BY <1>1 DEF ArchiveOK, WriterOK
<1>3. PICK s \in Nat : \E dir :
        /\ Settled(file, s, dir) /\ NamesIn(dir) = added
        /\ w.created <=> Len(dir) = 0
        /\ w.name \in DOMAIN Sizes
        /\ Adds(w, file, r.dir, s, dir) \/ Restores(w, file, r.dir, s, dir)
  BY <1>2 DEF Busy
<1>4. PICK dir :
        /\ Settled(file, s, dir) /\ NamesIn(dir) = added
        /\ w.created <=> Len(dir) = 0
        /\ w.name \in DOMAIN Sizes
        /\ Adds(w, file, r.dir, s, dir) \/ Restores(w, file, r.dir, s, dir)
  BY <1>3
<1>5. PICK f, v, v2, first, g : f = file /\ v = w /\ v2 = w' /\ first = r.dir /\ g = file' OBVIOUS
<1>6. v2 = HasFlushed(v) BY <1>5 DEF Flush, HasFlushed
<1>7. /\ IsWriter(v) /\ v.buf # <<>> /\ v.name \in DOMAIN Sizes /\ IsFile(first)
      /\ Settled(f, s, dir) /\ g = Overwritten(f, v.pos, v.buf)
  BY <1>1, <1>2, <1>4, <1>5, ReaderFacts DEF ArchiveOK
<1>8. \/ Adds(v, f, first, s, dir) \/ Restores(v, f, first, s, dir) BY <1>4, <1>5
<1>9. /\ IsFile(g) /\ Len(f) <= Len(g) /\ Settled(g, s, dir)
      /\ IsDir(g, first, Len(g)) /\ EndsGood(g, NamesIn(dir))
  <2>1. CASE Adds(v, f, first, s, dir) BY <1>6, <1>7, <2>1, AddsFlushed
  <2>2. CASE Restores(v, f, first, s, dir) BY <1>6, <1>7, <2>2, RestoresFlushed
  <2> QED BY <1>8, <2>1, <2>2
<1>10. Keeps(v, v2)
  <2>1. CASE Adds(v, f, first, s, dir) BY <1>6, <1>7, <2>1, AddsFlushed
  <2>2. CASE Restores(v, f, first, s, dir) BY <1>6, <1>7, <2>2, RestoresFlushed
  <2> QED BY <1>8, <2>1, <2>2
<1>11. Adds(v2, g, first, s, dir) \/ Restores(v2, g, first, s, dir)
  <2>1. CASE Adds(v, f, first, s, dir) BY <1>6, <1>7, <2>1, AddsFlushed
  <2>2. CASE Restores(v, f, first, s, dir) BY <1>6, <1>7, <2>2, RestoresFlushed
  <2> QED BY <1>8, <2>1, <2>2
<1>12. Busy' BY <1>1, <1>4, <1>5, <1>9, <1>10, <1>11 DEF Busy, Keeps
<1>13. WriterOK' BY <1>1, <1>5, <1>10, <1>12 DEF WriterOK, Keeps
<1>14. ReaderOK'
  <2>1. /\ ReaderOK /\ r' = r /\ IsFile(file) /\ IsFile(file') /\ Len(file) <= Len(file')
        /\ IsDir(file', r.dir, Len(file')) /\ OfAdded(r.dir, added')
    BY <1>1, <1>5, <1>9, ReaderFacts DEF ArchiveOK
  <2> QED BY <2>1, ReaderKept
<1>15. EndsGood(file', added') /\ IsFile(file') BY <1>1, <1>4, <1>5, <1>9
<1> QED BY <1>13, <1>14, <1>15 DEF ArchiveOK

HasFailed(v) ==
  [v EXCEPT !.at = IF v.at = "add" THEN "finalize" ELSE "close",
            !.pos = v.size, !.buf = <<>>, !.ok = FALSE,
            !.left = IF v.at = "add" THEN Ending(v.size, v.dir) ELSE <<>>]

LEMMA FailedIs ==
  ASSUME NEW v, IsWriter(v), NEW v2, v2 = HasFailed(v)
  PROVE  /\ IsWriter(v2) /\ v2.name = v.name /\ v2.created = v.created /\ ~v2.ok
         /\ v2.size = v.size /\ v2.dir = v.dir /\ v2.pos = v.size /\ v2.buf = <<>>
         /\ v.at = "add" => v2.at = "finalize" /\ v2.left = Ending(v.size, v.dir)
         /\ v.at # "add" => v2.at = "close" /\ v2.left = <<>>
<1>1. CASE v.at = "add" BY <1>1 DEF IsWriter, HasFailed
<1>2. CASE v.at # "add" BY <1>2 DEF IsWriter, HasFailed
<1> QED BY <1>1, <1>2

(* What a failed write has written *)
LEMMA BrokenOff ==
  ASSUME NEW buf, IsFile(buf), NEW k \in 0 .. Len(buf) - 1, NEW cells, cells = SubSeq(buf, 1, k)
  PROVE  IsFile(cells) /\ Len(cells) = k /\ k \in Nat /\ \A i \in 1 .. k : cells[i] = buf[i]
<1>1. Len(buf) \in Nat /\ k \in Nat /\ 0 + k <= Len(buf) BY DEF IsFile
<1>2. /\ IsFile(Cells(buf, 0, k)) /\ Len(Cells(buf, 0, k)) = k
      /\ \A i \in 1 .. k : Cells(buf, 0, k)[i] = buf[0 + i]
  BY <1>1, CutFile
<1>3. Cells(buf, 0, k) = cells BY <1>1 DEF Cells
<1>4. \A i \in 1 .. k : 0 + i = i OBVIOUS
<1> QED BY <1>1, <1>2, <1>3, <1>4

LEMMA AddsBrokenOff ==
  ASSUME NEW v, IsWriter(v), v.name \in DOMAIN Sizes, NEW f, NEW first, IsFile(first),
         NEW s \in Nat, NEW dir, Settled(f, s, dir), Adds(v, f, first, s, dir),
         NEW k \in 0 .. Len(v.buf) - 1, NEW g, g = Overwritten(f, v.pos, SubSeq(v.buf, 1, k))
  PROVE  /\ IsFile(g) /\ Len(f) <= Len(g) /\ Settled(g, s, dir)
         /\ IsDir(g, first, Len(g)) /\ EndsGood(g, NamesIn(dir)) /\ Begins(first, dir)
         /\ v.at = "add" => PutBack(g, s, dir, s)
<1>1. PICK n, end, b, buf, cells, p :
        /\ n = v.name /\ end = NewEnd(s, dir, n) /\ b = Behind(s, n) /\ buf = v.buf /\ p = v.pos
        /\ cells = SubSeq(buf, 1, k)
  OBVIOUS
<1>2. /\ p \in Nat /\ Len(buf) \in Nat /\ end \in Nat /\ b \in Nat /\ p + Len(buf) <= end
      /\ n \in DOMAIN Sizes /\ k \in 0 .. Len(buf) - 1
      /\ v.at = "add" => p + Len(buf) <= b
  BY <1>1, AddsUpTo
<1>3. OnTheWay(f, s, dir, n, p) /\ v.ok BY <1>1 DEF Adds
<1>4. IsFile(buf) /\ \A i \in 1 .. Len(buf) : buf[i] = NewCell(s, dir, n, p + i)
  BY <1>1, <1>3 DEF Adds, ToWrite, Target
<1>5. IsFile(cells) /\ Len(cells) = k /\ k \in Nat /\ \A i \in 1 .. k : cells[i] = buf[i]
  <2>1. cells = SubSeq(buf, 1, k) BY <1>1
  <2> QED BY <1>2, <1>4, <2>1, BrokenOff
<1>6. \A i \in 1 .. Len(cells) : cells[i] = NewCell(s, dir, n, p + i) BY <1>2, <1>4, <1>5
<1>7. /\ p + Len(cells) <= end /\ p + k < end /\ p # end
      /\ v.at = "add" => p + k <= b
  BY <1>1, <1>2, <1>5
<1>8. PICK q : q = p + k OBVIOUS
<1>9. IsFile(g) /\ Len(f) <= Len(g) /\ Settled(g, s, dir) /\ OnTheWay(g, s, dir, n, q)
  <2>1. g = Overwritten(f, p, cells) /\ p + Len(cells) <= NewEnd(s, dir, n) /\ q = p + Len(cells)
    BY <1>1, <1>5, <1>7, <1>8
  <2>2. n \in DOMAIN Sizes /\ IsFile(cells) /\ OnTheWay(f, s, dir, n, p) BY <1>2, <1>3, <1>5
  <2> QED BY <1>6, <2>1, <2>2, FlushWay
<1>10. Begins(first, dir) BY <1>1, <1>7 DEF Adds
<1>11. IsDir(g, first, Len(g)) BY <1>9, <1>10, ReadsOfDir
<1>12. EndsGood(g, NamesIn(dir)) BY <1>2, <1>9, EndsGoodWay
<1>13. ASSUME v.at = "add" PROVE PutBack(g, s, dir, s)
  <2>1. q <= Behind(s, n) BY <1>1, <1>7, <1>8, <1>13
  <2> QED BY <1>2, <1>9, <2>1, WayToBack
<1> QED BY <1>9, <1>10, <1>11, <1>12, <1>13

LEMMA RestoresBrokenOff ==
  ASSUME NEW v, IsWriter(v), NEW f, NEW first, IsFile(first),
         NEW s \in Nat, NEW dir, Settled(f, s, dir), Restores(v, f, first, s, dir),
         NEW k \in 0 .. Len(v.buf) - 1, NEW g, g = Overwritten(f, v.pos, SubSeq(v.buf, 1, k))
  PROVE  /\ IsFile(g) /\ Len(f) <= Len(g)
         /\ IsDir(g, first, Len(g)) /\ EndsGood(g, NamesIn(dir))
<1>1. PICK end, buf, cells, p :
        end = EndAt(s, dir) /\ buf = v.buf /\ p = v.pos /\ cells = SubSeq(buf, 1, k)
  OBVIOUS
<1>2. /\ p \in Nat /\ Len(buf) \in Nat /\ end \in Nat /\ p + Len(buf) <= end
      /\ k \in 0 .. Len(buf) - 1
  BY <1>1, RestoresUpTo
<1>3. PutBack(f, s, dir, p) /\ ToWrite(v, s, dir, end) /\ ~v.ok /\ Begins(first, dir)
  BY <1>1 DEF Restores
<1>4. IsFile(buf) /\ \A i \in 1 .. Len(buf) : buf[i] = EndCell(s, dir, p + i)
  BY <1>1, <1>3 DEF ToWrite, Target
<1>5. IsFile(cells) /\ Len(cells) = k /\ k \in Nat /\ \A i \in 1 .. k : cells[i] = buf[i]
  <2>1. cells = SubSeq(buf, 1, k) BY <1>1
  <2> QED BY <1>2, <1>4, <2>1, BrokenOff
<1>6. \A i \in 1 .. Len(cells) : cells[i] = EndCell(s, dir, p + i) BY <1>2, <1>4, <1>5
<1>7. p + Len(cells) <= EndAt(s, dir) /\ g = Overwritten(f, p, cells) BY <1>1, <1>2, <1>5
<1>8. PICK q : q = p + Len(cells) OBVIOUS
<1>9. IsFile(g) /\ Len(f) <= Len(g) /\ Settled(g, s, dir) /\ PutBack(g, s, dir, q)
  BY <1>3, <1>5, <1>6, <1>7, <1>8, FlushBack
<1>10. IsDir(g, first, Len(g)) BY <1>3, <1>9, ReadsOfDir
<1>11. EndsGood(g, NamesIn(dir)) BY <1>9, EndsGoodBack
<1> QED BY <1>9, <1>10, <1>11

(* After a failure in between, the directory of before is put back. *)
LEMMA AddFails ==
  ASSUME NEW v, IsWriter(v), v.at = "add", NEW f, NEW first, NEW s \in Nat, NEW dir,
         Adds(v, f, first, s, dir), Begins(first, dir), NEW g, Settled(g, s, dir),
         PutBack(g, s, dir, s), NEW v2, v2 = HasFailed(v)
  PROVE  Restores(v2, g, first, s, dir)
<1>1. /\ IsWriter(v2) /\ ~v2.ok /\ v2.size = v.size /\ v2.dir = v.dir /\ v2.pos = v.size
      /\ v2.buf = <<>> /\ v2.at = "finalize" /\ v2.left = Ending(v.size, v.dir)
  BY FailedIs
<1>2. v.size = s /\ v.dir = dir BY DEF Adds
<1>3. IsFile(dir) /\ Len(dir) \in Nat BY DirIsFile DEF Settled, IsFile
<1>4. PICK left : left = Ending(s, dir) OBVIOUS
<1>5. /\ IsFile(left) /\ Len(left) = Len(dir) + 1
      /\ \A i \in 1 .. Len(dir) + 1 : left[i] = EndCell(s, dir, s + i)
  <2>1. \A i \in 1 .. Len(dir) : dir[i] = Entry(dir[i].name, dir[i].at)
    BY DEF Settled, IsDir, Holds, Entry
  <2> QED BY <1>3, <1>4, <2>1, EndingCells
<1>6. ASSUME NEW i \in 1 .. Len(left) PROVE left[i] = Target(v2, s, dir, s + 0 + i)
  <2>1. s + 0 + i = s + i OBVIOUS
  <2> QED BY <1>1, <1>5, <2>1 DEF Target
<1>7. ToWrite(v2, s, dir, EndAt(s, dir))
  <2>1. IsFile(v2.buf) /\ Len(v2.buf) = 0 BY <1>1, EmptyIsFile
  <2>2. v2.left = left /\ v2.pos = s BY <1>1, <1>2, <1>4
  <2>3. s + 0 + Len(left) = EndAt(s, dir) BY <1>3, <1>5 DEF EndAt
  <2> QED BY <1>5, <1>6, <2>1, <2>2, <2>3 DEF ToWrite
<1> QED BY <1>1, <1>2, <1>7 DEF Restores

LEMMA NoNames ==
  ASSUME NEW dir, IsFile(dir), Len(dir) = 0
  PROVE  NamesIn(dir) = <<>>
<1>1. IsFile(NamesIn(dir)) /\ Len(NamesIn(dir)) = 0 BY NamesCells
<1>2. IsFile(<<>>) /\ Len(<<>>) = 0 BY EmptyIsFile
<1> QED BY <1>1, <1>2, FilesEqual

LEMMA FlushFailsStep ==
  ASSUME ArchiveOK, FlushFails
  PROVE  ArchiveOK'
<1>1. /\ w.at \in {"add", "finalize"} /\ w.buf # <<>> /\ r' = r /\ added' = added
      /\ torn' = (torn \/ w.at = "finalize")
  BY DEF FlushFails
<1>2. PICK k \in 0 .. Len(w.buf) - 1 : file' = Overwritten(file, w.pos, SubSeq(w.buf, 1, k))
  BY DEF FlushFails
<1>3. IsWriter(w) /\ Busy BY <1>1 DEF ArchiveOK, WriterOK
<1>4. PICK s \in Nat : \E dir :
        /\ Settled(file, s, dir) /\ NamesIn(dir) = added
        /\ w.created <=> Len(dir) = 0
        /\ w.name \in DOMAIN Sizes
        /\ Adds(w, file, r.dir, s, dir) \/ Restores(w, file, r.dir, s, dir)
  BY <1>3 DEF Busy
<1>5. PICK dir :
        /\ Settled(file, s, dir) /\ NamesIn(dir) = added
        /\ w.created <=> Len(dir) = 0
        /\ w.name \in DOMAIN Sizes
        /\ Adds(w, file, r.dir, s, dir) \/ Restores(w, file, r.dir, s, dir)
  BY <1>4
<1>6. PICK f, v, v2, first, g : f = file /\ v = w /\ v2 = w' /\ first = r.dir /\ g = file' OBVIOUS
<1>7. v2 = HasFailed(v) BY <1>6 DEF FlushFails, Fail, HasFailed
<1>8. /\ IsWriter(v) /\ v.name \in DOMAIN Sizes /\ IsFile(first) /\ Settled(f, s, dir)
      /\ k \in 0 .. Len(v.buf) - 1 /\ g = Overwritten(f, v.pos, SubSeq(v.buf, 1, k))
      /\ v.at \in {"add", "finalize"}
  BY <1>1, <1>2, <1>3, <1>5, <1>6, ReaderFacts DEF ArchiveOK
<1>9. Adds(v, f, first, s, dir) \/ Restores(v, f, first, s, dir) BY <1>5, <1>6
<1>10. IsFile(g) /\ Len(f) <= Len(g) /\ IsDir(g, first, Len(g)) /\ EndsGood(g, NamesIn(dir))
  <2>1. CASE Adds(v, f, first, s, dir) BY <1>8, <2>1, AddsBrokenOff
  <2>2. CASE Restores(v, f, first, s, dir) BY <1>8, <2>2, RestoresBrokenOff
  <2> QED BY <1>9, <2>1, <2>2
<1>11. /\ IsWriter(v2) /\ v2.name = v.name /\ v2.created = v.created /\ ~v2.ok
       /\ v.at = "add" => v2.at = "finalize"
       /\ v.at # "add" => v2.at = "close"
  BY <1>7, <1>8, FailedIs
<1>12. ASSUME v.at = "add" PROVE Busy'
  <2>1. Adds(v, f, first, s, dir) BY <1>9, <1>12 DEF Restores
  <2>2. Settled(g, s, dir) /\ Begins(first, dir) /\ PutBack(g, s, dir, s)
    BY <1>8, <1>12, <2>1, AddsBrokenOff
  <2>3. Restores(v2, g, first, s, dir) BY <1>7, <1>8, <1>12, <2>1, <2>2, AddFails
  <2> QED BY <1>1, <1>5, <1>6, <1>11, <2>2, <2>3 DEF Busy
<1>13. ASSUME v.at = "finalize" PROVE Over'
  <2>1. torn' BY <1>1, <1>6, <1>13
  <2>2. IsFile(dir) BY <1>8, DirIsFile DEF Settled
  <2>3. v2.created => added' = <<>> BY <1>1, <1>5, <1>6, <1>11, <2>2, NoNames
  <2> QED BY <1>6, <2>1, <2>3 DEF Over
<1>14. WriterOK' BY <1>6, <1>8, <1>11, <1>12, <1>13 DEF WriterOK
<1>15. ReaderOK'
  <2>1. /\ ReaderOK /\ r' = r /\ IsFile(file) /\ IsFile(file') /\ Len(file) <= Len(file')
        /\ IsDir(file', r.dir, Len(file')) /\ OfAdded(r.dir, added')
    BY <1>1, <1>6, <1>10, ReaderFacts DEF ArchiveOK
  <2> QED BY <2>1, ReaderKept
<1>16. EndsGood(file', added') /\ IsFile(file') BY <1>1, <1>5, <1>6, <1>10
<1> QED BY <1>14, <1>15, <1>16 DEF ArchiveOK

(* The stream of a file is written, and the directory follows. *)
HasAdded(v) ==
  [v EXCEPT !.at = "finalize", !.dir = Append(v.dir, Entry(v.name, v.size)),
            !.size = v.pos + Len(v.buf),
            !.left = Ending(v.pos + Len(v.buf), Append(v.dir, Entry(v.name, v.size)))]

LEMMA AddsDirectory ==
  ASSUME NEW v, IsWriter(v), v.name \in DOMAIN Sizes, v.at = "add", v.left = <<>>,
         NEW f, NEW first, NEW s \in Nat, NEW dir, Settled(f, s, dir), Adds(v, f, first, s, dir),
         NEW v2, v2 = HasAdded(v)
  PROVE  /\ IsWriter(v2) /\ v2.at = "finalize" /\ v2.name = v.name /\ v2.created = v.created
         /\ Adds(v2, f, first, s, dir)
<1>1. PICK n, b, end, larger, buf, p :
        /\ n = v.name /\ b = Behind(s, n) /\ end = NewEnd(s, dir, n) /\ larger = Larger(s, dir, n)
        /\ buf = v.buf /\ p = v.pos
  OBVIOUS
<1>2. IsFile(dir) /\ Len(dir) \in Nat /\ IsDir(f, dir, s) BY DirIsFile DEF Settled, IsFile
<1>3. /\ IsFile(larger) /\ Len(larger) = Len(dir) + 1 /\ b \in Nat /\ b > s
      /\ end = EndAt(b, larger) /\ end = b + Len(dir) + 2
      /\ \A k \in 1 .. Len(dir) : larger[k] = dir[k]
      /\ larger[Len(dir) + 1] = Entry(n, s)
  <2>1. n \in DOMAIN Sizes BY <1>1
  <2>2. end = b + Len(dir) + 2 BY <1>1 DEF NewEnd
  <2>3. /\ IsFile(larger) /\ Len(larger) = Len(dir) + 1
        /\ \A k \in 1 .. Len(dir) : larger[k] = dir[k]
        /\ larger[Len(dir) + 1] = Entry(n, s)
    <3>1. larger = Larger(s, dir, n) /\ IsFile(dir) BY <1>1, <1>2
    <3> QED BY <2>1, <3>1, LargerCells
  <2>4. b \in Nat /\ b > s BY <1>1, <1>2, <2>1, LargerCells
  <2>5. end = EndAt(b, larger) BY <1>1, <1>2, <2>1, LargerCells
  <2> QED BY <2>2, <2>3, <2>4, <2>5
<1>4. /\ v.ok /\ v.size = s /\ v.dir = dir /\ OnTheWay(f, s, dir, n, p)
      /\ ToWrite(v, s, dir, b)
      /\ Begins(first, IF p = end THEN larger ELSE dir)
  BY <1>1 DEF Adds
<1>5. p \in Nat /\ IsFile(buf) /\ Len(buf) \in Nat /\ p + Len(buf) = b
  <2>1. p \in Nat BY <1>1 DEF IsWriter
  <2>2. IsFile(buf) /\ p + Len(buf) + Len(<<>>) = b BY <1>1, <1>4 DEF ToWrite
  <2> QED BY <2>1, <2>2, EmptyIsFile DEF IsFile
<1>6. /\ IsWriter(v2) /\ v2.at = "finalize" /\ v2.name = n /\ v2.created = v.created
      /\ v2.ok = v.ok /\ v2.pos = p /\ v2.buf = buf /\ v2.size = b /\ v2.dir = larger
      /\ v2.left = Ending(b, larger)
  <2>1. Append(v.dir, Entry(v.name, v.size)) = larger BY <1>1, <1>4 DEF Larger
  <2>2. v2 = [v EXCEPT !.at = "finalize", !.dir = larger, !.size = b, !.left = Ending(b, larger)]
    BY <1>1, <1>5, <2>1 DEF HasAdded
  <2> QED BY <1>1, <1>3, <2>2 DEF IsWriter
<1>7. PICK left : left = Ending(b, larger) OBVIOUS
<1>8. /\ IsFile(left) /\ Len(left) = Len(dir) + 2
      /\ \A i \in 1 .. Len(dir) + 2 : left[i] = EndCell(b, larger, b + i)
  <2>1. ASSUME NEW i \in 1 .. Len(larger) PROVE larger[i] = Entry(larger[i].name, larger[i].at)
    <3>1. CASE i = Len(dir) + 1
      <4>1. Entry(n, s).name = n /\ Entry(n, s).at = s BY DEF Entry
      <4> QED BY <1>3, <3>1, <4>1
    <3>2. CASE i # Len(dir) + 1
      <4>1. i \in 1 .. Len(dir) BY <1>2, <1>3, <3>2
      <4>2. dir[i] = Entry(dir[i].name, dir[i].at) BY <1>2, <4>1 DEF IsDir, Holds, Entry
      <4> QED BY <1>3, <4>1, <4>2
    <3> QED BY <3>1, <3>2
  <2>2. /\ IsFile(left) /\ Len(left) = Len(larger) + 1
        /\ \A i \in 1 .. Len(larger) + 1 : left[i] = EndCell(b, larger, b + i)
    BY <1>3, <1>7, <2>1, EndingCells
  <2>3. Len(larger) + 1 = Len(dir) + 2 BY <1>2, <1>3
  <2> QED BY <2>2, <2>3
<1>9. ASSUME NEW i \in 1 .. Len(left) PROVE left[i] = Target(v2, s, dir, p + Len(buf) + i)
  <2>1. p + Len(buf) + i = b + i /\ ~(b + i <= b) BY <1>2, <1>3, <1>5, <1>8
  <2>2. NewCell(s, dir, n, b + i) = EndCell(b, larger, b + i) BY <1>1, <2>1 DEF NewCell
  <2> QED BY <1>4, <1>6, <1>8, <2>1, <2>2 DEF Target
<1>10. ASSUME NEW i \in 1 .. Len(buf) PROVE buf[i] = Target(v2, s, dir, p + i)
  BY <1>1, <1>4, <1>6 DEF ToWrite, Target
<1>11. p + Len(buf) + Len(left) = end BY <1>2, <1>3, <1>5, <1>8
<1>12. ToWrite(v2, s, dir, end)
  <2>1. v2.pos = p /\ v2.buf = buf /\ v2.left = left BY <1>6, <1>7
  <2>2. IsFile(v2.buf) /\ IsFile(v2.left) BY <1>5, <1>8, <2>1
  <2>3. v2.pos + Len(v2.buf) + Len(v2.left) = end BY <1>11, <2>1
  <2> QED BY <1>9, <1>10, <2>1, <2>2, <2>3 DEF ToWrite
<1>13. v2.ok /\ v2.at # "add" /\ v2.at # "close" BY <1>4, <1>6
<1> QED BY <1>1, <1>4, <1>6, <1>12, <1>13 DEF Adds

LEMMA AddedStep ==
  ASSUME ArchiveOK, Added
  PROVE  ArchiveOK'
<1>1. w.at = "add" /\ w.left = <<>> /\ file' = file /\ r' = r /\ added' = added BY DEF Added
<1>2. IsWriter(w) /\ Busy BY <1>1 DEF ArchiveOK, WriterOK
<1>3. PICK s \in Nat : \E dir :
        /\ Settled(file, s, dir) /\ NamesIn(dir) = added
        /\ w.created <=> Len(dir) = 0
        /\ w.name \in DOMAIN Sizes
        /\ Adds(w, file, r.dir, s, dir) \/ Restores(w, file, r.dir, s, dir)
  BY <1>2 DEF Busy
<1>4. PICK dir :
        /\ Settled(file, s, dir) /\ NamesIn(dir) = added
        /\ w.created <=> Len(dir) = 0
        /\ w.name \in DOMAIN Sizes
        /\ Adds(w, file, r.dir, s, dir) \/ Restores(w, file, r.dir, s, dir)
  BY <1>3
<1>5. PICK f, v, v2, first : f = file /\ v = w /\ v2 = w' /\ first = r.dir OBVIOUS
<1>6. v2 = HasAdded(v) BY <1>5 DEF Added, HasAdded
<1>7. /\ IsWriter(v) /\ v.at = "add" /\ v.left = <<>> /\ v.name \in DOMAIN Sizes
      /\ Settled(f, s, dir) /\ Adds(v, f, first, s, dir)
  BY <1>1, <1>2, <1>4, <1>5 DEF Restores
<1>8. /\ IsWriter(v2) /\ v2.at = "finalize" /\ v2.name = v.name /\ v2.created = v.created
      /\ Adds(v2, f, first, s, dir)
  BY <1>6, <1>7, AddsDirectory
<1>9. Busy' BY <1>1, <1>4, <1>5, <1>8 DEF Busy
<1>10. WriterOK' BY <1>5, <1>8, <1>9 DEF WriterOK
<1>11. ReaderOK' BY <1>1 DEF ArchiveOK, ReaderOK
<1>12. EndsGood(file', added') /\ IsFile(file') BY <1>1 DEF ArchiveOK
<1> QED BY <1>10, <1>11, <1>12 DEF ArchiveOK

LEMMA FinalizedStep ==
  ASSUME ArchiveOK, Finalized
  PROVE  ArchiveOK'
<1>1. /\ w.at = "finalize" /\ w.left = <<>> /\ w.buf = <<>> /\ w' = [w EXCEPT !.at = "close"]
      /\ file' = file /\ r' = r /\ added' = added
  BY DEF Finalized
<1>2. IsWriter(w) /\ Busy BY <1>1 DEF ArchiveOK, WriterOK
<1>3. PICK s \in Nat : \E dir :
        /\ Settled(file, s, dir) /\ NamesIn(dir) = added
        /\ w.created <=> Len(dir) = 0
        /\ w.name \in DOMAIN Sizes
        /\ Adds(w, file, r.dir, s, dir) \/ Restores(w, file, r.dir, s, dir)
  BY <1>2 DEF Busy
<1>4. PICK dir :
        /\ Settled(file, s, dir) /\ NamesIn(dir) = added
        /\ w.created <=> Len(dir) = 0
        /\ w.name \in DOMAIN Sizes
        /\ Adds(w, file, r.dir, s, dir) \/ Restores(w, file, r.dir, s, dir)
  BY <1>3
<1>5. /\ IsWriter(w') /\ w'.at = "close" /\ w'.name = w.name /\ w'.created = w.created
      /\ w'.ok = w.ok /\ w'.size = w.size /\ w'.dir = w.dir /\ w'.pos = w.pos
      /\ w'.buf = w.buf /\ w'.left = w.left /\ w.pos \in Nat
  BY <1>1, <1>2 DEF IsWriter
<1>6. Len(w.buf) = 0 /\ Len(w.left) = 0 BY <1>1, EmptyIsFile
<1>7. IsFile(dir) /\ Len(dir) \in Nat BY <1>4, DirIsFile DEF Settled, IsFile
<1>8. ASSUME Adds(w, file, r.dir, s, dir) PROVE Busy' /\ w.ok
  <2>1. PICK n, end : n = w.name /\ end = NewEnd(s, dir, n) OBVIOUS
  <2>2. ToWrite(w, s, dir, end) BY <1>1, <1>8, <2>1 DEF Adds
  <2>3. w.pos = end
    <3>1. w.pos + Len(w.buf) + Len(w.left) = end BY <2>2 DEF ToWrite
    <3> QED BY <1>5, <1>6, <3>1
  <2>4. ToWrite(w', s, dir, end) BY <1>5, <2>2 DEF ToWrite, Target
  <2>5. Adds(w', file, r.dir, s, dir) BY <1>1, <1>5, <1>8, <2>1, <2>3, <2>4 DEF Adds
  <2>6. w.ok BY <1>8 DEF Adds
  <2> QED BY <1>1, <1>4, <1>5, <2>5, <2>6 DEF Busy
<1>9. ASSUME Restores(w, file, r.dir, s, dir) PROVE Over' /\ ~w.ok
  <2>1. ToWrite(w, s, dir, EndAt(s, dir)) /\ PutBack(file, s, dir, w.pos) /\ ~w.ok
    BY <1>9 DEF Restores
  <2>2. w.pos = EndAt(s, dir)
    <3>1. w.pos + Len(w.buf) + Len(w.left) = EndAt(s, dir) BY <2>1 DEF ToWrite
    <3> QED BY <1>5, <1>6, <3>1
  <2>3. Whole(file, s, dir) BY <1>4, <2>1, <2>2 DEF Whole
  <2>4. w.created => added = <<>> BY <1>4, <1>7, NoNames
  <2> QED BY <1>1, <1>4, <1>5, <2>1, <2>3, <2>4 DEF Over
<1>10. WriterOK' BY <1>4, <1>5, <1>8, <1>9 DEF WriterOK
<1>11. ReaderOK' BY <1>1 DEF ArchiveOK, ReaderOK
<1>12. EndsGood(file', added') /\ IsFile(file') BY <1>1 DEF ArchiveOK
<1> QED BY <1>10, <1>11, <1>12 DEF ArchiveOK

LEMMA CloseStep ==
  ASSUME ArchiveOK, Close
  PROVE  ArchiveOK'
<1>1. /\ w.at = "close" /\ file' = file /\ r' = r
      /\ w' = [w EXCEPT !.at = "between", !.dir = <<>>, !.size = 0, !.pos = 0, !.name = "",
                        !.todo = IF w.ok THEN w.todo \ {w.name} ELSE {}]
      /\ added' = IF w.ok THEN Append(added, w.name) ELSE added
  BY DEF Close
<1>2. exists' = ~(~w.ok /\ w.created) /\ torn' = (torn /\ ~(~w.ok /\ w.created)) BY DEF Close
<1>3. IsWriter(w) /\ IsFile(file) BY DEF ArchiveOK, WriterOK
<1>4. IsWriter(w') /\ w'.at = "between" BY <1>1, <1>3 DEF IsWriter
<1>5. CASE w.ok
  <2>1. Busy BY <1>1, <1>5 DEF ArchiveOK, WriterOK
  <2>2. PICK s \in Nat : \E dir :
          /\ Settled(file, s, dir) /\ NamesIn(dir) = added
          /\ w.name \in DOMAIN Sizes
          /\ Adds(w, file, r.dir, s, dir) \/ Restores(w, file, r.dir, s, dir)
    BY <2>1 DEF Busy
  <2>3. PICK dir :
          /\ Settled(file, s, dir) /\ NamesIn(dir) = added
          /\ w.name \in DOMAIN Sizes
          /\ Adds(w, file, r.dir, s, dir) \/ Restores(w, file, r.dir, s, dir)
    BY <2>2
  <2>4. Adds(w, file, r.dir, s, dir) BY <1>5, <2>3 DEF Restores
  <2>5. PICK n, b, larger : n = w.name /\ b = Behind(s, n) /\ larger = Larger(s, dir, n) OBVIOUS
  <2>6. /\ w.pos = NewEnd(s, dir, n) /\ OnTheWay(file, s, dir, n, w.pos) /\ Begins(r.dir, larger)
    BY <1>1, <2>4, <2>5 DEF Adds
  <2>7. Whole(file, b, larger) /\ Len(file) = NewEnd(s, dir, n)
    BY <2>3, <2>5, <2>6, WayDone
  <2>8. IsFile(dir) /\ Len(dir) \in Nat BY <2>3, DirIsFile DEF Settled, IsFile
  <2>9. n \in DOMAIN Sizes BY <2>3, <2>5
  <2>10. IsFile(larger) /\ Len(larger) # 0 /\ b \in Nat /\ Len(file) = EndAt(b, larger)
    BY <2>5, <2>7, <2>8, <2>9, LargerCells
  <2>11. NamesIn(larger) = added'
    BY <1>1, <1>5, <2>3, <2>5, <2>8, <2>9, NamesLarger
  <2>12. exists' BY <1>2, <1>5
  <2>13. Ready' BY <1>1, <2>6, <2>7, <2>10, <2>11, <2>12 DEF Ready
  <2>14. Over' BY <1>1, <1>4, <2>7, <2>10, <2>11 DEF Over
  <2>15. WriterOK' BY <1>4, <2>13, <2>14 DEF WriterOK
  <2>16. EndsGood(file', added')
    <3>1. Settled(file, b, larger) /\ PutBack(file, b, larger, EndAt(b, larger))
      BY <2>7 DEF Whole
    <3>2. EndsGood(file, NamesIn(larger)) BY <2>10, <3>1, EndsGoodBack
    <3> QED BY <1>1, <2>11, <3>2
  <2>17. ReaderOK'
    <3>1. OfAdded(r.dir, NamesIn(larger))
      BY <2>6, <2>10, BeginsOfAdded, ReaderFacts DEF ArchiveOK
    <3>2. OfAdded(r.dir, added') BY <2>11, <3>1
    <3>3. ReaderOK /\ IsDir(file, r.dir, Len(file)) /\ Len(file) <= Len(file)
      BY <1>3, ReaderFacts DEF ArchiveOK, IsFile
    <3> QED BY <1>1, <1>3, <3>2, <3>3, ReaderKept
  <2> QED BY <1>1, <1>3, <2>15, <2>16, <2>17 DEF ArchiveOK
<1>6. CASE ~w.ok
  <2>1. Over BY <1>1, <1>6 DEF ArchiveOK, WriterOK
  <2>2. added' = added /\ w'.todo = {} BY <1>1, <1>3, <1>6 DEF IsWriter
  <2>3. Over' BY <1>1, <1>2, <1>4, <1>6, <2>1, <2>2 DEF Over
  <2>4. WriterOK' BY <1>4, <2>2, <2>3 DEF WriterOK
  <2>5. ReaderOK' BY <1>1, <2>2 DEF ArchiveOK, ReaderOK
  <2>6. EndsGood(file', added') BY <1>1, <2>2 DEF ArchiveOK
  <2> QED BY <1>1, <1>3, <2>4, <2>5, <2>6 DEF ArchiveOK
<1> QED BY <1>5, <1>6

LEMMA DieStep ==
  ASSUME ArchiveOK, Die
  PROVE  ArchiveOK'
<1>1. /\ w' = [w EXCEPT !.at = "dead", !.buf = <<>>, !.left = <<>>] /\ w.at # "dead"
      /\ torn' = (torn \/ w.at # "between")
      /\ exists' = exists /\ file' = file /\ r' = r /\ added' = added
  BY DEF Die
<1>2. IsWriter(w) BY DEF ArchiveOK, WriterOK
<1>3. IsWriter(w') /\ w'.at = "dead" BY <1>1, <1>2 DEF IsWriter
<1>4. Over'
  <2>1. CASE w.at # "between" BY <1>1, <1>3, <2>1 DEF Over
  <2>2. CASE w.at = "between" /\ w.todo # {}
    <3>1. Ready BY <2>2 DEF ArchiveOK, WriterOK
    <3>2. added # <<>> => \E s \in Nat : \E dir : Whole(file, s, dir) /\ NamesIn(dir) = added
      BY <3>1 DEF Ready
    <3> QED BY <1>1, <1>3, <3>2 DEF Over
  <2>3. CASE w.at = "between" /\ w.todo = {}
    <3>1. Over BY <2>3 DEF ArchiveOK, WriterOK
    <3> QED BY <1>1, <1>3, <2>3, <3>1 DEF Over
  <2> QED BY <2>1, <2>2, <2>3
<1>5. WriterOK' BY <1>3, <1>4 DEF WriterOK
<1>6. ReaderOK' BY <1>1 DEF ArchiveOK, ReaderOK
<1>7. EndsGood(file', added') /\ IsFile(file') BY <1>1 DEF ArchiveOK
<1> QED BY <1>5, <1>6, <1>7 DEF ArchiveOK

(***************************************************************************)
(* The steps of a reader.                                                  *)
(***************************************************************************)
LEMMA LocateStep ==
  ASSUME ArchiveOK, Locate
  PROVE  ArchiveOK'
<1>1. /\ r.at = "none" /\ exists' = exists /\ file' = file /\ w' = w /\ added' = added
      /\ torn' = torn
      /\ r' = IF exists /\ Located(file) # 0
              THEN [r EXCEPT !.at = "located", !.size = Len(file), !.end = Located(file)]
              ELSE [r EXCEPT !.at = "done"]
  BY DEF Locate
<1>2. IsFile(file) /\ Len(file) \in Nat /\ DOMAIN file = 1 .. Len(file)
  BY FileIsSeq DEF ArchiveOK, IsFile
<1>3. ReaderOK /\ IsReader(r) /\ r.got = <<>> BY <1>1 DEF ArchiveOK, ReaderOK
<1>4. ASSUME Located(file) # 0 PROVE Located(file) \in 1 .. Len(file)
  <2>1. EndRecords(file) # {} /\ Located(file) = Max(EndRecords(file)) BY <1>4 DEF Located
  <2>2. EndRecords(file) \subseteq 1 .. Len(file) BY <1>2 DEF EndRecords
  <2>3. EndRecords(file) \in SUBSET (0 .. Len(file)) BY <1>2, <2>2
  <2>4. Max(EndRecords(file)) \in EndRecords(file) BY <1>2, <2>1, <2>3, HasMax
  <2> QED BY <2>1, <2>2, <2>4
<1>5. /\ IsReader(r') /\ r'.dir = r.dir /\ r'.got = r.got /\ r'.at \in {"located", "done"}
      /\ r'.at = "located" => r'.end \in 1 .. Len(file) /\ r'.size = Len(file)
  <2>1. CASE exists /\ Located(file) # 0
    <3>1. Located(file) \in 1 .. Len(file) /\ Located(file) \in Nat BY <1>2, <1>4, <2>1
    <3>2. r' = [r EXCEPT !.at = "located", !.size = Len(file), !.end = Located(file)]
      BY <1>1, <2>1
    <3> QED BY <1>2, <1>3, <3>1, <3>2 DEF IsReader
  <2>2. CASE ~(exists /\ Located(file) # 0)
    <3>1. r' = [r EXCEPT !.at = "done"] BY <1>1, <2>2
    <3> QED BY <1>3, <3>1 DEF IsReader
  <2> QED BY <2>1, <2>2
<1>6. ReaderOK' BY <1>1, <1>2, <1>3, <1>5 DEF ReaderOK
<1>7. Busy => Busy' BY <1>1, <1>5 DEF Busy
<1>8. Ready => Ready' BY <1>1, <1>5 DEF Ready
<1>9. Over => Over' BY <1>1 DEF Over
<1>10. WriterOK' BY <1>1, <1>7, <1>8, <1>9 DEF ArchiveOK, WriterOK
<1>11. IsFile(file') /\ EndsGood(file', added') BY <1>1 DEF ArchiveOK
<1> QED BY <1>6, <1>10, <1>11 DEF ArchiveOK

(* What a reader reads is what the end record leads to. *)
LEMMA LedTo ==
  ASSUME NEW f, IsFile(f), NEW i, NEW dir, IsFile(dir), Leads(f, i, dir),
         f[i].at + f[i].total <= Len(f)
  PROVE  Cells(f, f[i].at, f[i].total) = dir
<1>1. PICK at, n, cells : at = f[i].at /\ n = f[i].total /\ cells = Cells(f, at, n) OBVIOUS
<1>2. at \in Nat /\ n = Len(dir) /\ n \in Nat /\ at + n <= Len(f) BY <1>1 DEF Leads, IsFile
<1>3. IsFile(cells) /\ Len(cells) = n /\ \A k \in 1 .. n : cells[k] = f[at + k]
  BY <1>1, <1>2, CutFile
<1>4. \A k \in 1 .. n : f[at + k] = dir[k] BY <1>1, <1>2 DEF Leads
<1>5. cells = dir BY <1>2, <1>3, <1>4, FilesEqual
<1> QED BY <1>1, <1>5

LEMMA LedFromBusy ==
  ASSUME NEW v, v.name \in DOMAIN Sizes, NEW f, NEW first, NEW s \in Nat, NEW dir,
         Settled(f, s, dir), NEW i \in 1 .. Len(f), Valid(f, i), NEW next, IsFile(next),
         Leads(f, i, next)
  PROVE  /\ Adds(v, f, first, s, dir) => Adds(v, f, next, s, dir)
         /\ Restores(v, f, first, s, dir) => Restores(v, f, next, s, dir)
<1>1. PICK n, end, larger : n = v.name /\ end = NewEnd(s, dir, n) /\ larger = Larger(s, dir, n)
  OBVIOUS
<1>2. IsFile(dir) /\ Len(dir) \in Nat BY DirIsFile DEF Settled, IsFile
<1>3. n \in DOMAIN Sizes BY <1>1
<1>4. IsFile(larger) /\ s # end
  <2>1. IsFile(larger) BY <1>1, <1>2, <1>3, LargerCells
  <2>2. PICK b : b = Behind(s, n) OBVIOUS
  <2>3. b \in Nat /\ b > s BY <1>2, <1>3, <2>2, LargerCells
  <2>4. end = b + Len(dir) + 2 BY <1>1, <2>2 DEF NewEnd
  <2> QED BY <1>2, <2>1, <2>3, <2>4
<1>5. ASSUME NEW d, IsFile(d), Leads(f, i, d) PROVE next = d
  <2>1. Len(next) = Len(d) BY <1>5 DEF Leads
  <2>2. \A k \in 1 .. Len(next) : next[k] = d[k] BY <1>5, <2>1 DEF Leads
  <2> QED BY <1>5, <2>1, <2>2, FilesEqual
<1>6. \A d : IsFile(d) => Begins(d, d) BY DEF Begins, IsFile
<1>7. ASSUME Adds(v, f, first, s, dir) PROVE Adds(v, f, next, s, dir)
  <2>1. OnTheWay(f, s, dir, n, v.pos) BY <1>1, <1>7 DEF Adds
  <2>2. (Leads(f, i, dir) /\ v.pos = s) \/ (Leads(f, i, larger) /\ v.pos = end)
    BY <1>1, <1>3, <2>1, WayEnds
  <2>3. (next = dir /\ v.pos = s) \/ (next = larger /\ v.pos = end) BY <1>2, <1>4, <1>5, <2>2
  <2>4. Begins(next, IF v.pos = end THEN larger ELSE dir) BY <1>2, <1>4, <1>6, <2>3
  <2> QED BY <1>1, <1>7, <2>4 DEF Adds
<1>8. ASSUME Restores(v, f, first, s, dir) PROVE Restores(v, f, next, s, dir)
  <2>1. PutBack(f, s, dir, v.pos) BY <1>8 DEF Restores
  <2>2. f[i].kind = "end" BY DEF Valid
  <2>3. Leads(f, i, dir) BY <2>1, <2>2, BackEnds
  <2>4. Begins(next, dir) BY <1>2, <1>5, <1>6, <2>3
  <2> QED BY <1>8, <2>4 DEF Restores
<1> QED BY <1>7, <1>8

LEMMA LedFromWhole ==
  ASSUME NEW f, NEW s \in Nat, NEW dir, Whole(f, s, dir), NEW i \in 1 .. Len(f), Valid(f, i),
         NEW next, IsFile(next), Leads(f, i, next)
  PROVE  Begins(next, dir)
<1>1. Settled(f, s, dir) /\ PutBack(f, s, dir, EndAt(s, dir)) BY DEF Whole
<1>2. f[i].kind = "end" BY DEF Valid
<1>3. PICK p : p = EndAt(s, dir) OBVIOUS
<1>4. Leads(f, i, dir) BY <1>1, <1>2, <1>3, BackEnds
<1>5. Len(next) = Len(dir) /\ \A k \in 1 .. Len(next) : next[k] = dir[k] BY <1>4 DEF Leads
<1> QED BY <1>5 DEF Begins, IsFile

LEMMA ReadDirectoryStep ==
  ASSUME ArchiveOK, ReadDirectory
  PROVE  ArchiveOK'
<1>1. /\ r.at = "located" /\ exists' = exists /\ file' = file /\ w' = w /\ added' = added
      /\ torn' = torn
  BY DEF ReadDirectory
<1>2. IsFile(file) /\ Len(file) \in Nat BY DEF ArchiveOK, IsFile
<1>3. /\ ReaderOK /\ IsReader(r) /\ r.got = <<>> /\ r.end \in 1 .. Len(file)
      /\ r.size \in 0 .. Len(file)
  BY <1>1 DEF ArchiveOK, ReaderOK
<1>4. PICK end, i : i = r.end /\ end = file[i] OBVIOUS
<1>5. CASE end.kind = "end" /\ IsDirectory(file, end, r.size)
  <2>1. r' = [r EXCEPT !.at = "extract", !.dir = Cells(file, end.at, end.total)]
    BY <1>4, <1>5 DEF ReadDirectory
  <2>2. Valid(file, i) BY <1>4, <1>5 DEF Valid, IsDirectory
  <2>3. i \in 1 .. Len(file) BY <1>3, <1>4
  <2>4. PICK dir : IsDir(file, dir, Len(file)) /\ OfAdded(dir, added) /\ Leads(file, i, dir)
    BY <2>2, <2>3 DEF ArchiveOK, EndsGood
  <2>5. IsFile(dir) BY <2>4, DirIsFile
  <2>6. end.at + end.total <= Len(file)
    <3>1. end.at \in Nat /\ end.total \in Nat BY <1>4, <2>4, <2>5 DEF Leads, IsFile
    <3> QED BY <1>2, <1>3, <1>5, <3>1 DEF IsDirectory
  <2>7. Cells(file, end.at, end.total) = dir BY <1>2, <1>4, <2>4, <2>5, <2>6, LedTo
  <2>8. IsReader(r') /\ r'.at = "extract" /\ r'.dir = dir /\ r'.got = <<>>
    BY <1>3, <2>1, <2>7 DEF IsReader
  <2>9. ReaderOK'
    <3>1. IsFile(<<>>) /\ Len(<<>>) = 0 BY EmptyIsFile
    <3>2. Len(<<>>) <= Len(dir) BY <2>5, <3>1 DEF IsFile
    <3> QED BY <1>1, <2>4, <2>8, <3>1, <3>2 DEF ReaderOK
  <2>10. ASSUME Busy PROVE Busy'
    <3>1. PICK s \in Nat : \E d :
            /\ Settled(file, s, d) /\ NamesIn(d) = added
            /\ w.created <=> Len(d) = 0
            /\ w.name \in DOMAIN Sizes
            /\ Adds(w, file, r.dir, s, d) \/ Restores(w, file, r.dir, s, d)
      BY <2>10 DEF Busy
    <3>2. PICK d :
            /\ Settled(file, s, d) /\ NamesIn(d) = added
            /\ w.created <=> Len(d) = 0
            /\ w.name \in DOMAIN Sizes
            /\ Adds(w, file, r.dir, s, d) \/ Restores(w, file, r.dir, s, d)
      BY <3>1
    <3>3. PICK v, first, f : v = w /\ first = r.dir /\ f = file OBVIOUS
    <3>4. /\ v.name \in DOMAIN Sizes /\ Settled(f, s, d) /\ i \in 1 .. Len(f) /\ Valid(f, i)
          /\ Leads(f, i, dir)
      BY <2>2, <2>3, <2>4, <3>2, <3>3
    <3>5. /\ Adds(v, f, first, s, d) => Adds(v, f, dir, s, d)
          /\ Restores(v, f, first, s, d) => Restores(v, f, dir, s, d)
      BY <2>5, <3>4, LedFromBusy
    <3>6. Adds(w, file, dir, s, d) \/ Restores(w, file, dir, s, d) BY <3>2, <3>3, <3>5
    <3> QED BY <1>1, <2>8, <3>2, <3>6 DEF Busy
  <2>11. ASSUME Ready PROVE Ready'
    <3>1. exists
      <4>1. SUFFICES ASSUME ~exists PROVE FALSE OBVIOUS
      <4>2. Len(file) = 0 BY <2>11, <4>1 DEF Ready
      <4> QED BY <2>3, <4>2
    <3>2. PICK s \in Nat : \E d :
            /\ Whole(file, s, d) /\ NamesIn(d) = added /\ Len(file) = EndAt(s, d)
            /\ Len(d) # 0 /\ Begins(r.dir, d)
      BY <2>11, <3>1 DEF Ready
    <3>3. PICK d :
            /\ Whole(file, s, d) /\ NamesIn(d) = added /\ Len(file) = EndAt(s, d)
            /\ Len(d) # 0 /\ Begins(r.dir, d)
      BY <3>2
    <3>4. Begins(dir, d) BY <2>2, <2>3, <2>4, <2>5, <3>3, LedFromWhole
    <3> QED BY <1>1, <2>8, <3>1, <3>3, <3>4 DEF Ready
  <2>12. Over => Over' BY <1>1 DEF Over
  <2>13. WriterOK' BY <1>1, <2>10, <2>11, <2>12 DEF ArchiveOK, WriterOK
  <2>14. IsFile(file') /\ EndsGood(file', added') BY <1>1 DEF ArchiveOK
  <2> QED BY <2>9, <2>13, <2>14 DEF ArchiveOK
<1>6. CASE ~(end.kind = "end" /\ IsDirectory(file, end, r.size))
  <2>1. r' = [r EXCEPT !.at = "done"] BY <1>4, <1>6 DEF ReadDirectory
  <2>2. IsReader(r') /\ r'.at = "done" /\ r'.dir = r.dir /\ r'.got = r.got
    BY <1>3, <2>1 DEF IsReader
  <2>3. ReaderOK' BY <1>1, <1>3, <2>2 DEF ReaderOK
  <2>4. Busy => Busy' BY <1>1, <2>2 DEF Busy
  <2>5. Ready => Ready' BY <1>1, <2>2 DEF Ready
  <2>6. Over => Over' BY <1>1 DEF Over
  <2>7. WriterOK' BY <1>1, <2>4, <2>5, <2>6 DEF ArchiveOK, WriterOK
  <2>8. IsFile(file') /\ EndsGood(file', added') BY <1>1 DEF ArchiveOK
  <2> QED BY <2>3, <2>7, <2>8 DEF ArchiveOK
<1> QED BY <1>5, <1>6

LEMMA ExtractStep ==
  ASSUME ArchiveOK, Extract
  PROVE  ArchiveOK'
<1>1. /\ r.at = "extract" /\ Len(r.got) < Len(r.dir)
      /\ r' = [r EXCEPT !.got = Append(r.got, Extracted(file, r.dir[Len(r.got) + 1]))]
      /\ exists' = exists /\ file' = file /\ w' = w /\ added' = added /\ torn' = torn
  BY DEF Extract
<1>2. ReaderOK /\ IsReader(r) /\ IsFile(file) /\ Len(file) \in Nat
  BY DEF ArchiveOK, ReaderOK, IsFile
<1>3. PICK got, dir : got = r.got /\ dir = r.dir OBVIOUS
<1>4. /\ IsFile(got) /\ Len(got) \in Nat /\ Len(got) < Len(dir) /\ IsDir(file, dir, Len(file))
      /\ Len(dir) \in Nat
      /\ \A i \in 1 .. Len(got) : got[i] = Data(dir[i].name)
  BY <1>1, <1>2, <1>3 DEF ReaderOK, IsFile, IsDir
<1>5. PICK e, data, longer :
        e = dir[Len(got) + 1] /\ data = Extracted(file, e) /\ longer = Append(got, data)
  OBVIOUS
<1>6. data = Data(e.name)
  <2>1. Len(got) + 1 \in 1 .. Len(dir) BY <1>4
  <2>2. Holds(file, e, Len(file)) BY <1>4, <1>5, <2>1 DEF IsDir
  <2>3. Len(file) <= Len(file) BY <1>2
  <2> QED BY <1>2, <1>5, <2>2, <2>3, ExtractedIs
<1>7. /\ IsFile(longer) /\ Len(longer) = Len(got) + 1
      /\ \A i \in 1 .. Len(got) : longer[i] = got[i]
      /\ longer[Len(got) + 1] = data
  BY <1>4, <1>5, AppendedFile
<1>8. IsReader(r') /\ r'.at = "extract" /\ r'.dir = dir /\ r'.got = longer
  <2>1. r' = [r EXCEPT !.got = longer] BY <1>1, <1>3, <1>5
  <2> QED BY <1>1, <1>2, <1>3, <2>1 DEF IsReader
<1>9. ASSUME NEW i \in 1 .. Len(longer) PROVE longer[i] = Data(dir[i].name)
  <2>1. CASE i = Len(got) + 1 BY <1>5, <1>6, <1>7, <2>1
  <2>2. CASE i # Len(got) + 1
    <3>1. i \in 1 .. Len(got) BY <1>4, <1>7, <2>2
    <3> QED BY <1>4, <1>7, <3>1
  <2> QED BY <2>1, <2>2
<1>10. Len(longer) <= Len(dir) BY <1>4, <1>7
<1>11. OfAdded(dir, added) BY <1>2, <1>3 DEF ReaderOK
<1>12. ReaderOK' BY <1>1, <1>4, <1>7, <1>8, <1>9, <1>10, <1>11 DEF ReaderOK
<1>13. Busy => Busy' BY <1>1, <1>3, <1>8 DEF Busy
<1>14. Ready => Ready' BY <1>1, <1>3, <1>8 DEF Ready
<1>15. Over => Over' BY <1>1 DEF Over
<1>16. WriterOK' BY <1>1, <1>13, <1>14, <1>15 DEF ArchiveOK, WriterOK
<1>17. IsFile(file') /\ EndsGood(file', added') BY <1>1 DEF ArchiveOK
<1> QED BY <1>12, <1>16, <1>17 DEF ArchiveOK

(***************************************************************************)
(* The theorems.                                                           *)
(***************************************************************************)
LEMMA InitStep == Init => ArchiveOK
<1> SUFFICES ASSUME Init PROVE ArchiveOK OBVIOUS
<1>1. IsFile(<<>>) /\ Len(<<>>) = 0 BY EmptyIsFile
<1>2. IsDir(<<>>, <<>>, 0) BY <1>1 DEF IsDir, IsFile
<1>3. /\ exists = FALSE /\ file = <<>> /\ added = <<>> /\ torn = FALSE
      /\ w = [at |-> "between", todo |-> DOMAIN Sizes, name |-> "", size |-> 0, dir |-> <<>>,
              buf |-> <<>>, pos |-> 0, left |-> <<>>, created |-> FALSE, ok |-> TRUE]
      /\ r = [at |-> "none", size |-> 0, end |-> 0, dir |-> <<>>, got |-> <<>>]
  BY DEF Init
<1>4. IsWriter(w) /\ w.at = "between" BY <1>3 DEF IsWriter
<1>5. IsReader(r) /\ r.at = "none" /\ r.dir = <<>> /\ r.got = <<>> BY <1>3 DEF IsReader
<1>6. Ready BY <1>1, <1>3, <1>5 DEF Ready
<1>7. Over BY <1>3, <1>4 DEF Over
<1>8. WriterOK BY <1>4, <1>6, <1>7 DEF WriterOK
<1>9. OfAdded(<<>>, <<>>)
  <2>1. NamesIn(<<>>) = <<>> BY <1>1, NoNames
  <2>2. Begins(<<>>, <<>>) BY <1>1 DEF Begins
  <2>3. PICK a : a = <<>> OBVIOUS
  <2>4. OfAdded(a, NamesIn(a)) BY <1>1, <2>2, <2>3, BeginsOfAdded
  <2> QED BY <2>1, <2>3, <2>4
<1>10. ReaderOK
  <2>1. IsDir(file, r.dir, Len(file)) /\ OfAdded(r.dir, added) BY <1>1, <1>2, <1>3, <1>5, <1>9
  <2>2. IsFile(r.got) /\ Len(r.got) <= Len(r.dir) BY <1>1, <1>5
  <2>3. 1 .. Len(r.got) = {} BY <1>1, <1>5
  <2> QED BY <1>5, <2>1, <2>2, <2>3 DEF ReaderOK
<1>11. EndsGood(file, added)
  <2>1. Len(file) = 0 BY <1>1, <1>3
  <2>2. \A i \in 1 .. Len(file) : FALSE BY <2>1
  <2> QED BY <2>2 DEF EndsGood
<1> QED BY <1>1, <1>3, <1>8, <1>10, <1>11 DEF ArchiveOK

LEMMA NextStep == ArchiveOK /\ [Next]_vars => ArchiveOK'
<1> SUFFICES ASSUME ArchiveOK, [Next]_vars PROVE ArchiveOK' OBVIOUS
<1>1. CASE Create BY <1>1, CreateStep
<1>2. CASE Reopen BY <1>2, ReopenStep
<1>3. CASE Put BY <1>3, PutStep
<1>4. CASE Flush BY <1>4, FlushStep
<1>5. CASE FlushFails BY <1>5, FlushFailsStep
<1>6. CASE Added BY <1>6, AddedStep
<1>7. CASE Finalized BY <1>7, FinalizedStep
<1>8. CASE Close BY <1>8, CloseStep
<1>9. CASE Die BY <1>9, DieStep
<1>10. CASE Locate BY <1>10, LocateStep
<1>11. CASE ReadDirectory BY <1>11, ReadDirectoryStep
<1>12. CASE Extract BY <1>12, ExtractStep
<1>13. CASE UNCHANGED vars
  <2>1. /\ exists' = exists /\ file' = file /\ w' = w /\ r' = r /\ added' = added /\ torn' = torn
    BY <1>13 DEF vars
  <2>2. ReaderOK' /\ IsFile(file') /\ EndsGood(file', added') BY <2>1 DEF ArchiveOK, ReaderOK
  <2>3. (Busy => Busy') /\ (Ready => Ready') /\ (Over => Over') BY <2>1 DEF Busy, Ready, Over
  <2>4. WriterOK' BY <2>1, <2>3 DEF ArchiveOK, WriterOK
  <2> QED BY <2>2, <2>4 DEF ArchiveOK
<1> QED
  BY <1>1, <1>2, <1>3, <1>4, <1>5, <1>6, <1>7, <1>8, <1>9, <1>10, <1>11, <1>12, <1>13
  DEF Next, Write, Read

(* The inductive invariant: what the writer has put into the file, and     *)
(* what it still has in its buffer, agree with where it is; every end      *)
(* record leads a reader to a directory of files that were added.          *)
THEOREM ArchiveInvariant == Spec => []ArchiveOK
BY InitStep, NextStep, PTL DEF Spec

(* A reader that comes at any moment of an addition, of a failure or after *)
(* the writer died, is refused or gets files that were added, from the     *)
(* first on, with the contents they were added with.                       *)
THEOREM ReadersGetWhatWasAdded == Spec => []ReadsOnlyAdded
<1>1. ArchiveOK => ReadsOnlyAdded
  <2> SUFFICES ASSUME ArchiveOK PROVE ReadsOnlyAdded OBVIOUS
  <2>1. OfAdded(r.dir, added) /\ IsFile(r.got)
        /\ \A i \in 1 .. Len(r.got) : r.got[i] = Data(r.dir[i].name)
    BY DEF ArchiveOK, ReaderOK
  <2>2. DOMAIN r.got = 1 .. Len(r.got) BY <2>1, FileIsSeq
  <2> QED BY <2>1, <2>2 DEF ReadsOnlyAdded, OfAdded
<1> QED BY <1>1, ArchiveInvariant, PTL

(* Between two additions, and after the writer died between them, reading  *)
(* the archive gives every file added so far, whole and in order.          *)
THEOREM AdditionsAreKept == Spec => []AddedIsRead
<1>1. ArchiveOK => AddedIsRead
  <2> SUFFICES ASSUME ArchiveOK, w.at \in {"between", "dead"}, ~torn, added # <<>>
               PROVE  \/ /\ IsArchive(file)
                         /\ NamesIn(DirectoryOf(file)) = added
                         /\ \A e \in Range(DirectoryOf(file)) : Extracted(file, e) = Data(e.name)
                      \/ Len(file) - EndOfArchive(file) > Window
    BY DEF AddedIsRead
  <2>1. PICK s \in Nat : \E dir : Whole(file, s, dir) /\ NamesIn(dir) = added
    <3>1. CASE w.at = "between" /\ w.todo # {}
      <4>1. Ready BY <3>1 DEF ArchiveOK, WriterOK
      <4> QED BY <4>1 DEF Ready
    <3>2. CASE ~(w.at = "between" /\ w.todo # {})
      <4>1. Over BY <3>2 DEF ArchiveOK, WriterOK
      <4> QED BY <4>1 DEF Over
    <3> QED BY <3>1, <3>2
  <2>2. PICK dir : Whole(file, s, dir) /\ NamesIn(dir) = added BY <2>1
  <2>3. IsDir(file, dir, s) /\ IsFile(dir) /\ Len(file) \in Nat /\ IsFile(file) /\ s <= Len(file)
    BY <2>2, DirIsFile DEF Whole, Settled, IsFile
  <2>4. EndAt(s, dir) \in 1 .. Len(file) /\ EndOfArchive(file) = EndAt(s, dir)
    BY <2>2, LastEnd
  <2>5. CASE Len(file) - EndAt(s, dir) <= Window
    <3>1. IsArchive(file) /\ DirectoryOf(file) = dir BY <2>2, <2>5, WholeIsRead
    <3>2. ASSUME NEW e \in Range(dir) PROVE Extracted(file, e) = Data(e.name)
      <4>1. DOMAIN dir = 1 .. Len(dir) BY <2>3, FileIsSeq
      <4>2. PICK i \in 1 .. Len(dir) : e = dir[i] BY <4>1 DEF Range
      <4>3. Holds(file, e, s) BY <2>3, <4>2 DEF IsDir
      <4> QED BY <2>3, <4>3, ExtractedIs
    <3> QED BY <2>2, <3>1, <3>2
  <2>6. CASE ~(Len(file) - EndAt(s, dir) <= Window)
    <3>1. Len(file) - EndAt(s, dir) > Window BY <2>3, <2>4, <2>6, WindowAssumption
    <3> QED BY <2>4, <3>1
  <2> QED BY <2>5, <2>6
<1> QED BY <1>1, ArchiveInvariant, PTL

=============================================================================
