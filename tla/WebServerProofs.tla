--------------------------- MODULE WebServerProofs ---------------------------
(***************************************************************************)
(* What processes find in the snapshot files that they write and read, and *)
(* what the web server and the tool make of it: what they write is in the  *)
(* archives, and what they read and compare comes from them.  For any      *)
(* names, items, values, archives of earlier days, and bounds; the facts   *)
(* about the files come first, and hold for any number of processes.       *)
(***************************************************************************)
EXTENDS WebServer, FiniteSetTheorems, SequenceTheorems, TLAPS

Owning == {"items", "stat", "zip", "rmdir"}
Places == Writing \cup Reading \cup {"idle", "freed", "done"}

(***************************************************************************)
(* Types.                                                                  *)
(***************************************************************************)
IsFileSystem(fs) ==
  /\ fs = [n \in DOMAIN fs |-> fs[n]]
  /\ \A n \in DOMAIN fs : AreFiles(fs[n])

IsJob(j) ==
  /\ j \in [at : Places, name : {j.name}, items : {j.items}, todo : {j.todo}, ok : BOOLEAN,
            disturbed : BOOLEAN, taken : BOOLEAN, leftover : BOOLEAN]
  /\ IsItems(j.items)
  /\ j.at = "mkdir" => j.todo = DOMAIN j.items
  /\ j.at = "items" => j.todo \subseteq DOMAIN j.items
  /\ j.at = "readdir" => j.todo \cap (HiddenKeys \cup {Info}) = {}

FilesTyped ==
  /\ IsFileSystem(dirs) /\ IsFileSystem(zips)
  /\ job = [p \in Procs |-> job[p]]
  /\ \A p \in Procs : IsJob(job[p])

(***************************************************************************)
(* The inductive invariant.  Two processes meet at a name: both are        *)
(* disturbed or none is, and when none is, none reads and one of them at   *)
(* most is past mkdir.                                                     *)
(***************************************************************************)
Meet(a, b) ==
  a.at \in Writing \cup Reading /\ b.at \in Writing \cup Reading /\ a.name = b.name =>
    /\ a.disturbed => b.disturbed
    /\ a.at \in Reading \/ (a.at \in Owning /\ b.at \in Owning) => a.disturbed

MeetOK == \A p, q \in Procs : p # q => Meet(job[p], job[q])

(* A copy has the files that are no longer to do. *)
PartOf(copy, files, todo) ==
  /\ todo \subseteq DOMAIN files
  /\ DOMAIN copy = DOMAIN files \ todo
  /\ \A k \in DOMAIN copy : copy[k] = files[k]

(* The directory of a writer that was not disturbed is there and has what  *)
(* was written of its items; the archive, what was packed of the directory.*)
WrittenPart(j) == IF j.at = "items" THEN DOMAIN j.items \ j.todo ELSE DOMAIN j.items

OwnerFits(j, D, Z) ==
  j.at \in Owning /\ ~j.disturbed =>
    /\ j.name \in DOMAIN D
    /\ DOMAIN D[j.name] = {Info} \cup WrittenPart(j)
    /\ \A k \in WrittenPart(j) : D[j.name][k] = j.items[k]
    /\ j.at \in {"items", "stat"} /\ ~j.taken => j.name \notin DOMAIN Z
    /\ j.at = "zip" => PartOf(FilesOf(Z, j.name), D[j.name], j.todo)
    /\ j.at = "rmdir" /\ ~j.taken =>
         j.name \in DOMAIN Z /\ Z[j.name] = With(j.items, Info, NoCounts)

(* What was read of the files of an archive, but for those still to do:    *)
(* all of a file without the empty value, some of one with it.             *)
Read(archive, todo) == DOMAIN archive \ (todo \cup HiddenKeys \cup {Info})

HasRead(items, archive, todo) ==
  /\ DOMAIN items \subseteq Read(archive, todo)
  /\ \A k \in DOMAIN items :
       DOMAIN items[k] \subseteq DOMAIN archive[k] /\ items[k] = Restrict(archive[k], DOMAIN items[k])
  /\ \A k \in Read(archive, todo) :
       EmptyValue \notin DOMAIN archive[k] => k \in DOMAIN items /\ items[k] = archive[k]

(* A reader that was not disturbed, and found no directory, unpacks the    *)
(* archive, all of it, and reads what is in the archive.                   *)
ReaderFits(j, D, Z) ==
  j.at \in Reading /\ ~j.disturbed /\ ~j.leftover =>
    /\ j.name \in DOMAIN D => DOMAIN D[j.name] # {}
    /\ j.at = "unzip" =>
         PartOf(FilesOf(D, j.name), FilesOf(Z, j.name), j.todo) /\ j.items = NoItems
    /\ j.at = "readdir" =>
         /\ j.name \in DOMAIN D /\ PartOf(D[j.name], FilesOf(Z, j.name), {})
         /\ j.todo \subseteq DOMAIN D[j.name]
         /\ HasRead(j.items, FilesOf(Z, j.name), j.todo)

(* Disturbed or not, what is to be unpacked is in the archive. *)
Unpacks(j, Z) == j.at = "unzip" => j.todo \subseteq DOMAIN FilesOf(Z, j.name)

JobFits(j, D, Z) == OwnerFits(j, D, Z) /\ ReaderFits(j, D, Z) /\ Unpacks(j, Z)

FilesOK == FilesTyped /\ MeetOK /\ \A p \in Procs : JobFits(job[p], dirs, zips)

(***************************************************************************)
(* Functions, and the files they are.                                      *)
(***************************************************************************)
LEMMA FunctionsEqual ==
  ASSUME NEW f, NEW g, f = [x \in DOMAIN f |-> f[x]], g = [x \in DOMAIN g |-> g[x]],
         DOMAIN f = DOMAIN g, \A x \in DOMAIN f : f[x] = g[x]
  PROVE  f = g
<1>1. [x \in DOMAIN f |-> f[x]] = [x \in DOMAIN g |-> g[x]] OBVIOUS
<1> QED BY <1>1

LEMMA NothingIsAFunction == <<>> = [x \in DOMAIN <<>> |-> <<>>[x]] /\ DOMAIN <<>> = {}
OBVIOUS

LEMMA NoItemsTyped == IsItems(NoItems) /\ AreFiles(NoItems)
BY NothingIsAFunction DEF IsItems, AreFiles, NoItems

LEMMA WithGrows ==
  ASSUME NEW f, NEW x, NEW v
  PROVE  /\ With(f, x, v) = [y \in DOMAIN With(f, x, v) |-> With(f, x, v)[y]]
         /\ DOMAIN With(f, x, v) = DOMAIN f \cup {x}
         /\ With(f, x, v)[x] = v
         /\ \A y \in DOMAIN f : y # x => With(f, x, v)[y] = f[y]
BY DEF With

LEMMA FilesOfTyped ==
  ASSUME NEW fs, IsFileSystem(fs), NEW n
  PROVE  AreFiles(FilesOf(fs, n))
BY NoItemsTyped DEF IsFileSystem, FilesOf

SameBut(n, fs, gs) ==
  \A m : m # n => /\ m \in DOMAIN gs <=> m \in DOMAIN fs
                  /\ m \in DOMAIN fs => gs[m] = fs[m]

LEMMA PutTyped ==
  ASSUME NEW fs, IsFileSystem(fs), NEW n, NEW k \in Keys \cup {Info}, NEW content,
         IF k = Info THEN content = NoCounts ELSE IsCounts(content)
  PROVE  /\ IsFileSystem(Put(fs, n, k, content))
         /\ SameBut(n, fs, Put(fs, n, k, content))
         /\ n \in DOMAIN Put(fs, n, k, content)
         /\ Put(fs, n, k, content)[n] = With(FilesOf(fs, n), k, content)
<1> DEFINE files == With(FilesOf(fs, n), k, content)
           gs == With(fs, n, files)
<1>1. Put(fs, n, k, content) = gs BY DEF Put
<1>2. AreFiles(FilesOf(fs, n)) BY FilesOfTyped
<1>3. /\ files = [y \in DOMAIN files |-> files[y]]
      /\ DOMAIN files = DOMAIN FilesOf(fs, n) \cup {k}
      /\ files[k] = content
      /\ \A x \in DOMAIN FilesOf(fs, n) : x # k => files[x] = FilesOf(fs, n)[x]
  BY DEF With
<1>8. files = With(FilesOf(fs, n), k, content) OBVIOUS
<1> HIDE DEF files
<1>4. /\ gs = [y \in DOMAIN gs |-> gs[y]]
      /\ DOMAIN gs = DOMAIN fs \cup {n}
      /\ gs[n] = files
      /\ \A m \in DOMAIN fs : m # n => gs[m] = fs[m]
  BY DEF With
<1> HIDE DEF gs
<1>5. AreFiles(files) BY <1>2, <1>3 DEF AreFiles
<1>6. IsFileSystem(gs) BY <1>4, <1>5 DEF IsFileSystem
<1>7. SameBut(n, fs, gs) BY <1>4 DEF SameBut
<1> QED BY <1>1, <1>4, <1>6, <1>7, <1>8

LEMMA RemovedTyped ==
  ASSUME NEW fs, IsFileSystem(fs), NEW n
  PROVE  IsFileSystem(RemovedFrom(fs, n)) /\ SameBut(n, fs, RemovedFrom(fs, n))
BY DEF IsFileSystem, SameBut, RemovedFrom, Restrict

(***************************************************************************)
(* A step of one process, seen by the others.                              *)
(***************************************************************************)
LEMMA FitsElsewhere ==
  ASSUME NEW j, NEW D, NEW Z, NEW D2, NEW Z2, JobFits(j, D, Z),
         NEW n, n # j.name, SameBut(n, D, D2), SameBut(n, Z, Z2)
  PROVE  JobFits(j, D2, Z2)
<1>1. /\ j.name \in DOMAIN D2 <=> j.name \in DOMAIN D
      /\ j.name \in DOMAIN D => D2[j.name] = D[j.name]
      /\ j.name \in DOMAIN Z2 <=> j.name \in DOMAIN Z
      /\ j.name \in DOMAIN Z => Z2[j.name] = Z[j.name]
  BY DEF SameBut
<1>2. FilesOf(D2, j.name) = FilesOf(D, j.name) /\ FilesOf(Z2, j.name) = FilesOf(Z, j.name)
  BY <1>1 DEF FilesOf
<1>3. OwnerFits(j, D2, Z2) BY <1>1, <1>2 DEF JobFits, OwnerFits
<1>4. ReaderFits(j, D2, Z2) BY <1>1, <1>2 DEF JobFits, ReaderFits
<1>5. Unpacks(j, Z2) BY <1>2 DEF JobFits, Unpacks
<1> QED BY <1>3, <1>4, <1>5 DEF JobFits

(* Who changes the files of a name is at work on it, and past mkdir or     *)
(* about to make the directory.                                            *)
Changes(p) ==
  /\ Active(p) /\ (job[p].at = "mkdir" => job[p].name \notin DOMAIN dirs)
  /\ SameBut(job[p].name, dirs, dirs') /\ SameBut(job[p].name, zips, zips')
  /\ DOMAIN FilesOf(zips, job[p].name) \subseteq DOMAIN FilesOf(zips', job[p].name)

LEMMA OthersFit ==
  ASSUME FilesOK, NEW p \in Procs, NEW q \in Procs, q # p,
         UNCHANGED <<dirs, zips>> \/ Changes(p)
  PROVE  JobFits(job[q], dirs', zips')
<1>1. JobFits(job[q], dirs, zips) BY DEF FilesOK
<1>2. CASE UNCHANGED <<dirs, zips>> BY <1>1, <1>2
<1>3. CASE Changes(p) /\ job[q].name # job[p].name BY <1>1, <1>3, FitsElsewhere DEF Changes
<1>4. CASE Changes(p) /\ job[q].name = job[p].name
  <2>1. Meet(job[p], job[q]) /\ Meet(job[q], job[p]) BY DEF FilesOK, MeetOK
  <2>2. IsJob(job[p]) /\ IsJob(job[q]) BY DEF FilesOK, FilesTyped
  <2>3. Unpacks(job[q], zips') BY <1>1, <1>4 DEF JobFits, Unpacks, Changes
  <2>4. job[q].at \in Reading => job[q].disturbed
    BY <1>4, <2>1 DEF Changes, Active, Meet
  <2>5. job[q].at \in Owning => job[q].disturbed
    <3>1. SUFFICES ASSUME job[q].at \in Owning, ~job[q].disturbed PROVE FALSE OBVIOUS
    <3>2. job[q].name \in DOMAIN dirs BY <1>1, <3>1 DEF JobFits, OwnerFits
    <3>3. job[p].at \in Owning \cup Reading
      BY <1>4, <3>2 DEF Changes, Active, Owning, Writing
    <3>4. Active(p) /\ Active(q) BY <1>4, <3>1 DEF Changes, Active, Owning, Writing
    <3> QED BY <1>4, <2>1, <3>1, <3>3, <3>4 DEF Meet, Active
  <2> QED BY <2>3, <2>4, <2>5 DEF JobFits, OwnerFits, ReaderFits
<1> QED BY <1>2, <1>3, <1>4

(* A job goes on at its name, or is over. *)
GoesOn(p, j) ==
  j.at \in Writing \cup Reading =>
    /\ Active(p) /\ j.name = job[p].name /\ j.disturbed = job[p].disturbed
    /\ j.at \in Reading => job[p].at \in Reading
    /\ j.at \in Owning =>
         job[p].at \in Owning \/ (job[p].at = "mkdir" /\ job[p].name \notin DOMAIN dirs)

(* The step takes p to the job j, and no one else anywhere. *)
Takes(p, j) ==
  /\ job' = [q \in Procs |-> job'[q]] /\ job'[p] = j
  /\ \A q \in Procs \ {p} : job'[q] = job[q]

LEMMA OneMoves ==
  ASSUME FilesOK, NEW p \in Procs, NEW j, Takes(p, j),
         IsJob(j), GoesOn(p, j), JobFits(j, dirs', zips'),
         IsFileSystem(dirs'), IsFileSystem(zips'),
         UNCHANGED <<dirs, zips>> \/ Changes(p)
  PROVE  FilesOK'
<1>1. job' = [q \in Procs |-> job'[q]] BY DEF Takes
<1>2. job'[p] = j /\ \A q \in Procs : q # p => job'[q] = job[q] BY DEF Takes
<1>3. FilesTyped'
  <2>1. job' = [q \in Procs |-> job'[q]] BY <1>1
  <2>2. \A q \in Procs : IsJob(job'[q]) BY <1>2 DEF FilesOK, FilesTyped
  <2> QED BY <2>1, <2>2 DEF FilesTyped
<1>4. MeetOK'
  <2>1. ASSUME NEW q \in Procs, q # p PROVE Meet(j, job[q]) /\ Meet(job[q], j)
    <3>1. Meet(job[p], job[q]) /\ Meet(job[q], job[p]) BY <2>1 DEF FilesOK, MeetOK
    <3>2. SUFFICES ASSUME j.at \in Writing \cup Reading, job[q].at \in Writing \cup Reading, j.name = job[q].name
                   PROVE  /\ j.disturbed <=> job[q].disturbed
                          /\ j.at \in Reading \/ job[q].at \in Reading
                               \/ (j.at \in Owning /\ job[q].at \in Owning) => j.disturbed
      BY DEF Meet
    <3>3. /\ Active(p) /\ j.name = job[p].name /\ j.disturbed = job[p].disturbed
          /\ j.at \in Reading => job[p].at \in Reading
          /\ j.at \in Owning =>
               job[p].at \in Owning \/ (job[p].at = "mkdir" /\ job[p].name \notin DOMAIN dirs)
      BY <3>2 DEF GoesOn
    <3>4. IsJob(job[p]) /\ IsJob(job[q]) BY DEF FilesOK, FilesTyped
    <3>5. j.disturbed <=> job[q].disturbed BY <3>1, <3>2, <3>3, <3>4 DEF Meet, Active
    <3>6. j.at \in Reading => j.disturbed BY <3>1, <3>2, <3>3 DEF Meet, Active
    <3>7. job[q].at \in Reading => job[q].disturbed BY <3>1, <3>2, <3>3 DEF Meet, Active
    <3>8. j.at \in Owning /\ job[q].at \in Owning => job[q].disturbed
      <4>1. CASE job[p].at \in Owning BY <3>1, <3>2, <3>3, <4>1 DEF Meet, Active
      <4>2. CASE job[p].name \notin DOMAIN dirs
        <5>1. OwnerFits(job[q], dirs, zips) BY DEF FilesOK, JobFits
        <5> QED BY <3>2, <3>3, <4>2, <5>1 DEF OwnerFits
      <4> QED BY <3>3, <4>1, <4>2
    <3> QED BY <3>5, <3>6, <3>7, <3>8
  <2>2. ASSUME NEW q \in Procs, NEW r \in Procs, q # r PROVE Meet(job'[q], job'[r])
    <3>1. CASE q = p BY <1>2, <2>1, <2>2, <3>1
    <3>2. CASE r = p BY <1>2, <2>1, <2>2, <3>2
    <3>3. CASE q # p /\ r # p BY <1>2, <2>2, <3>3 DEF FilesOK, MeetOK
    <3> QED BY <3>1, <3>2, <3>3
  <2> QED BY <2>2 DEF MeetOK
<1>5. ASSUME NEW q \in Procs PROVE JobFits(job'[q], dirs', zips')
  <2>1. CASE q = p BY <1>2, <2>1
  <2>2. CASE q # p BY <1>2, <2>2, OthersFit
  <2> QED BY <2>1, <2>2
<1> QED BY <1>3, <1>4, <1>5 DEF FilesOK

(* A job that is over, or was not begun, is at work on no file. *)
LEMMA Stops ==
  ASSUME FilesOK, NEW p \in Procs, NEW j, Takes(p, j), IsJob(j), j.at \in {"idle", "freed", "done"},
         UNCHANGED <<dirs, zips>> \/ (Changes(p) /\ IsFileSystem(dirs') /\ UNCHANGED zips)
  PROVE  FilesOK'
<1>1. GoesOn(p, j) BY DEF GoesOn, Writing, Reading
<1>2. JobFits(j, dirs', zips')
  BY DEF JobFits, OwnerFits, ReaderFits, Unpacks, Owning, Reading
<1>3. IsFileSystem(dirs') /\ IsFileSystem(zips') BY DEF FilesOK, FilesTyped
<1> QED BY <1>1, <1>2, <1>3, OneMoves

LEMMA Idles ==
  ASSUME FilesOK, NEW p \in Procs, job' = [job EXCEPT ![p] = Idle]
  PROVE  Takes(p, job'[p]) /\ IsJob(job'[p]) /\ job'[p].at = "idle"
<1>1. job = [q \in Procs |-> job[q]] BY DEF FilesOK, FilesTyped
<1>2. IsJob(job'[p]) /\ job'[p].at = "idle" BY <1>1, NoItemsTyped DEF IsJob, Idle, Places
<1> QED BY <1>1, <1>2 DEF Takes

LEMMA Fails ==
  ASSUME FilesOK, NEW p \in Procs, Fail(p)
  PROVE  Takes(p, job'[p]) /\ IsJob(job'[p]) /\ job'[p].at = "done" /\ ~job'[p].ok
<1>1. job = [q \in Procs |-> job[q]] BY DEF FilesOK, FilesTyped
<1>2. IsJob(job'[p]) /\ job'[p].at = "done" /\ ~job'[p].ok
  BY <1>1, NoItemsTyped DEF Fail, IsJob, Idle, Places
<1> QED BY <1>1, <1>2 DEF Takes, Fail

LEMMA Succeeds ==
  ASSUME FilesOK, NEW p \in Procs, Succeed(p)
  PROVE  /\ Takes(p, job'[p]) /\ IsJob(job'[p]) /\ job'[p].at = "done" /\ job'[p].ok
         /\ job'[p].name = job[p].name /\ job'[p].items = job[p].items
         /\ job'[p].disturbed = job[p].disturbed /\ job'[p].taken = job[p].taken
         /\ job'[p].leftover = job[p].leftover
<1>1. job = [q \in Procs |-> job[q]] /\ IsJob(job[p]) BY DEF FilesOK, FilesTyped
<1>2. /\ Takes(p, job'[p]) /\ job'[p].at = "done" /\ job'[p].ok
      /\ job'[p].name = job[p].name /\ job'[p].items = job[p].items
      /\ job'[p].disturbed = job[p].disturbed /\ job'[p].taken = job[p].taken
      /\ job'[p].leftover = job[p].leftover
  BY <1>1 DEF Succeed, IsJob, Takes
<1>3. IsJob(job'[p]) BY <1>1, <1>2 DEF Succeed, IsJob, Places
<1> QED BY <1>2, <1>3

(***************************************************************************)
(* Writing.                                                                *)
(***************************************************************************)
LEMMA MkdirKeeps ==
  ASSUME FilesOK, NEW p \in Procs, Mkdir(p)
  PROVE  FilesOK'
<1> DEFINE n == job[p].name
<1>1. IsJob(job[p]) /\ IsFileSystem(dirs) /\ IsFileSystem(zips) /\ job = [q \in Procs |-> job[q]]
  BY DEF FilesOK, FilesTyped
<1>2. /\ job[p].at = "mkdir" /\ n \notin DOMAIN dirs /\ dirs' = Put(dirs, n, Info, NoCounts)
      /\ job' = [job EXCEPT ![p].at = "items", ![p].taken = n \in DOMAIN zips] /\ zips' = zips
  BY DEF Mkdir
<1>3. PICK j : j = job'[p] OBVIOUS
<1>4. /\ Takes(p, j) /\ j.at = "items" /\ j.name = n /\ j.items = job[p].items
      /\ j.todo = DOMAIN job[p].items /\ j.disturbed = job[p].disturbed
      /\ j.taken <=> n \in DOMAIN zips
  BY <1>1, <1>2, <1>3 DEF IsJob, Takes
<1>5. IsJob(j) BY <1>1, <1>2, <1>3, <1>4 DEF IsJob, Places, Writing
<1>6. PICK gs : gs = Put(dirs, n, Info, NoCounts) OBVIOUS
<1>7. IsFileSystem(gs) /\ SameBut(n, dirs, gs) /\ n \in DOMAIN gs BY <1>1, <1>6, PutTyped
<1>8. DOMAIN gs[n] = {Info}
  <2>1. DOMAIN FilesOf(dirs, n) = {} BY <1>2, NothingIsAFunction DEF FilesOf, NoItems
  <2>2. gs[n] = With(FilesOf(dirs, n), Info, NoCounts) BY <1>6 DEF Put, With
  <2> QED BY <2>1, <2>2 DEF With
<1>9. Changes(p) BY <1>2, <1>6, <1>7 DEF Changes, Active, Writing, SameBut
<1>10. GoesOn(p, j) BY <1>2, <1>4, <1>9 DEF GoesOn, Changes, Reading
<1>11. OwnerFits(j, gs, zips) BY <1>4, <1>7, <1>8 DEF OwnerFits, WrittenPart
<1>12. JobFits(j, dirs', zips') BY <1>2, <1>4, <1>6, <1>11 DEF JobFits, ReaderFits, Unpacks, Reading
<1> QED BY <1>1, <1>2, <1>4, <1>5, <1>6, <1>7, <1>9, <1>10, <1>12, OneMoves

LEMMA MkdirFailsKeeps ==
  ASSUME FilesOK, NEW p \in Procs, MkdirFails(p)
  PROVE  FilesOK'
BY Fails, Stops DEF MkdirFails

(* A step of a loop: one thing less to do. *)
LEMMA WriteItemKeeps ==
  ASSUME FilesOK, NEW p \in Procs, WriteItem(p)
  PROVE  FilesOK'
<1> DEFINE n == job[p].name
<1>1. IsJob(job[p]) /\ IsFileSystem(dirs) /\ IsFileSystem(zips) /\ job = [q \in Procs |-> job[q]]
  BY DEF FilesOK, FilesTyped
<1>2. PICK k \in job[p].todo :
        IF CanOpen(n, k)
        THEN dirs' = Put(dirs, n, k, job[p].items[k]) /\ job' = [job EXCEPT ![p].todo = @ \ {k}]
        ELSE Fail(p) /\ UNCHANGED dirs
  BY DEF WriteItem, Did
<1>3. job[p].at = "items" /\ zips' = zips BY DEF WriteItem
<1>4. CASE ~CanOpen(n, k) BY <1>2, <1>3, <1>4, Fails, Stops
<1>5. CASE CanOpen(n, k)
  <2>1. n \in DOMAIN dirs /\ job' = [job EXCEPT ![p].todo = @ \ {k}] BY <1>2, <1>5 DEF CanOpen
  <2>2. PICK gs : gs = dirs' OBVIOUS
  <2>3. k \in DOMAIN job[p].items /\ k \in Keys /\ k # Info /\ IsCounts(job[p].items[k])
    BY <1>1, <1>2, <1>3, KeyKinds DEF IsJob, IsItems
  <2>4. gs = Put(dirs, n, k, job[p].items[k]) BY <1>2, <1>5, <2>2
  <2>5. IsFileSystem(gs) /\ SameBut(n, dirs, gs) /\ n \in DOMAIN gs
    BY <1>1, <2>3, <2>4, PutTyped
  <2>6. gs[n] = With(dirs[n], k, job[p].items[k])
    BY <1>1, <2>1, <2>3, <2>4, PutTyped DEF FilesOf
  <2>7. PICK j : j = job'[p] OBVIOUS
  <2>8. /\ Takes(p, j) /\ j.at = "items" /\ j.name = n /\ j.items = job[p].items
        /\ j.todo = job[p].todo \ {k} /\ j.disturbed = job[p].disturbed
        /\ j.taken = job[p].taken
    BY <1>1, <1>3, <2>1, <2>7 DEF IsJob, Takes
  <2>9. IsJob(j) BY <1>1, <1>3, <2>1, <2>7, <2>8 DEF IsJob
  <2>10. Changes(p) BY <1>3, <2>2, <2>5 DEF Changes, Active, Writing, SameBut
  <2>11. GoesOn(p, j) BY <1>3, <2>8, <2>10 DEF GoesOn, Changes, Reading, Owning
  <2>12. OwnerFits(j, gs, zips)
    <3>1. SUFFICES ASSUME ~j.disturbed PROVE OwnerFits(j, gs, zips) BY DEF OwnerFits
    <3>2. /\ DOMAIN dirs[n] = {Info} \cup WrittenPart(job[p])
          /\ \A x \in WrittenPart(job[p]) : dirs[n][x] = job[p].items[x]
          /\ ~job[p].taken => n \notin DOMAIN zips
      BY <1>3, <2>8, <3>1 DEF FilesOK, JobFits, OwnerFits, Owning
    <3>3. WrittenPart(j) = WrittenPart(job[p]) \cup {k} BY <1>3, <2>3, <2>8 DEF WrittenPart
    <3>4. DOMAIN gs[n] = {Info} \cup WrittenPart(j) BY <2>6, <3>2, <3>3 DEF With
    <3>5. \A x \in WrittenPart(j) : gs[n][x] = j.items[x] BY <2>6, <2>8, <3>2, <3>3 DEF With
    <3> QED BY <2>5, <2>8, <3>2, <3>4, <3>5 DEF OwnerFits
  <2>13. JobFits(j, gs, zips) BY <2>8, <2>12 DEF JobFits, ReaderFits, Unpacks, Reading
  <2> QED BY <1>1, <1>3, <2>2, <2>5, <2>8, <2>9, <2>10, <2>11, <2>13, OneMoves
<1> QED BY <1>4, <1>5

LEMMA ItemsWrittenKeeps ==
  ASSUME FilesOK, NEW p \in Procs, ItemsWritten(p)
  PROVE  FilesOK'
<1>1. IsJob(job[p]) /\ IsFileSystem(dirs) /\ IsFileSystem(zips) /\ job = [q \in Procs |-> job[q]]
  BY DEF FilesOK, FilesTyped
<1>2. /\ job[p].at = "items" /\ job[p].todo = {} /\ UNCHANGED <<dirs, zips>>
      /\ job' = [job EXCEPT ![p].at = "stat", ![p].todo = {}]
  BY DEF ItemsWritten, To
<1>3. PICK j : j = job'[p] OBVIOUS
<1>4. /\ Takes(p, j) /\ j.at = "stat" /\ j.name = job[p].name /\ j.items = job[p].items
      /\ j.disturbed = job[p].disturbed /\ j.taken = job[p].taken
  BY <1>1, <1>2, <1>3 DEF IsJob, Takes
<1>5. IsJob(j) BY <1>1, <1>2, <1>3, <1>4 DEF IsJob, Places, Writing
<1>6. GoesOn(p, j) BY <1>2, <1>4 DEF GoesOn, Active, Writing, Reading, Owning
<1>7. OwnerFits(j, dirs, zips)
  <2>1. OwnerFits(job[p], dirs, zips) BY DEF FilesOK, JobFits
  <2>2. WrittenPart(j) = WrittenPart(job[p]) BY <1>2, <1>4 DEF WrittenPart
  <2> QED BY <1>2, <1>4, <2>1, <2>2 DEF OwnerFits, Owning
<1>8. JobFits(j, dirs, zips) BY <1>4, <1>7 DEF JobFits, ReaderFits, Unpacks, Reading
<1> QED BY <1>1, <1>2, <1>4, <1>5, <1>6, <1>8, OneMoves

LEMMA ZipStatKeeps ==
  ASSUME FilesOK, NEW p \in Procs, ZipStat(p)
  PROVE  FilesOK'
<1> DEFINE n == job[p].name
           files == DOMAIN FilesOf(dirs, n)
           refused == n \in DOMAIN zips \/ files = {}
<1>1. IsJob(job[p]) /\ IsFileSystem(dirs) /\ IsFileSystem(zips) /\ job = [q \in Procs |-> job[q]]
  BY DEF FilesOK, FilesTyped
<1>2. /\ job[p].at = "stat" /\ UNCHANGED <<dirs, zips>>
      /\ refused => job' = [job EXCEPT ![p].at = "rmdir", ![p].todo = {}]
      /\ ~refused => job' = [job EXCEPT ![p].at = "zip", ![p].todo = files]
  BY DEF ZipStat, To
<1>3. PICK j : j = job'[p] OBVIOUS
<1>4. /\ Takes(p, j) /\ j.name = n /\ j.items = job[p].items
      /\ j.disturbed = job[p].disturbed /\ j.taken = job[p].taken
      /\ refused => j.at = "rmdir"
      /\ ~refused => j.at = "zip" /\ j.todo = files
  <2> HIDE DEF files
  <2>1. CASE refused BY <1>1, <1>2, <1>3, <2>1 DEF IsJob, Takes
  <2>2. CASE ~refused
    <3>1. PICK F : F = files OBVIOUS
    <3>2. job' = [job EXCEPT ![p].at = "zip", ![p].todo = F] BY <1>2, <2>2, <3>1
    <3> QED BY <1>1, <1>3, <2>2, <3>1, <3>2 DEF IsJob, Takes
  <2> QED BY <2>1, <2>2
<1>5. IsJob(j)
  <2> HIDE DEF files
  <2>1. CASE refused BY <1>1, <1>2, <1>3, <1>4, <2>1 DEF IsJob, Places, Writing
  <2>2. CASE ~refused BY <1>1, <1>2, <1>3, <1>4, <2>2 DEF IsJob, Places, Writing
  <2> QED BY <2>1, <2>2
<1>6. GoesOn(p, j) BY <1>2, <1>4 DEF GoesOn, Active, Writing, Reading, Owning
<1>7. OwnerFits(j, dirs, zips)
  <2>1. OwnerFits(job[p], dirs, zips) BY DEF FilesOK, JobFits
  <2>2. WrittenPart(j) = WrittenPart(job[p]) BY <1>2, <1>4 DEF WrittenPart
  <2>3. SUFFICES ASSUME ~j.disturbed PROVE OwnerFits(j, dirs, zips) BY DEF OwnerFits
  <2>4. /\ n \in DOMAIN dirs /\ Info \in DOMAIN dirs[n]
        /\ DOMAIN dirs[n] = {Info} \cup WrittenPart(j)
        /\ \A k \in WrittenPart(j) : dirs[n][k] = j.items[k]
        /\ ~j.taken => n \notin DOMAIN zips
    BY <1>2, <1>4, <2>1, <2>2, <2>3 DEF OwnerFits, Owning
  <2>5. files = DOMAIN dirs[n] BY <2>4 DEF FilesOf
  <2>6. ~refused => FilesOf(zips, n) = NoItems BY DEF FilesOf
  <2>7. ~refused => PartOf(FilesOf(zips, n), dirs[n], files)
    BY <2>5, <2>6, NothingIsAFunction DEF PartOf, NoItems
  <2>8. refused => j.taken BY <2>4, <2>5
  <2> QED BY <1>4, <2>4, <2>7, <2>8 DEF OwnerFits
<1>8. JobFits(j, dirs, zips) BY <1>4, <1>7 DEF JobFits, ReaderFits, Unpacks, Reading
<1> QED BY <1>1, <1>2, <1>4, <1>5, <1>6, <1>8, OneMoves

LEMMA ZipAddKeeps ==
  ASSUME FilesOK, NEW p \in Procs, ZipAdd(p)
  PROVE  FilesOK'
<1> DEFINE n == job[p].name
<1>1. IsJob(job[p]) /\ IsFileSystem(dirs) /\ IsFileSystem(zips) /\ job = [q \in Procs |-> job[q]]
  BY DEF FilesOK, FilesTyped
<1>2. PICK k \in job[p].todo :
        IF k \in DOMAIN FilesOf(dirs, n)
        THEN zips' = Put(zips, n, k, dirs[n][k]) /\ job' = [job EXCEPT ![p].todo = @ \ {k}]
        ELSE zips' = zips /\ job' = [job EXCEPT ![p].at = "rmdir", ![p].todo = {}]
  BY DEF ZipAdd, Did, To
<1>3. job[p].at = "zip" /\ dirs' = dirs BY DEF ZipAdd
<1>4. PICK j : j = job'[p] OBVIOUS
<1>5. OwnerFits(job[p], dirs, zips) BY DEF FilesOK, JobFits
<1>6. WrittenPart(job[p]) = DOMAIN job[p].items BY <1>3 DEF WrittenPart
<1>7. CASE k \notin DOMAIN FilesOf(dirs, n)
  <2>1. zips' = zips /\ job' = [job EXCEPT ![p].at = "rmdir", ![p].todo = {}] BY <1>2, <1>7
  <2>2. /\ Takes(p, j) /\ j.at = "rmdir" /\ j.name = n /\ j.items = job[p].items
        /\ j.disturbed = job[p].disturbed /\ j.taken = job[p].taken
    BY <1>1, <1>4, <2>1 DEF IsJob, Takes
  <2>3. IsJob(j) BY <1>1, <1>3, <1>4, <2>1, <2>2 DEF IsJob, Places, Writing
  <2>4. GoesOn(p, j) BY <1>3, <2>2 DEF GoesOn, Active, Writing, Reading, Owning
  <2>5. OwnerFits(j, dirs, zips)
    <3>1. SUFFICES ASSUME ~job[p].disturbed PROVE FALSE BY <2>2 DEF OwnerFits
    <3>2. n \in DOMAIN dirs /\ job[p].todo \subseteq DOMAIN dirs[n]
      BY <1>3, <1>5, <3>1 DEF OwnerFits, Owning, PartOf
    <3> QED BY <1>2, <1>7, <3>2 DEF FilesOf
  <2>6. JobFits(j, dirs, zips) BY <2>2, <2>5 DEF JobFits, ReaderFits, Unpacks, Reading
  <2> QED BY <1>1, <1>3, <2>1, <2>2, <2>3, <2>4, <2>6, OneMoves
<1>8. CASE k \in DOMAIN FilesOf(dirs, n)
  <2>1. zips' = Put(zips, n, k, dirs[n][k]) /\ job' = [job EXCEPT ![p].todo = @ \ {k}] BY <1>2, <1>8
  <2>2. n \in DOMAIN dirs /\ k \in DOMAIN dirs[n] BY <1>8, NothingIsAFunction DEF FilesOf, NoItems
  <2>3. k \in Keys \cup {Info} /\ IF k = Info THEN dirs[n][k] = NoCounts ELSE IsCounts(dirs[n][k])
    BY <1>1, <2>2 DEF IsFileSystem, AreFiles
  <2>4. PICK content : content = dirs[n][k] OBVIOUS
  <2>5. PICK gs : gs = Put(zips, n, k, content) OBVIOUS
  <2>6. zips' = gs BY <2>1, <2>4, <2>5
  <2>7. IsFileSystem(gs) /\ SameBut(n, zips, gs) /\ n \in DOMAIN gs
    BY <1>1, <2>3, <2>4, <2>5, PutTyped
  <2>8. gs[n] = With(FilesOf(zips, n), k, content) BY <2>5 DEF Put, With
  <2>9. /\ Takes(p, j) /\ j.at = "zip" /\ j.name = n /\ j.items = job[p].items
        /\ j.todo = job[p].todo \ {k} /\ j.disturbed = job[p].disturbed
        /\ j.taken = job[p].taken
    BY <1>1, <1>3, <1>4, <2>1 DEF IsJob, Takes
  <2>10. IsJob(j) BY <1>1, <1>3, <1>4, <2>1, <2>9 DEF IsJob
  <2>11. FilesOf(gs, n) = gs[n] BY <2>7 DEF FilesOf
  <2>12. DOMAIN FilesOf(zips, n) \subseteq DOMAIN FilesOf(gs, n) BY <2>8, <2>11 DEF With
  <2>13. Changes(p) BY <1>3, <2>6, <2>7, <2>12 DEF Changes, Active, Writing, SameBut
  <2>14. GoesOn(p, j) BY <1>3, <2>9, <2>13 DEF GoesOn, Changes, Reading, Owning
  <2>15. OwnerFits(j, dirs, gs)
    <3>1. SUFFICES ASSUME ~j.disturbed PROVE OwnerFits(j, dirs, gs) BY DEF OwnerFits
    <3>2. /\ DOMAIN dirs[n] = {Info} \cup WrittenPart(j)
          /\ \A x \in WrittenPart(j) : dirs[n][x] = j.items[x]
          /\ PartOf(FilesOf(zips, n), dirs[n], job[p].todo)
      BY <1>3, <1>5, <2>9, <3>1 DEF OwnerFits, Owning, WrittenPart
    <3>3. PartOf(gs[n], dirs[n], j.todo)
      BY <1>2, <2>2, <2>4, <2>8, <2>9, <3>2 DEF PartOf, With
    <3> QED BY <2>2, <2>9, <2>11, <3>2, <3>3 DEF OwnerFits
  <2>16. JobFits(j, dirs, gs) BY <2>9, <2>15 DEF JobFits, ReaderFits, Unpacks, Reading
  <2> QED BY <1>1, <1>3, <2>6, <2>7, <2>9, <2>10, <2>13, <2>14, <2>16, OneMoves
<1> QED BY <1>7, <1>8

(* The archive has all of the directory, which has all of the items. *)
LEMMA ZipDoneKeeps ==
  ASSUME FilesOK, NEW p \in Procs, ZipDone(p)
  PROVE  FilesOK'
<1> DEFINE n == job[p].name
<1>1. IsJob(job[p]) /\ IsFileSystem(dirs) /\ IsFileSystem(zips) /\ job = [q \in Procs |-> job[q]]
  BY DEF FilesOK, FilesTyped
<1>2. /\ job[p].at = "zip" /\ job[p].todo = {} /\ UNCHANGED <<dirs, zips>>
      /\ job' = [job EXCEPT ![p].at = "rmdir", ![p].todo = {}]
  BY DEF ZipDone, To
<1>3. PICK j : j = job'[p] OBVIOUS
<1>4. /\ Takes(p, j) /\ j.at = "rmdir" /\ j.name = n /\ j.items = job[p].items
      /\ j.disturbed = job[p].disturbed /\ j.taken = job[p].taken
  BY <1>1, <1>2, <1>3 DEF IsJob, Takes
<1>5. IsJob(j) BY <1>1, <1>2, <1>3, <1>4 DEF IsJob, Places, Writing
<1>6. GoesOn(p, j) BY <1>2, <1>4 DEF GoesOn, Active, Writing, Reading, Owning
<1>7. OwnerFits(j, dirs, zips)
  <2>1. SUFFICES ASSUME ~j.disturbed PROVE OwnerFits(j, dirs, zips) BY DEF OwnerFits
  <2>2. OwnerFits(job[p], dirs, zips) BY DEF FilesOK, JobFits
  <2>3. /\ n \in DOMAIN dirs
        /\ DOMAIN dirs[n] = {Info} \cup DOMAIN j.items
        /\ \A k \in DOMAIN j.items : dirs[n][k] = j.items[k]
        /\ PartOf(FilesOf(zips, n), dirs[n], {})
    BY <1>2, <1>4, <2>1, <2>2 DEF OwnerFits, Owning, WrittenPart
  <2>4. n \in DOMAIN zips /\ FilesOf(zips, n) = zips[n]
    BY <2>3, NothingIsAFunction DEF PartOf, FilesOf, NoItems
  <2>5. PICK saved : saved = With(j.items, Info, NoCounts) OBVIOUS
  <2>6. saved = [k \in DOMAIN saved |-> saved[k]] /\ DOMAIN saved = {Info} \cup DOMAIN j.items
    BY <2>5 DEF With
  <2>7. AreFiles(zips[n]) /\ AreFiles(dirs[n]) BY <1>1, <2>3, <2>4 DEF IsFileSystem
  <2>8. DOMAIN zips[n] = DOMAIN saved BY <2>3, <2>4, <2>6 DEF PartOf
  <2>9. Info \notin DOMAIN j.items BY <1>5, KeyKinds DEF IsJob, IsItems
  <2>10. ASSUME NEW k \in DOMAIN zips[n] PROVE zips[n][k] = saved[k]
    <3>1. CASE k = Info BY <2>5, <2>7, <2>10, <3>1 DEF AreFiles, With
    <3>2. CASE k # Info
      <4>1. k \in DOMAIN j.items BY <2>6, <2>8, <2>10, <3>2
      <4>2. saved[k] = j.items[k] BY <2>5, <3>2, <4>1 DEF With
      <4> QED BY <2>3, <2>4, <2>10, <4>1, <4>2 DEF PartOf
    <3> QED BY <3>1, <3>2
  <2>11. zips[n] = saved
    <3>1. PICK f : f = zips[n] OBVIOUS
    <3>2. f = [k \in DOMAIN f |-> f[k]] BY <2>7, <3>1 DEF AreFiles
    <3> QED BY <2>6, <2>8, <2>10, <3>1, <3>2, FunctionsEqual
  <2> QED BY <1>4, <2>3, <2>4, <2>5, <2>11 DEF OwnerFits, WrittenPart
<1>8. JobFits(j, dirs, zips) BY <1>4, <1>7 DEF JobFits, ReaderFits, Unpacks, Reading
<1> QED BY <1>1, <1>2, <1>4, <1>5, <1>6, <1>8, OneMoves

LEMMA RemoveDirKeeps ==
  ASSUME FilesOK, NEW p \in Procs, RemoveDir(p)
  PROVE  FilesOK'
<1>1. IsFileSystem(dirs) BY DEF FilesOK, FilesTyped
<1>2. job[p].at = "rmdir" /\ dirs' = RemovedFrom(dirs, job[p].name) /\ Succeed(p) /\ zips' = zips
  BY DEF RemoveDir
<1>3. IsFileSystem(dirs') /\ SameBut(job[p].name, dirs, dirs') BY <1>1, <1>2, RemovedTyped
<1>4. Changes(p) BY <1>2, <1>3 DEF Changes, Active, Writing, SameBut
<1> QED BY <1>2, <1>3, <1>4, Succeeds, Stops

(***************************************************************************)
(* Reading.                                                                *)
(***************************************************************************)
LEMMA ExtractKeeps ==
  ASSUME FilesOK, NEW p \in Procs, Extract(p)
  PROVE  FilesOK'
<1> DEFINE n == job[p].name
<1>1. IsJob(job[p]) /\ IsFileSystem(dirs) /\ IsFileSystem(zips) /\ job = [q \in Procs |-> job[q]]
  BY DEF FilesOK, FilesTyped
<1>2. PICK k \in job[p].todo :
        dirs' = Put(dirs, n, k, FilesOf(zips, n)[k]) /\ job' = [job EXCEPT ![p].todo = @ \ {k}]
  BY DEF Extract, Did
<1>3. job[p].at = "unzip" /\ zips' = zips BY DEF Extract
<1>4. k \in DOMAIN FilesOf(zips, n) BY <1>2, <1>3 DEF FilesOK, JobFits, Unpacks
<1>5. PICK content : content = FilesOf(zips, n)[k] OBVIOUS
<1>6. k \in Keys \cup {Info} /\ IF k = Info THEN content = NoCounts ELSE IsCounts(content)
  BY <1>1, <1>4, <1>5, FilesOfTyped DEF AreFiles
<1>7. PICK gs : gs = Put(dirs, n, k, content) OBVIOUS
<1>8. dirs' = gs BY <1>2, <1>5, <1>7
<1>9. IsFileSystem(gs) /\ SameBut(n, dirs, gs) /\ n \in DOMAIN gs BY <1>1, <1>6, <1>7, PutTyped
<1>10. gs[n] = With(FilesOf(dirs, n), k, content) BY <1>7 DEF Put, With
<1>11. PICK j : j = job'[p] OBVIOUS
<1>12. /\ Takes(p, j) /\ j.at = "unzip" /\ j.name = n /\ j.items = job[p].items
       /\ j.todo = job[p].todo \ {k} /\ j.disturbed = job[p].disturbed
       /\ j.leftover = job[p].leftover
  BY <1>1, <1>2, <1>3, <1>11 DEF IsJob, Takes
<1>13. IsJob(j) BY <1>1, <1>2, <1>3, <1>11, <1>12 DEF IsJob
<1>14. Changes(p) BY <1>3, <1>8, <1>9 DEF Changes, Active, Reading, SameBut
<1>15. GoesOn(p, j) BY <1>3, <1>12, <1>14 DEF GoesOn, Changes, Reading, Owning
<1>16. ReaderFits(j, gs, zips)
  <2>1. SUFFICES ASSUME ~j.disturbed, ~j.leftover PROVE ReaderFits(j, gs, zips) BY DEF ReaderFits
  <2>2. PartOf(FilesOf(dirs, n), FilesOf(zips, n), job[p].todo) /\ j.items = NoItems
    BY <1>3, <1>12, <2>1 DEF FilesOK, JobFits, ReaderFits, Reading
  <2>3. PartOf(gs[n], FilesOf(zips, n), j.todo)
    BY <1>2, <1>4, <1>5, <1>10, <1>12, <2>2 DEF PartOf, With
  <2>4. FilesOf(gs, n) = gs[n] BY <1>9 DEF FilesOf
  <2>5. DOMAIN gs[n] # {} BY <1>10 DEF With
  <2> QED BY <1>12, <2>2, <2>3, <2>4, <2>5 DEF ReaderFits
<1>17. Unpacks(j, zips) BY <1>3, <1>12 DEF FilesOK, JobFits, Unpacks
<1>18. JobFits(j, gs, zips) BY <1>12, <1>16, <1>17 DEF JobFits, OwnerFits, Owning
<1> QED BY <1>1, <1>3, <1>8, <1>9, <1>12, <1>13, <1>14, <1>15, <1>18, OneMoves

LEMMA OpenDirKeeps ==
  ASSUME FilesOK, NEW p \in Procs, OpenDir(p)
  PROVE  FilesOK'
<1> DEFINE n == job[p].name
           visible == DOMAIN dirs[n] \ (HiddenKeys \cup {Info})
<1>1. IsJob(job[p]) /\ IsFileSystem(dirs) /\ IsFileSystem(zips) /\ job = [q \in Procs |-> job[q]]
  BY DEF FilesOK, FilesTyped
<1>2. job[p].at = "unzip" /\ job[p].todo = {} /\ UNCHANGED <<dirs, zips>> BY DEF OpenDir
<1>3. CASE n \notin DOMAIN dirs
  <2>1. Fail(p) BY <1>3 DEF OpenDir
  <2> QED BY <1>2, <2>1, Fails, Stops
<1>4. CASE n \in DOMAIN dirs
  <2>1. PICK todo : todo = visible OBVIOUS
  <2>2. job' = [job EXCEPT ![p].at = "readdir", ![p].todo = todo] BY <1>4, <2>1 DEF OpenDir, To
  <2>3. PICK j : j = job'[p] OBVIOUS
  <2>4. /\ Takes(p, j) /\ j.at = "readdir" /\ j.name = n /\ j.items = job[p].items
        /\ j.todo = todo /\ j.disturbed = job[p].disturbed /\ j.leftover = job[p].leftover
    BY <1>1, <2>2, <2>3 DEF IsJob, Takes
  <2>5. IsJob(j)
    <3>1. j \in [at : Places, name : {j.name}, items : {j.items}, todo : {j.todo}, ok : BOOLEAN,
                 disturbed : BOOLEAN, taken : BOOLEAN, leftover : BOOLEAN]
      BY <1>1, <2>2, <2>3, <2>4 DEF IsJob, Places, Reading
    <3>2. todo \cap (HiddenKeys \cup {Info}) = {} BY <2>1
    <3> QED BY <1>1, <2>4, <3>1, <3>2 DEF IsJob
  <2>6. GoesOn(p, j) BY <1>2, <2>4 DEF GoesOn, Active, Reading, Owning
  <2>7. ReaderFits(j, dirs, zips)
    <3>1. SUFFICES ASSUME ~j.disturbed, ~j.leftover PROVE ReaderFits(j, dirs, zips) BY DEF ReaderFits
    <3>2. /\ DOMAIN dirs[n] # {} /\ PartOf(FilesOf(dirs, n), FilesOf(zips, n), {})
          /\ j.items = NoItems
      BY <1>2, <1>4, <2>4, <3>1 DEF FilesOK, JobFits, ReaderFits, Reading
    <3>3. PartOf(dirs[n], FilesOf(zips, n), {}) BY <1>4, <3>2 DEF FilesOf
    <3>4. HasRead(j.items, FilesOf(zips, n), todo)
      <4>1. Read(FilesOf(zips, n), todo) = {} BY <2>1, <3>3 DEF Read, PartOf
      <4>2. DOMAIN j.items = {} BY <3>2, NothingIsAFunction DEF NoItems
      <4> QED BY <4>1, <4>2 DEF HasRead
    <3> QED BY <1>4, <2>1, <2>4, <3>2, <3>3, <3>4 DEF ReaderFits
  <2>8. JobFits(j, dirs, zips) BY <2>4, <2>7 DEF JobFits, OwnerFits, Unpacks, Owning
  <2> QED BY <1>1, <1>2, <2>4, <2>5, <2>6, <2>8, OneMoves
<1> QED BY <1>3, <1>4

(* What is read of a file: all of it, or the counters before the empty     *)
(* value.                                                                  *)
LEMMA ReadablePartsTyped ==
  ASSUME NEW counts, IsCounts(counts), NEW part \in ReadableParts(counts)
  PROVE  /\ DOMAIN part \subseteq DOMAIN counts
         /\ part = Restrict(counts, DOMAIN part)
         /\ part # NoCounts => IsCounts(part)
         /\ EmptyValue \notin DOMAIN counts => part = counts /\ part # NoCounts
<1>1. counts = Restrict(counts, DOMAIN counts) BY DEF IsCounts, Restrict
<1>2. PICK V : V \subseteq DOMAIN counts /\ part = Restrict(counts, V)
  <2>1. CASE EmptyValue \notin DOMAIN counts BY <1>1, <2>1 DEF ReadableParts
  <2>2. CASE EmptyValue \in DOMAIN counts
    <3>1. PICK V \in SUBSET (DOMAIN counts \ {EmptyValue}) : part = Restrict(counts, V)
      BY <2>2 DEF ReadableParts
    <3> QED BY <3>1
  <2> QED BY <2>1, <2>2
<1>3. DOMAIN part = V /\ part = [v \in DOMAIN part |-> part[v]] /\ \A v \in V : part[v] = counts[v]
  BY <1>2 DEF Restrict
<1>4. part # NoCounts => DOMAIN part # {}
  BY <1>3, NothingIsAFunction, FunctionsEqual DEF NoCounts
<1>5. part # NoCounts => IsCounts(part) BY <1>2, <1>3, <1>4 DEF IsCounts
<1>6. EmptyValue \notin DOMAIN counts => part = counts BY DEF ReadableParts
<1>7. counts # NoCounts BY NothingIsAFunction DEF IsCounts, NoCounts
<1> QED BY <1>2, <1>3, <1>5, <1>6, <1>7

LEMMA ReadItemKeeps ==
  ASSUME FilesOK, NEW p \in Procs, ReadItem(p)
  PROVE  FilesOK'
<1> DEFINE n == job[p].name
<1>1. IsJob(job[p]) /\ IsFileSystem(dirs) /\ IsFileSystem(zips) /\ job = [q \in Procs |-> job[q]]
  BY DEF FilesOK, FilesTyped
<1>2. job[p].at = "readdir" /\ UNCHANGED <<dirs, zips>> BY DEF ReadItem
<1>3. PICK k \in job[p].todo :
        /\ k \in DOMAIN FilesOf(dirs, n)
        /\ \E part \in ReadableParts(dirs[n][k]) :
             job' = [Did(p, k) EXCEPT ![p].items = IF part = NoCounts THEN @ ELSE With(@, k, part)]
  BY DEF ReadItem
<1>4. PICK counts : counts = dirs[n][k] OBVIOUS
<1>5. PICK part \in ReadableParts(counts) :
        job' = [Did(p, k) EXCEPT ![p].items = IF part = NoCounts THEN @ ELSE With(@, k, part)]
  BY <1>3, <1>4
<1>6. PICK items : items = IF part = NoCounts THEN job[p].items ELSE With(job[p].items, k, part)
  OBVIOUS
<1>7. PICK j : j = job'[p] OBVIOUS
<1>8. /\ Takes(p, j) /\ j.at = "readdir" /\ j.name = n /\ j.items = items
      /\ j.todo = job[p].todo \ {k} /\ j.disturbed = job[p].disturbed
      /\ j.leftover = job[p].leftover
      /\ j \in [at : Places, name : {j.name}, items : {j.items}, todo : {j.todo}, ok : BOOLEAN,
                disturbed : BOOLEAN, taken : BOOLEAN, leftover : BOOLEAN]
  <2>1. PICK did : did = Did(p, k) OBVIOUS
  <2>2. /\ did = [q \in Procs |-> did[q]]
        /\ \A q \in Procs \ {p} : did[q] = job[q]
        /\ did[p].at = "readdir" /\ did[p].name = n /\ did[p].items = job[p].items
        /\ did[p].todo = job[p].todo \ {k} /\ did[p].disturbed = job[p].disturbed
        /\ did[p].leftover = job[p].leftover
    BY <1>1, <1>2, <2>1 DEF Did, IsJob
  <2>3. did[p] \in [at : Places, name : {n}, items : {job[p].items}, todo : {did[p].todo}, ok : BOOLEAN,
                    disturbed : BOOLEAN, taken : BOOLEAN, leftover : BOOLEAN]
    BY <1>1, <1>2, <2>1 DEF Did, IsJob
  <2>4. job' = [did EXCEPT ![p].items = items] BY <1>5, <1>6, <2>1, <2>2
  <2>5. /\ job' = [q \in Procs |-> job'[q]]
        /\ \A q \in Procs \ {p} : job'[q] = job[q]
    BY <2>2, <2>4
  <2>6. /\ j.at = "readdir" /\ j.name = n /\ j.items = items
        /\ j.todo = job[p].todo \ {k} /\ j.disturbed = job[p].disturbed
        /\ j.leftover = job[p].leftover
    BY <1>7, <2>2, <2>3, <2>4
  <2>7. j \in [at : Places, name : {j.name}, items : {j.items}, todo : {j.todo}, ok : BOOLEAN,
               disturbed : BOOLEAN, taken : BOOLEAN, leftover : BOOLEAN]
    BY <1>7, <2>2, <2>3, <2>4
  <2> QED BY <1>7, <2>5, <2>6, <2>7 DEF Takes
<1>9. n \in DOMAIN dirs /\ k \in DOMAIN dirs[n] BY <1>3, NothingIsAFunction DEF FilesOf, NoItems
<1>10. k \notin HiddenKeys \cup {Info} BY <1>1, <1>2, <1>3 DEF IsJob
<1>11. k \in Keys /\ IsCounts(counts) BY <1>1, <1>4, <1>9, <1>10 DEF IsFileSystem, AreFiles
<1>12. /\ DOMAIN part \subseteq DOMAIN counts /\ part = Restrict(counts, DOMAIN part)
       /\ part # NoCounts => IsCounts(part)
       /\ EmptyValue \notin DOMAIN counts => part = counts /\ part # NoCounts
  BY <1>11, ReadablePartsTyped
<1>13. IsItems(items)
  <2>1. IsItems(job[p].items) BY <1>1 DEF IsJob
  <2>2. CASE part = NoCounts BY <1>6, <2>1, <2>2
  <2>3. CASE part # NoCounts
    <3>1. items = With(job[p].items, k, part) /\ IsCounts(part) BY <1>6, <1>12, <2>3
    <3> QED BY <1>11, <2>1, <3>1 DEF IsItems, With
  <2> QED BY <2>2, <2>3
<1>14. IsJob(j) BY <1>1, <1>2, <1>8, <1>13 DEF IsJob
<1>15. GoesOn(p, j) BY <1>2, <1>8 DEF GoesOn, Active, Reading, Owning
<1>16. ReaderFits(j, dirs, zips)
  <2> DEFINE archive == FilesOf(zips, n)
  <2>1. SUFFICES ASSUME ~j.disturbed, ~j.leftover PROVE ReaderFits(j, dirs, zips) BY DEF ReaderFits
  <2>2. /\ DOMAIN dirs[n] # {} /\ PartOf(dirs[n], archive, {})
        /\ job[p].todo \subseteq DOMAIN dirs[n]
        /\ HasRead(job[p].items, archive, job[p].todo)
    BY <1>2, <1>8, <1>9, <2>1 DEF FilesOK, JobFits, ReaderFits, Reading
  <2> HIDE DEF archive
  <2>3. k \in DOMAIN archive /\ archive[k] = counts BY <1>4, <1>9, <2>2 DEF PartOf
  <2>4. Read(archive, j.todo) = Read(archive, job[p].todo) \cup {k} /\ k \notin Read(archive, job[p].todo)
    BY <1>3, <1>8, <1>10, <2>3 DEF Read
  <2>5. k \notin DOMAIN job[p].items BY <2>2, <2>4 DEF HasRead
  <2>6. HasRead(items, archive, j.todo)
    <3>1. CASE part = NoCounts
      <4>1. items = job[p].items /\ EmptyValue \in DOMAIN archive[k] BY <1>6, <1>12, <2>3, <3>1
      <4> QED BY <2>2, <2>4, <4>1 DEF HasRead
    <3>2. CASE part # NoCounts
      <4>1. items = With(job[p].items, k, part) BY <1>6, <3>2
      <4>2. /\ DOMAIN items = DOMAIN job[p].items \cup {k} /\ items[k] = part
            /\ \A x \in DOMAIN job[p].items : items[x] = job[p].items[x]
        BY <2>5, <4>1 DEF With
      <4>3. DOMAIN items \subseteq Read(archive, j.todo) BY <2>2, <2>4, <4>2 DEF HasRead
      <4>4. ASSUME NEW x \in DOMAIN items
            PROVE  DOMAIN items[x] \subseteq DOMAIN archive[x] /\ items[x] = Restrict(archive[x], DOMAIN items[x])
        <5>1. CASE x = k BY <1>12, <2>3, <4>2, <5>1
        <5>2. CASE x # k
          <6>1. x \in DOMAIN job[p].items /\ items[x] = job[p].items[x] BY <4>2, <4>4, <5>2
          <6> QED BY <2>2, <6>1 DEF HasRead
        <5> QED BY <5>1, <5>2
      <4>5. ASSUME NEW x \in Read(archive, j.todo), EmptyValue \notin DOMAIN archive[x]
            PROVE  x \in DOMAIN items /\ items[x] = archive[x]
        <5>1. CASE x = k BY <1>12, <2>3, <4>2, <4>5, <5>1
        <5>2. CASE x # k
          <6>1. x \in DOMAIN job[p].items /\ job[p].items[x] = archive[x]
            BY <2>2, <2>4, <4>5, <5>2 DEF HasRead
          <6> QED BY <4>2, <6>1
        <5> QED BY <5>1, <5>2
      <4> QED BY <4>3, <4>4, <4>5 DEF HasRead
    <3> QED BY <3>1, <3>2
  <2> QED BY <1>8, <1>9, <2>2, <2>6 DEF ReaderFits, archive
<1>17. JobFits(j, dirs, zips) BY <1>8, <1>16 DEF JobFits, OwnerFits, Unpacks, Owning
<1> QED BY <1>1, <1>2, <1>8, <1>14, <1>15, <1>17, OneMoves

LEMMA CleanUpKeeps ==
  ASSUME FilesOK, NEW p \in Procs, CleanUp(p)
  PROVE  FilesOK'
<1>1. IsFileSystem(dirs) BY DEF FilesOK, FilesTyped
<1>2. job[p].at = "readdir" /\ dirs' = RemovedFrom(dirs, job[p].name) /\ Succeed(p) /\ zips' = zips
  BY DEF CleanUp
<1>3. IsFileSystem(dirs') /\ SameBut(job[p].name, dirs, dirs') BY <1>1, <1>2, RemovedTyped
<1>4. Changes(p) BY <1>2, <1>3 DEF Changes, Active, Reading, SameBut
<1> QED BY <1>2, <1>3, <1>4, Succeeds, Stops

(***************************************************************************)
(* A job that begins, and disturbs those it meets.                         *)
(***************************************************************************)
LEMMA MarkedTyped ==
  ASSUME NEW j, IsJob(j), NEW m, m = [j EXCEPT !.disturbed = TRUE]
  PROVE  /\ IsJob(m) /\ m.disturbed
         /\ m.at = j.at /\ m.name = j.name /\ m.items = j.items /\ m.todo = j.todo
         /\ m.ok = j.ok /\ m.taken = j.taken /\ m.leftover = j.leftover
<1>1. /\ m.disturbed
      /\ m.at = j.at /\ m.name = j.name /\ m.items = j.items /\ m.todo = j.todo
      /\ m.ok = j.ok /\ m.taken = j.taken /\ m.leftover = j.leftover
  BY DEF IsJob
<1>2. IsJob(m) BY <1>1 DEF IsJob
<1> QED BY <1>1, <1>2

(* A job as it begins, and what it does to the others. *)
Begins(p, n, at, items, todo, reads) ==
  LET j == job'[p]
  IN /\ job' = [q \in Procs |-> job'[q]]
     /\ IsJob(j) /\ j.at = at /\ j.name = n /\ j.items = items /\ j.todo = todo /\ ~j.ok
     /\ j.disturbed <=> Clash(p, n, reads) # {}
     /\ j.leftover <=> reads /\ n \in DOMAIN dirs
     /\ \A q \in Procs \ {p} :
          job'[q] = IF q \in Clash(p, n, reads) THEN [job[q] EXCEPT !.disturbed = TRUE] ELSE job[q]

LEMMA StartBegins ==
  ASSUME FilesOK, NEW p \in Procs, NEW n, NEW at \in {"mkdir", "unzip"}, NEW items, IsItems(items),
         NEW todo, at = "mkdir" => todo = DOMAIN items,
         NEW reads \in BOOLEAN, Start(p, n, at, items, todo, reads)
  PROVE  Begins(p, n, at, items, todo, reads)
<1> DEFINE disturbed == Clash(p, n, reads) # {}
           leftover == reads /\ n \in DOMAIN dirs
           j == [Idle EXCEPT !.at = at, !.name = n, !.items = items, !.todo = todo,
                             !.disturbed = disturbed, !.leftover = leftover]
<1>1. /\ job' = [q \in Procs |-> job'[q]] /\ job'[p] = j
      /\ \A q \in Procs \ {p} :
           job'[q] = IF q \in Clash(p, n, reads) THEN [job[q] EXCEPT !.disturbed = TRUE] ELSE job[q]
  BY DEF Start
<1>2. disturbed \in BOOLEAN /\ leftover \in BOOLEAN OBVIOUS
<1> HIDE DEF disturbed, leftover
<1>3. /\ j.at = at /\ j.name = n /\ j.items = items /\ j.todo = todo /\ ~j.ok
      /\ j.disturbed = disturbed /\ j.leftover = leftover
  BY DEF Idle
<1>4. IsJob(j)
  <2>1. j \in [at : Places, name : {n}, items : {items}, todo : {todo}, ok : BOOLEAN,
               disturbed : BOOLEAN, taken : BOOLEAN, leftover : BOOLEAN]
    BY <1>2 DEF Idle, Places, Writing, Reading
  <2> HIDE DEF j
  <2> QED BY <1>3, <2>1 DEF IsJob
<1> HIDE DEF j
<1> QED BY <1>1, <1>3, <1>4 DEF Begins, disturbed, leftover

LEMMA BeginsKeeps ==
  ASSUME FilesOK, NEW p \in Procs, NEW n, NEW at, NEW items, NEW todo, NEW reads \in BOOLEAN,
         IF reads THEN at = "unzip" /\ items = NoItems /\ todo = DOMAIN FilesOf(zips, n)
         ELSE at = "mkdir",
         Begins(p, n, at, items, todo, reads), UNCHANGED <<dirs, zips>>
  PROVE  FilesOK'
<1>1. PICK j : j = job'[p] OBVIOUS
<1>2. /\ job' = [q \in Procs |-> job'[q]]
      /\ IsJob(j) /\ j.at = at /\ j.name = n /\ j.items = items /\ j.todo = todo
      /\ j.disturbed <=> Clash(p, n, reads) # {}
      /\ j.leftover <=> reads /\ n \in DOMAIN dirs
  BY <1>1 DEF Begins
<1>3. \A q \in Procs : IsJob(job[q]) BY DEF FilesOK, FilesTyped
<1>4. ASSUME NEW q \in Procs, q # p
      PROVE  /\ IsJob(job'[q]) /\ job'[q].at = job[q].at /\ job'[q].name = job[q].name
             /\ job'[q].todo = job[q].todo
             /\ job'[q].disturbed <=> job[q].disturbed \/ q \in Clash(p, n, reads)
             /\ q \notin Clash(p, n, reads) => job'[q] = job[q]
  <2>1. CASE q \in Clash(p, n, reads)
    <3>1. job'[q] = [job[q] EXCEPT !.disturbed = TRUE] BY <1>4, <2>1 DEF Begins
    <3> QED BY <1>3, <2>1, <3>1, MarkedTyped
  <2>2. CASE q \notin Clash(p, n, reads) BY <1>3, <1>4, <2>2 DEF Begins
  <2> QED BY <2>1, <2>2
<1>5. FilesTyped'
  <2>1. \A q \in Procs : IsJob(job'[q]) BY <1>1, <1>2, <1>4
  <2> QED BY <1>2, <2>1 DEF FilesOK, FilesTyped
<1>6. \A q, r \in Procs : q # r => Meet(job[q], job[r]) BY DEF FilesOK, MeetOK
(* Either all who are at work on n are disturbed now, or none is and none reads. *)
<1>7. \/ \A q \in Procs \ {p} : Active(q) /\ job[q].name = n => q \in Clash(p, n, reads)
      \/ /\ ~reads
         /\ \A q \in Procs \ {p} :
              Active(q) /\ job[q].name = n => ~job[q].disturbed /\ job[q].at \notin Reading
  <2>1. SUFFICES ASSUME NEW q \in Procs \ {p}, Active(q), job[q].name = n, q \notin Clash(p, n, reads),
                        NEW r \in Procs \ {p}, Active(r), job[r].name = n
                 PROVE  ~reads /\ ~job[r].disturbed /\ job[r].at \notin Reading
    OBVIOUS
  <2>2. ~reads /\ job[q].at \notin Reading /\ ~job[q].disturbed BY <2>1 DEF Clash, Others
  <2>3. CASE r = q BY <2>2, <2>3
  <2>4. CASE r # q
    <3>1. Meet(job[r], job[q]) BY <1>6, <2>1, <2>4
    <3> QED BY <2>1, <2>2, <3>1 DEF Meet, Active
  <2> QED BY <2>3, <2>4
<1>8. \A q \in Clash(p, n, reads) : q \in Procs \ {p} /\ Active(q) /\ job[q].name = n BY DEF Clash, Others
<1>9. ASSUME NEW q \in Procs, q # p PROVE Meet(j, job'[q]) /\ Meet(job'[q], j)
  <2>1. SUFFICES ASSUME job[q].at \in Writing \cup Reading, job[q].name = n
                 PROVE  /\ j.disturbed <=> job'[q].disturbed
                        /\ at \in Reading \/ job[q].at \in Reading \/ at \in Owning => j.disturbed
    BY <1>2, <1>4, <1>9 DEF Meet
  <2>2. Active(q) BY <2>1 DEF Active
  <2>3. CASE q \in Clash(p, n, reads) BY <1>2, <1>4, <1>9, <2>3
  <2>4. CASE q \notin Clash(p, n, reads)
    <3>1. /\ ~reads
          /\ \A r \in Procs \ {p} :
               Active(r) /\ job[r].name = n => ~job[r].disturbed /\ job[r].at \notin Reading
      BY <1>7, <1>9, <2>1, <2>2, <2>4
    <3>2. Clash(p, n, reads) = {} BY <3>1 DEF Clash, Others
    <3>3. at = "mkdir" BY <3>1
    <3> QED BY <1>2, <1>4, <1>9, <2>1, <2>2, <3>1, <3>2, <3>3 DEF Reading, Owning
  <2> QED BY <2>3, <2>4
<1>10. ASSUME NEW q \in Procs, NEW r \in Procs, q # p, r # p, q # r PROVE Meet(job'[q], job'[r])
  <2>1. Meet(job[q], job[r]) BY <1>6, <1>10
  <2>2. SUFFICES ASSUME job[q].at \in Writing \cup Reading, job[r].at \in Writing \cup Reading,
                        job[q].name = job[r].name
                 PROVE  /\ job'[q].disturbed => job'[r].disturbed
                        /\ job[q].at \in Reading \/ (job[q].at \in Owning /\ job[r].at \in Owning)
                             => job'[q].disturbed
    BY <1>4, <1>10 DEF Meet
  <2>3. Active(q) /\ Active(r) BY <2>2 DEF Active
  <2>4. q \in Clash(p, n, reads) => r \in Clash(p, n, reads)
    <3>1. SUFFICES ASSUME q \in Clash(p, n, reads), r \notin Clash(p, n, reads) PROVE FALSE OBVIOUS
    <3>2. job[q].name = n /\ job[r].name = n BY <1>8, <2>2, <3>1
    <3>3. ~reads /\ ~job[q].disturbed /\ job[q].at \notin Reading
      BY <1>7, <1>10, <2>3, <3>1, <3>2
    <3> QED BY <3>1, <3>3 DEF Clash
  <2>5. job[q].disturbed => job[r].disturbed BY <2>1, <2>2 DEF Meet
  <2>6. job[q].at \in Reading \/ (job[q].at \in Owning /\ job[r].at \in Owning) => job[q].disturbed
    BY <2>1, <2>2 DEF Meet
  <2> QED BY <1>4, <1>10, <2>4, <2>5, <2>6
<1>11. MeetOK'
  <2>1. ASSUME NEW q \in Procs, NEW r \in Procs, q # r PROVE Meet(job'[q], job'[r])
    BY <1>1, <1>9, <1>10, <2>1
  <2> QED BY <2>1 DEF MeetOK
<1>12. JobFits(j, dirs, zips)
  <2>1. OwnerFits(j, dirs, zips) BY <1>2 DEF OwnerFits, Owning
  <2>2. Unpacks(j, zips) BY <1>2 DEF Unpacks
  <2>3. ReaderFits(j, dirs, zips)
    <3>1. SUFFICES ASSUME reads, n \notin DOMAIN dirs PROVE ReaderFits(j, dirs, zips)
      BY <1>2 DEF ReaderFits, Reading
    <3>2. FilesOf(dirs, n) = NoItems BY <3>1 DEF FilesOf
    <3>3. PartOf(FilesOf(dirs, n), FilesOf(zips, n), todo)
      BY <3>1, <3>2, NothingIsAFunction DEF PartOf, NoItems
    <3> QED BY <1>2, <3>1, <3>3 DEF ReaderFits
  <2> QED BY <2>1, <2>2, <2>3 DEF JobFits
<1>13. ASSUME NEW q \in Procs, q # p PROVE JobFits(job'[q], dirs, zips)
  <2>1. JobFits(job[q], dirs, zips) BY DEF FilesOK
  <2>2. CASE q \notin Clash(p, n, reads) BY <1>4, <1>13, <2>1, <2>2
  <2>3. CASE q \in Clash(p, n, reads)
    <3>1. job'[q].disturbed BY <1>4, <1>13, <2>3
    <3>2. Unpacks(job'[q], zips) BY <1>4, <1>13, <2>1 DEF JobFits, Unpacks
    <3> QED BY <3>1, <3>2 DEF JobFits, OwnerFits, ReaderFits
  <2> QED BY <2>2, <2>3
<1>14. \A q \in Procs : JobFits(job'[q], dirs', zips') BY <1>1, <1>12, <1>13
<1> QED BY <1>5, <1>11, <1>14 DEF FilesOK

LEMMA StartWriteKeeps ==
  ASSUME FilesOK, NEW p \in Procs, NEW n, NEW items, IsItems(items), StartWrite(p, n, items)
  PROVE  FilesOK' /\ Begins(p, n, "mkdir", items, DOMAIN items, FALSE)
<1>1. Begins(p, n, "mkdir", items, DOMAIN items, FALSE) BY StartBegins DEF StartWrite
<1> QED BY <1>1, BeginsKeeps DEF StartWrite

LEMMA StartReadKeeps ==
  ASSUME FilesOK, NEW p \in Procs, NEW n, StartRead(p, n)
  PROVE  FilesOK' /\ Begins(p, n, "unzip", NoItems, DOMAIN FilesOf(zips, n), TRUE)
<1>1. Begins(p, n, "unzip", NoItems, DOMAIN FilesOf(zips, n), TRUE)
  BY StartBegins, NoItemsTyped DEF StartRead
<1> QED BY <1>1, BeginsKeeps DEF StartRead

(* Every step on the files. *)
LEMMA StepKeeps ==
  ASSUME FilesOK, NEW p \in Procs, Step(p)
  PROVE  FilesOK'
BY MkdirKeeps, MkdirFailsKeeps, WriteItemKeeps, ItemsWrittenKeeps, ZipStatKeeps, ZipAddKeeps,
   ZipDoneKeeps, RemoveDirKeeps, ExtractKeeps, OpenDirKeeps, ReadItemKeeps, CleanUpKeeps DEF Step

(***************************************************************************)
(* What a step makes of a job.                                             *)
(***************************************************************************)
Went(p) ==
  LET j == job'[p]
  IN /\ Takes(p, j)
     /\ \/ job[p].at \in Writing /\ j.at \in Writing \cup {"done"}
        \/ job[p].at \in Reading /\ j.at \in Reading \cup {"done"}
     /\ j.at # "done" \/ j.ok =>
          /\ j.name = job[p].name
          /\ j.disturbed = job[p].disturbed /\ j.leftover = job[p].leftover
          /\ job[p].at \in Writing => j.items = job[p].items
     /\ j.at = "zip" =>
          job[p].at = "zip" \/ (job[p].at = "stat" /\ job[p].name \notin DOMAIN zips)
     /\ zips' = zips \/ (job[p].at = "zip" /\ SameBut(job[p].name, zips, zips'))
     /\ j.at = "done" /\ j.ok => RemoveDir(p) \/ CleanUp(p)

LEMMA StepWent ==
  ASSUME FilesOK, NEW p \in Procs, Step(p)
  PROVE  Went(p)
<1>1. IsJob(job[p]) /\ IsFileSystem(zips) /\ job = [q \in Procs |-> job[q]]
  BY DEF FilesOK, FilesTyped
<1> DEFINE Same(j) == /\ Takes(p, j) /\ j.name = job[p].name /\ j.disturbed = job[p].disturbed
                      /\ j.leftover = job[p].leftover
<1>2. CASE Mkdir(p)
  <2>1. PICK t : job' = [job EXCEPT ![p].at = "items", ![p].taken = t] BY <1>2 DEF Mkdir
  <2>2. /\ Same(job'[p]) /\ job'[p].at = "items" /\ job'[p].items = job[p].items
    BY <1>1, <2>1 DEF IsJob, Takes
  <2> QED BY <1>2, <2>2 DEF Went, Mkdir, Writing
<1>3. CASE MkdirFails(p)
  <2>1. Takes(p, job'[p]) /\ job'[p].at = "done" /\ ~job'[p].ok BY <1>3, Fails DEF MkdirFails
  <2> QED BY <1>3, <2>1 DEF Went, MkdirFails, Writing
<1>4. CASE WriteItem(p)
  <2>1. CASE Fail(p)
    <3>1. Takes(p, job'[p]) /\ job'[p].at = "done" /\ ~job'[p].ok BY <2>1, Fails
    <3> QED BY <1>4, <3>1 DEF Went, WriteItem, Writing
  <2>2. CASE \E k : job' = Did(p, k)
    <3>1. PICK k : job' = [job EXCEPT ![p].todo = @ \ {k}] BY <2>2 DEF Did
    <3>2. Same(job'[p]) /\ job'[p].at = job[p].at /\ job'[p].items = job[p].items
      BY <1>1, <3>1 DEF IsJob, Takes
    <3> QED BY <1>4, <3>2 DEF Went, WriteItem, Writing
  <2> QED BY <1>4, <2>1, <2>2 DEF WriteItem
<1>5. CASE ItemsWritten(p)
  <2>1. Same(job'[p]) /\ job'[p].at = "stat" /\ job'[p].items = job[p].items
    BY <1>1, <1>5 DEF ItemsWritten, To, IsJob, Takes
  <2> QED BY <1>5, <2>1 DEF Went, ItemsWritten, Writing
<1>6. CASE ZipStat(p)
  <2>1. PICK at, todo : /\ job' = [job EXCEPT ![p].at = at, ![p].todo = todo]
                        /\ at = "rmdir" \/ (at = "zip" /\ job[p].name \notin DOMAIN zips)
    BY <1>6 DEF ZipStat, To
  <2>2. Same(job'[p]) /\ job'[p].at = at /\ job'[p].items = job[p].items
    BY <1>1, <2>1 DEF IsJob, Takes
  <2> QED BY <1>6, <2>1, <2>2 DEF Went, ZipStat, Writing
<1>7. CASE ZipAdd(p)
  <2>1. PICK k \in job[p].todo :
          IF k \in DOMAIN FilesOf(dirs, job[p].name)
          THEN zips' = Put(zips, job[p].name, k, dirs[job[p].name][k]) /\ job' = Did(p, k)
          ELSE zips' = zips /\ job' = To(p, "rmdir", {})
    BY <1>7 DEF ZipAdd
  <2>2. CASE job' = To(p, "rmdir", {}) /\ zips' = zips
    <3>1. Same(job'[p]) /\ job'[p].at = "rmdir" /\ job'[p].items = job[p].items
      BY <1>1, <2>2 DEF To, IsJob, Takes
    <3> QED BY <1>7, <2>2, <3>1 DEF Went, ZipAdd, Writing
  <2>3. CASE job' = Did(p, k) /\ zips' = Put(zips, job[p].name, k, dirs[job[p].name][k])
    <3>1. job' = [job EXCEPT ![p].todo = @ \ {k}] BY <2>3 DEF Did
    <3>2. Same(job'[p]) /\ job'[p].at = job[p].at /\ job'[p].items = job[p].items
      BY <1>1, <3>1 DEF IsJob, Takes
    <3>3. SameBut(job[p].name, zips, zips') BY <2>3 DEF SameBut, Put, With
    <3> QED BY <1>7, <3>2, <3>3 DEF Went, ZipAdd, Writing
  <2> QED BY <2>1, <2>2, <2>3
<1>8. CASE ZipDone(p)
  <2>1. Same(job'[p]) /\ job'[p].at = "rmdir" /\ job'[p].items = job[p].items
    BY <1>1, <1>8 DEF ZipDone, To, IsJob, Takes
  <2> QED BY <1>8, <2>1 DEF Went, ZipDone, Writing
<1>9. CASE RemoveDir(p)
  <2>1. Same(job'[p]) /\ job'[p].at = "done" /\ job'[p].items = job[p].items
    BY <1>9, Succeeds DEF RemoveDir
  <2> QED BY <1>9, <2>1 DEF Went, RemoveDir, Writing
<1>10. CASE Extract(p)
  <2>1. PICK k : job' = [job EXCEPT ![p].todo = @ \ {k}] BY <1>10 DEF Extract, Did
  <2>2. Same(job'[p]) /\ job'[p].at = job[p].at BY <1>1, <2>1 DEF IsJob, Takes
  <2> QED BY <1>10, <2>2 DEF Went, Extract, Reading, Writing
<1>11. CASE OpenDir(p)
  <2>1. CASE Fail(p)
    <3>1. Takes(p, job'[p]) /\ job'[p].at = "done" /\ ~job'[p].ok BY <2>1, Fails
    <3> QED BY <1>11, <3>1 DEF Went, OpenDir, Reading
  <2>2. CASE \E todo : job' = To(p, "readdir", todo)
    <3>1. PICK todo : job' = [job EXCEPT ![p].at = "readdir", ![p].todo = todo] BY <2>2 DEF To
    <3>2. Same(job'[p]) /\ job'[p].at = "readdir" BY <1>1, <3>1 DEF IsJob, Takes
    <3> QED BY <1>11, <3>2 DEF Went, OpenDir, Reading, Writing
  <2> QED BY <1>11, <2>1, <2>2 DEF OpenDir
<1>12. CASE ReadItem(p)
  <2>1. PICK k, items : job' = [Did(p, k) EXCEPT ![p].items = items]
    <3>1. PICK k, part : job' = [Did(p, k) EXCEPT ![p].items =
                                   IF part = NoCounts THEN @ ELSE With(@, k, part)]
      BY <1>12 DEF ReadItem
    <3>2. PICK did : did = Did(p, k) OBVIOUS
    <3>3. job' = [did EXCEPT ![p].items =
                    IF part = NoCounts THEN did[p].items ELSE With(did[p].items, k, part)]
      BY <3>1, <3>2
    <3> QED BY <3>2, <3>3
  <2>2. PICK did : did = [job EXCEPT ![p].todo = @ \ {k}] OBVIOUS
  <2>3. /\ did = [q \in Procs |-> did[q]]
        /\ \A q \in Procs \ {p} : did[q] = job[q]
        /\ did[p].at = job[p].at /\ did[p].name = job[p].name
        /\ did[p].disturbed = job[p].disturbed /\ did[p].leftover = job[p].leftover
        /\ did[p] \in [at : Places, name : {job[p].name}, items : {job[p].items},
                       todo : {did[p].todo}, ok : BOOLEAN,
                       disturbed : BOOLEAN, taken : BOOLEAN, leftover : BOOLEAN]
    BY <1>1, <2>2 DEF IsJob
  <2>4. job' = [did EXCEPT ![p].items = items] BY <2>1, <2>2 DEF Did
  <2>5. Same(job'[p]) /\ job'[p].at = job[p].at BY <2>3, <2>4 DEF Takes
  <2> QED BY <1>12, <2>5 DEF Went, ReadItem, Reading, Writing
<1>13. CASE CleanUp(p)
  <2>1. Same(job'[p]) /\ job'[p].at = "done" /\ job'[p].items = job[p].items
    BY <1>13, Succeeds DEF CleanUp
  <2> QED BY <1>13, <2>1 DEF Went, CleanUp, Reading, Writing
<1> QED BY <1>2, <1>3, <1>4, <1>5, <1>6, <1>7, <1>8, <1>9, <1>10, <1>11, <1>12, <1>13 DEF Step

(***************************************************************************)
(* An archive that nothing will be added to any more.                      *)
(***************************************************************************)
Frozen(n) == n \in DOMAIN zips /\ \A q \in Procs : job[q].at = "zip" => job[q].name # n

Steady == \A n : Frozen(n) => Frozen(n)' /\ zips'[n] = zips[n]

LEMMA StepSteady ==
  ASSUME NEW p \in Procs, Went(p)
  PROVE  Steady
<1>1. SUFFICES ASSUME NEW n, Frozen(n) PROVE Frozen(n)' /\ zips'[n] = zips[n] BY DEF Steady
<1>2. n \in DOMAIN zips' /\ zips'[n] = zips[n] BY <1>1 DEF Frozen, Went, SameBut
<1>3. ASSUME NEW q \in Procs, job'[q].at = "zip" PROVE job'[q].name # n
  BY <1>1, <1>3 DEF Frozen, Went, Takes
<1> QED BY <1>2, <1>3 DEF Frozen

LEMMA OthersSteady ==
  ASSUME zips' = zips,
         \A q \in Procs : job'[q].at = "zip" => job[q].at = "zip" /\ job'[q].name = job[q].name
  PROVE  Steady
<1>1. SUFFICES ASSUME NEW n, Frozen(n) PROVE Frozen(n)' /\ zips'[n] = zips[n] BY DEF Steady
<1> QED BY <1>1 DEF Frozen

(* What was saved is in the archive, for good. *)
LEMMA RemoveDirResult ==
  ASSUME FilesOK, NEW p \in Procs, RemoveDir(p), ~job'[p].disturbed, ~job'[p].taken,
         NEW n, n = job[p].name
  PROVE  /\ job'[p].name = n /\ Frozen(n)'
         /\ n \in DOMAIN zips' /\ zips'[n] = With(job'[p].items, Info, NoCounts)
<1>1. /\ Takes(p, job'[p]) /\ job'[p].at = "done"
      /\ job'[p].name = job[p].name /\ job'[p].items = job[p].items
      /\ ~job[p].disturbed /\ ~job[p].taken
  BY Succeeds DEF RemoveDir
<1>2. job[p].at = "rmdir" /\ zips' = zips BY DEF RemoveDir
<1>3. job[p].name \in DOMAIN zips /\ zips[job[p].name] = With(job[p].items, Info, NoCounts)
  BY <1>1, <1>2 DEF FilesOK, JobFits, OwnerFits, Owning
<1>4. ASSUME NEW q \in Procs, job'[q].at = "zip" PROVE job'[q].name # n
  <2>1. q # p /\ job'[q] = job[q] BY <1>1, <1>4 DEF Takes
  <2>2. Meet(job[p], job[q]) BY <2>1 DEF FilesOK, MeetOK
  <2> QED BY <1>1, <1>2, <1>4, <2>1, <2>2 DEF Meet, Owning, Writing
<1> QED BY <1>1, <1>2, <1>3, <1>4 DEF Frozen

(* What was read is what is in the archive, for good. *)
LEMMA CleanUpResult ==
  ASSUME FilesOK, NEW p \in Procs, CleanUp(p), ~job'[p].disturbed, ~job'[p].leftover,
         NEW n, n = job[p].name
  PROVE  /\ job'[p].name = n /\ Frozen(n)'
         /\ n \in DOMAIN zips' /\ HasRead(job'[p].items, zips'[n], {})
<1>1. /\ Takes(p, job'[p]) /\ job'[p].at = "done"
      /\ job'[p].name = n /\ job'[p].items = job[p].items
      /\ ~job[p].disturbed /\ ~job[p].leftover
  BY Succeeds DEF CleanUp
<1>2. job[p].at = "readdir" /\ job[p].todo = {} /\ zips' = zips BY DEF CleanUp
<1>3. /\ n \in DOMAIN dirs /\ DOMAIN dirs[n] # {} /\ PartOf(dirs[n], FilesOf(zips, n), {})
      /\ HasRead(job[p].items, FilesOf(zips, n), {})
  BY <1>1, <1>2 DEF FilesOK, JobFits, ReaderFits, Reading
<1>4. n \in DOMAIN zips /\ FilesOf(zips, n) = zips[n]
  BY <1>3, NothingIsAFunction DEF PartOf, FilesOf, NoItems
<1>5. ASSUME NEW q \in Procs, job'[q].at = "zip" PROVE job'[q].name # n
  <2>1. q # p /\ job'[q] = job[q] BY <1>1, <1>5 DEF Takes
  <2>2. Meet(job[p], job[q]) BY <2>1 DEF FilesOK, MeetOK
  <2> QED BY <1>1, <1>2, <1>5, <2>1, <2>2 DEF Meet, Reading, Writing
<1> QED BY <1>1, <1>2, <1>3, <1>4, <1>5 DEF Frozen

(***************************************************************************)
(* The web server and the tool.                                            *)
(***************************************************************************)
IsElement(el) ==
  /\ el \in [name : {el.name}, sname : {el.sname}, items : {el.items}]
  /\ IsItems(el.items)

IsList(list) ==
  /\ Len(list) \in Nat
  /\ list = [i \in 1 .. Len(list) |-> list[i]]
  /\ \A i \in 1 .. Len(list) : IsElement(list[i])

(* Each request, and each command of the tool, has a job that does it.     *)
Serves ==
  /\ request.op \in {"none", "open", "close"}
  /\ request.op = "none" => job[Server].at = "idle"
  /\ request.op = "open" => job[Server].at \in Reading \cup {"done"}
  /\ request.op = "close" =>
       /\ job[Server].at \in Writing \cup {"freed", "done"}
       /\ request.el \in 1 .. Len(open_snapshots)
       /\ job[Server].at \in Writing \/ job[Server].ok =>
            /\ open_snapshots[request.el].sname = job[Server].name
            /\ open_snapshots[request.el].items = job[Server].items

Works ==
  /\ tool \in [op : {"none", "record", "compare", "compare_b"}, a : {tool.a}, b : {tool.b},
               first : {tool.first}, clean : BOOLEAN]
  /\ tool.op = "none" => job[Tool].at = "idle"
  /\ tool.op = "record" => job[Tool].at \in Writing \cup {"done"}
  /\ tool.op \in {"compare", "compare_b"} =>
       /\ job[Tool].at \in Reading \cup {"done"}
       /\ job[Tool].at \in Reading \/ job[Tool].ok =>
            job[Tool].name = IF tool.op = "compare" THEN tool.a ELSE tool.b

(* A job that is done left its items in the archive, or has what is there, *)
(* and nothing will be added to that archive any more.                     *)
Kept(items, n) == Frozen(n) /\ Saved(n, items)
Known(items, n) == Frozen(n) /\ HasRead(items, zips[n], {})

DoneOK(p) ==
  Returns(p) =>
    /\ Wrote(p) /\ ~job[p].taken => Kept(job[p].items, job[p].name)
    /\ Reads(p) /\ ~job[p].leftover => Known(job[p].items, job[p].name)

ComparesOK == tool.op = "compare_b" /\ tool.clean => Known(tool.first, tool.a)

SnapshotsOK ==
  /\ FilesOK /\ IsList(open_snapshots) /\ Serves /\ Works
  /\ \A p \in Procs : DoneOK(p)
  /\ ComparesOK

(***************************************************************************)
(* Lists of elements.                                                      *)
(***************************************************************************)
LEMMA ListIsSeq ==
  ASSUME NEW list, IsList(list)
  PROVE  /\ list \in Seq({list[i] : i \in 1 .. Len(list)})
         /\ DOMAIN list = 1 .. Len(list)
<1>1. list \in [1 .. Len(list) -> {list[i] : i \in 1 .. Len(list)}] BY DEF IsList
<1> QED BY <1>1 DEF IsList

LEMMA AppendedToList ==
  ASSUME NEW list, IsList(list), NEW el, IsElement(el)
  PROVE  IsList(Append(list, el))
<1> DEFINE S == {list[i] : i \in 1 .. Len(list)} \cup {el}
           longer == Append(list, el)
<1>1. list \in Seq(S)
  <2>1. list \in [1 .. Len(list) -> S] BY DEF IsList
  <2> QED BY <2>1 DEF IsList
<1>2. /\ Len(longer) = Len(list) + 1 /\ longer \in Seq(S)
      /\ \A i \in 1 .. Len(longer) : longer[i] = IF i = Len(list) + 1 THEN el ELSE list[i]
  BY <1>1, AppendProperties
<1> HIDE DEF longer
<1>3. Len(longer) \in Nat /\ longer \in [1 .. Len(longer) -> S] BY <1>2, LenProperties
<1>4. \A i \in 1 .. Len(longer) : IsElement(longer[i]) BY <1>2 DEF IsList
<1>5. longer = [i \in 1 .. Len(longer) |-> longer[i]] BY <1>3
<1> QED BY <1>3, <1>4, <1>5 DEF IsList, longer

LEMMA RemovedFromList ==
  ASSUME NEW list, IsList(list), NEW i \in 1 .. Len(list)
  PROVE  /\ IsList(RemoveAt(list, i))
         /\ Len(RemoveAt(list, i)) = Len(list) - 1
         /\ \A j \in 1 .. Len(list) - 1 :
              RemoveAt(list, i)[j] = IF j < i THEN list[j] ELSE list[j + 1]
<1> DEFINE S == {list[j] : j \in 1 .. Len(list)}
           front == SubSeq(list, 1, i - 1)
           back == SubSeq(list, i + 1, Len(list))
           rest == RemoveAt(list, i)
<1>1. Len(list) \in Nat /\ \A j \in 1 .. Len(list) : list[j] \in S BY DEF IsList
<1> HIDE DEF S
<1>2. /\ front \in Seq(S) /\ Len(front) = i - 1
      /\ \A j \in 1 .. i - 1 : front[j] = list[j]
  <2>1. \A j \in 1 .. i - 1 : list[j] \in S BY <1>1
  <2>2. /\ front \in Seq(S) /\ Len(front) = IF 1 <= i - 1 THEN i - 1 - 1 + 1 ELSE 0
        /\ \A j \in 1 .. i - 1 - 1 + 1 : front[j] = list[1 + j - 1]
    BY <1>1, <2>1, SubSeqProperties
  <2> HIDE DEF front
  <2> QED BY <1>1, <2>2
<1>3. /\ back \in Seq(S) /\ Len(back) = Len(list) - i
      /\ \A j \in 1 .. Len(list) - i : back[j] = list[i + j]
  <2>1. \A j \in i + 1 .. Len(list) : list[j] \in S BY <1>1
  <2>2. /\ back \in Seq(S)
        /\ Len(back) = IF i + 1 <= Len(list) THEN Len(list) - (i + 1) + 1 ELSE 0
        /\ \A j \in 1 .. Len(list) - (i + 1) + 1 : back[j] = list[i + 1 + j - 1]
    BY <1>1, <2>1, SubSeqProperties
  <2> HIDE DEF back
  <2> QED BY <1>1, <2>2
<1>4. rest = front \o back BY DEF RemoveAt
<1> HIDE DEF front, back, rest
<1>5. /\ rest \in Seq(S) /\ Len(rest) = Len(list) - 1
      /\ \A j \in 1 .. Len(list) - 1 : rest[j] = IF j <= i - 1 THEN front[j] ELSE back[j - (i - 1)]
  <2>1. /\ front \o back \in Seq(S) /\ Len(front \o back) = Len(front) + Len(back)
        /\ \A j \in 1 .. Len(front) + Len(back) :
             (front \o back)[j] = IF j <= Len(front) THEN front[j] ELSE back[j - Len(front)]
    BY <1>2, <1>3, ConcatProperties
  <2>2. Len(front) + Len(back) = Len(list) - 1 BY <1>1, <1>2, <1>3
  <2> QED BY <1>2, <1>4, <2>1, <2>2
<1>6. \A j \in 1 .. Len(list) - 1 : rest[j] = IF j < i THEN list[j] ELSE list[j + 1]
  BY <1>1, <1>2, <1>3, <1>5
<1>7. Len(rest) \in Nat /\ rest \in [1 .. Len(rest) -> S] BY <1>5, LenProperties
<1>8. \A j \in 1 .. Len(rest) : IsElement(rest[j]) BY <1>1, <1>5, <1>6 DEF IsList
<1>9. rest = [j \in 1 .. Len(rest) |-> rest[j]] BY <1>7
<1>10. IsList(rest) BY <1>7, <1>8, <1>9 DEF IsList
<1> QED BY <1>5, <1>6, <1>10 DEF rest

LEMMA AppendedTyped ==
  ASSUME NEW items, IsItems(items), NEW k \in Keys, NEW v
  PROVE  IsItems(Appended(items, k, v))
<1>1. PICK base : base = ItemAppended(items, k) OBVIOUS
<1>2. /\ base = [x \in DOMAIN base |-> base[x]] /\ DOMAIN base = DOMAIN items \cup {k}
      /\ \A x \in DOMAIN items : base[x] = items[x]
      /\ k \notin DOMAIN items => base[k] = NoCounts
  BY <1>1 DEF ItemAppended, With, IsItems
<1>3. PICK counts : counts = base[k] OBVIOUS
<1>4. IsCounts(counts) \/ counts = NoCounts BY <1>2, <1>3 DEF IsItems
<1>5. PICK more : more = Counted(counts, v) OBVIOUS
<1>6. \A x \in DOMAIN counts : counts[x] \in Nat \ {0}
  BY <1>4, NothingIsAFunction DEF IsCounts, NoCounts
<1>7. IsCounts(more)
  <2>1. more = With(counts, v, 1 + IF v \in DOMAIN counts THEN counts[v] ELSE 0) BY <1>5 DEF Counted
  <2>2. 1 + (IF v \in DOMAIN counts THEN counts[v] ELSE 0) \in Nat \ {0} BY <1>6
  <2>3. PICK c : c = 1 + (IF v \in DOMAIN counts THEN counts[v] ELSE 0) OBVIOUS
  <2> QED BY <1>6, <2>1, <2>2, <2>3 DEF IsCounts, With
<1>8. PICK result : result = Appended(items, k, v) OBVIOUS
<1>9. result = [base EXCEPT ![k] = more] BY <1>1, <1>3, <1>5, <1>8 DEF Appended
<1>10. /\ result = [x \in DOMAIN result |-> result[x]] /\ DOMAIN result = DOMAIN base
       /\ result[k] = more /\ \A x \in DOMAIN base : x # k => result[x] = base[x]
  BY <1>2, <1>9
<1>11. IsItems(result) BY <1>2, <1>7, <1>10 DEF IsItems
<1> QED BY <1>8, <1>11

(* Only the element that is removed occurs less often. *)
LEMMA OccursAfterRemoval ==
  ASSUME NEW list, IsList(list), NEW i \in 1 .. Len(list), NEW el, el # list[i]
  PROVE  ~(Occurs(el, RemoveAt(list, i)) < Occurs(el, list))
<1> DEFINE rest == RemoveAt(list, i)
           Old == {j \in DOMAIN list : list[j] = el}
           New == {j \in DOMAIN rest : rest[j] = el}
           f == [j \in Old |-> IF j < i THEN j ELSE j - 1]
<1>1. /\ IsList(rest) /\ Len(rest) = Len(list) - 1
      /\ \A j \in 1 .. Len(list) - 1 : rest[j] = IF j < i THEN list[j] ELSE list[j + 1]
  BY RemovedFromList
<1> HIDE DEF rest
<1>2. Len(list) \in Nat /\ DOMAIN list = 1 .. Len(list) /\ DOMAIN rest = 1 .. Len(list) - 1
  BY <1>1, ListIsSeq DEF IsList
<1>3. ASSUME NEW j \in Old PROVE f[j] \in New
  <2>1. j \in 1 .. Len(list) /\ list[j] = el /\ j # i BY <1>2
  <2>2. CASE j < i
    <3>1. f[j] = j /\ j \in 1 .. Len(list) - 1 BY <1>2, <2>1, <2>2
    <3> QED BY <1>1, <1>2, <2>1, <2>2, <3>1
  <2>3. CASE ~(j < i)
    <3>1. f[j] = j - 1 /\ j - 1 \in 1 .. Len(list) - 1 /\ ~(j - 1 < i) /\ (j - 1) + 1 = j
      BY <1>2, <2>1, <2>3
    <3>2. rest[j - 1] = list[j] BY <1>1, <3>1
    <3> QED BY <1>2, <2>1, <3>1, <3>2
  <2> QED BY <2>2, <2>3
<1>4. ASSUME NEW j \in Old, NEW k \in Old, f[j] = f[k] PROVE j = k
  <2>1. j \in 1 .. Len(list) /\ k \in 1 .. Len(list) /\ j # i /\ k # i BY <1>2
  <2>2. f[j] = (IF j < i THEN j ELSE j - 1) /\ f[k] = (IF k < i THEN k ELSE k - 1) OBVIOUS
  <2> QED BY <1>2, <1>4, <2>1, <2>2
<1>5. f \in Injection(Old, New)
  <2>1. f \in [Old -> New] BY <1>3
  <2> QED BY <1>4, <2>1 DEF Injection, IsInjective
<1>6. IsFiniteSet(New) /\ IsFiniteSet(Old)
  <2>1. IsFiniteSet(1 .. Len(list)) /\ IsFiniteSet(1 .. Len(list) - 1) BY <1>2, FS_Interval
  <2>2. New \subseteq 1 .. Len(list) - 1 /\ Old \subseteq 1 .. Len(list) BY <1>2
  <2> QED BY <2>1, <2>2, FS_Subset
<1>7. Cardinality(Old) <= Cardinality(New) BY <1>5, <1>6, FS_Injection
<1>8. Cardinality(Old) \in Nat /\ Cardinality(New) \in Nat BY <1>6, FS_CardinalityType
<1> QED BY <1>7, <1>8 DEF Occurs, rest

(***************************************************************************)
(* Who is not concerned by a step.                                         *)
(***************************************************************************)
LEMMA TwoProcesses == Server \in Procs /\ Tool \in Procs /\ Server # Tool /\ Procs = {Server, Tool}
BY ProcessesAreTwo

(* Every other job is where it was; only one that goes on may be disturbed.*)
Beside(p) ==
  \A q \in Procs \ {p} :
    /\ job'[q].at = job[q].at /\ job'[q].name = job[q].name
    /\ job'[q].items = job[q].items /\ job'[q].ok = job[q].ok
    /\ job[q].at = "done" => job'[q] = job[q]

LEMMA TakesBeside ==
  ASSUME NEW p \in Procs, NEW j, Takes(p, j)
  PROVE  Beside(p)
BY DEF Takes, Beside

LEMMA BeginsBeside ==
  ASSUME FilesOK, NEW p \in Procs, NEW n, NEW at, NEW items, NEW todo, NEW reads,
         Begins(p, n, at, items, todo, reads), at # "zip", zips' = zips
  PROVE  Beside(p) /\ Steady
<1>1. ASSUME NEW q \in Procs \ {p}
      PROVE  /\ job'[q].at = job[q].at /\ job'[q].name = job[q].name
             /\ job'[q].items = job[q].items /\ job'[q].ok = job[q].ok
             /\ job[q].at = "done" => job'[q] = job[q]
  <2>1. IsJob(job[q]) BY DEF FilesOK, FilesTyped
  <2>2. CASE q \in Clash(p, n, reads)
    <3>1. job'[q] = [job[q] EXCEPT !.disturbed = TRUE] BY <2>2 DEF Begins
    <3>2. job[q].at # "done" BY <2>2 DEF Clash, Others, Active, Writing, Reading
    <3> QED BY <2>1, <3>1, <3>2, MarkedTyped
  <2>3. CASE q \notin Clash(p, n, reads) BY <2>3 DEF Begins
  <2> QED BY <2>2, <2>3
<1>2. \A q \in Procs : job'[q].at = "zip" => job[q].at = "zip" /\ job'[q].name = job[q].name
  BY <1>1 DEF Begins
<1> QED BY <1>1, <1>2, OthersSteady DEF Beside

LEMMA TakesSteady ==
  ASSUME NEW p \in Procs, NEW j, Takes(p, j), j.at # "zip", zips' = zips
  PROVE  Steady
BY OthersSteady DEF Takes

LEMMA KnownStays ==
  ASSUME Steady, NEW items, NEW n
  PROVE  Known(items, n) => Known(items, n)'
BY DEF Steady, Known, Frozen

LEMMA KeptStays ==
  ASSUME Steady, NEW items, NEW n
  PROVE  Kept(items, n) => Kept(items, n)'
BY DEF Steady, Kept, Frozen, Saved

LEMMA DoneStays ==
  ASSUME NEW p \in Procs, DoneOK(p), Steady, job[p].at = "done" => job'[p] = job[p],
         job'[p].at = job[p].at, Wrote(p)' => Wrote(p), Reads(p)' => Reads(p)
  PROVE  DoneOK(p)'
<1>1. SUFFICES ASSUME job[p].at = "done", job'[p] = job[p], Returns(p)
               PROVE  DoneOK(p)'
  BY DEF DoneOK, Returns
<1>2. PICK j : j = job[p] OBVIOUS
<1>3. /\ Wrote(p) /\ ~j.taken => Kept(j.items, j.name)
      /\ Reads(p) /\ ~j.leftover => Known(j.items, j.name)
  BY <1>1, <1>2 DEF DoneOK
<1>4. /\ Kept(j.items, j.name) => Kept(j.items, j.name)'
      /\ Known(j.items, j.name) => Known(j.items, j.name)'
  BY KeptStays, KnownStays
<1>5. /\ Wrote(p)' /\ ~j.taken => Kept(j.items, j.name)'
      /\ Reads(p)' /\ ~j.leftover => Known(j.items, j.name)'
  BY <1>3, <1>4
<1>6. job'[p] = j BY <1>1, <1>2
<1> QED BY <1>5, <1>6 DEF DoneOK

LEMMA NotDone ==
  ASSUME NEW p \in Procs, job'[p].at # "done" \/ ~job'[p].ok
  PROVE  DoneOK(p)'
BY DEF DoneOK, Returns

LEMMA ComparesStays ==
  ASSUME ComparesOK, Steady, tool' = tool
  PROVE  ComparesOK'
<1>1. PICK items, n : items = tool.first /\ n = tool.a OBVIOUS
<1>2. Known(items, n) => Known(items, n)' BY KnownStays
<1> QED BY <1>1, <1>2 DEF ComparesOK

(* A step of the server, seen by the tool, and the other way round. *)
LEMMA ToolUnconcerned ==
  ASSUME SnapshotsOK, Beside(Server), Steady, tool' = tool
  PROVE  Works' /\ ComparesOK' /\ DoneOK(Tool)'
<1>1. /\ job'[Tool].at = job[Tool].at /\ job'[Tool].name = job[Tool].name
      /\ job'[Tool].ok = job[Tool].ok
      /\ job[Tool].at = "done" => job'[Tool] = job[Tool]
  BY TwoProcesses DEF Beside
<1>2. Works /\ ComparesOK /\ DoneOK(Tool) BY TwoProcesses DEF SnapshotsOK
<1>3. Works' BY <1>1, <1>2 DEF Works
<1>4. ComparesOK' BY <1>2, ComparesStays
<1>5. DoneOK(Tool)'
  <2>1. (Wrote(Tool)' => Wrote(Tool)) /\ (Reads(Tool)' => Reads(Tool))
    BY TwoProcesses DEF Wrote, Reads
  <2>2. job'[Tool].at = job[Tool].at /\ (job[Tool].at = "done" => job'[Tool] = job[Tool]) BY <1>1
  <2> QED BY <1>2, <2>1, <2>2, DoneStays, TwoProcesses
<1> QED BY <1>3, <1>4, <1>5

LEMMA ServerUnconcerned ==
  ASSUME SnapshotsOK, Beside(Tool), Steady, UNCHANGED <<request, open_snapshots>>
  PROVE  IsList(open_snapshots') /\ Serves' /\ DoneOK(Server)'
<1>1. /\ job'[Server].at = job[Server].at /\ job'[Server].name = job[Server].name
      /\ job'[Server].items = job[Server].items
      /\ job'[Server].ok = job[Server].ok
      /\ job[Server].at = "done" => job'[Server] = job[Server]
  BY TwoProcesses DEF Beside
<1>2. IsList(open_snapshots) /\ Serves /\ DoneOK(Server) BY TwoProcesses DEF SnapshotsOK
<1>3. request' = request /\ open_snapshots' = open_snapshots OBVIOUS
<1>4. Serves' BY <1>1, <1>2, <1>3 DEF Serves
<1>5. DoneOK(Server)'
  <2>1. (Wrote(Server)' => Wrote(Server)) /\ (Reads(Server)' => Reads(Server))
    BY <1>3, TwoProcesses DEF Wrote, Reads
  <2>2. job'[Server].at = job[Server].at /\ (job[Server].at = "done" => job'[Server] = job[Server]) BY <1>1
  <2> QED BY <1>2, <2>1, <2>2, DoneStays, TwoProcesses
<1> QED BY <1>2, <1>3, <1>4, <1>5

LEMMA AllTogether ==
  ASSUME FilesOK', IsList(open_snapshots'), Serves', Works', DoneOK(Server)', DoneOK(Tool)', ComparesOK'
  PROVE  SnapshotsOK'
BY TwoProcesses DEF SnapshotsOK

LEMMA FilesUnchanged ==
  ASSUME FilesOK, UNCHANGED fileVars
  PROVE  FilesOK' /\ Steady /\ Beside(Server) /\ Beside(Tool)
<1>1. dirs' = dirs /\ zips' = zips /\ job' = job BY DEF fileVars
<1>2. FilesOK' BY <1>1 DEF FilesOK, FilesTyped, MeetOK
<1>3. Steady BY <1>1, OthersSteady
<1> QED BY <1>1, <1>2, <1>3 DEF Beside

(***************************************************************************)
(* The initial states.                                                     *)
(***************************************************************************)
LEMMA InitOK ==
  ASSUME Init
  PROVE  SnapshotsOK
<1>1. \A p \in Procs : job[p] = Idle BY DEF Init
<1>2. IsJob(Idle) BY NoItemsTyped DEF IsJob, Idle, Places
<1>3. IsFileSystem(dirs)
  <2>1. dirs = [n \in {EmptyName} |-> NoItems] BY DEF Init
  <2> QED BY <2>1, NoItemsTyped DEF IsFileSystem
<1>4. IsFileSystem(zips) BY RecordedAreArchives DEF Init, IsFileSystem
<1>5. FilesTyped
  <2>1. job = [p \in Procs |-> job[p]] BY DEF Init
  <2> QED BY <1>1, <1>2, <1>3, <1>4, <2>1 DEF FilesTyped
<1>6. \A p \in Procs : job[p].at = "idle"
  <2>1. Idle.at = "idle" BY DEF Idle
  <2> QED BY <1>1, <2>1
<1>7. MeetOK BY <1>6 DEF MeetOK, Meet, Writing, Reading
<1>8. \A p \in Procs : JobFits(job[p], dirs, zips)
  BY <1>6 DEF JobFits, OwnerFits, ReaderFits, Unpacks, Owning, Reading
<1>9. FilesOK BY <1>5, <1>7, <1>8 DEF FilesOK
<1>10. IsList(open_snapshots)
  <2>1. open_snapshots = <<>> BY DEF Init
  <2>2. Len(<<>>) = 0 /\ <<>> = [i \in 1 .. 0 |-> <<>>[i]] OBVIOUS
  <2> QED BY <2>1, <2>2 DEF IsList
<1>11. Serves
  <2>1. request.op = "none" BY DEF Init, NoRequest
  <2> QED BY <1>6, <2>1, TwoProcesses DEF Serves
<1>12. tool.op = "none" /\ Works
  <2>1. tool = NoTool BY DEF Init
  <2>2. NoTool.op = "none" /\ NoTool \in [op : {"none", "record", "compare", "compare_b"},
               a : {NoTool.a}, b : {NoTool.b}, first : {NoTool.first}, clean : BOOLEAN]
    BY DEF NoTool
  <2> QED BY <1>6, <2>1, <2>2, TwoProcesses DEF Works
<1>13. \A p \in Procs : DoneOK(p) BY <1>6 DEF DoneOK, Returns
<1>14. ComparesOK BY <1>12 DEF ComparesOK
<1> QED BY <1>9, <1>10, <1>11, <1>12, <1>13, <1>14 DEF SnapshotsOK

(***************************************************************************)
(* The steps on the files.                                                 *)
(***************************************************************************)

LEMMA StepDone ==
  ASSUME SnapshotsOK, NEW p \in Procs, Step(p), request' = request, tool' = tool
  PROVE  DoneOK(p)'
<1>1. FilesOK /\ Serves /\ Works BY DEF SnapshotsOK
<1>2. Went(p) BY <1>1, StepWent
<1>3. PICK j : j = job'[p] OBVIOUS
<1>4. SUFFICES ASSUME j.at = "done", j.ok, ~j.disturbed
               PROVE  /\ Wrote(p) /\ ~j.taken => Kept(j.items, j.name)'
                      /\ Reads(p) /\ ~j.leftover => Known(j.items, j.name)'
  <2>1. Returns(p)' => j.at = "done" /\ j.ok /\ ~j.disturbed BY <1>3 DEF Returns
  <2>2. (Wrote(p)' => Wrote(p)) /\ (Reads(p)' => Reads(p)) BY DEF Wrote, Reads
  <2>3. SUFFICES ASSUME Returns(p)'
                 PROVE  /\ Wrote(p)' /\ ~job'[p].taken => Kept(job[p].items, job[p].name)'
                        /\ Reads(p)' /\ ~job'[p].leftover => Known(job[p].items, job[p].name)'
    BY DEF DoneOK
  <2> QED BY <1>3, <2>1, <2>2, <2>3
<1>5. PICK n : n = job[p].name OBVIOUS
<1>6. CASE RemoveDir(p)
  <2>1. job[p].at = "rmdir" BY <1>6 DEF RemoveDir
  <2>2. ~Reads(p)
    BY <1>1, <2>1, TwoProcesses DEF Reads, Serves, Works, Reading
  <2>3. ~j.taken => Kept(j.items, j.name)'
    <3>1. ~j.taken => /\ j.name = n /\ Frozen(n)'
                      /\ n \in DOMAIN zips' /\ zips'[n] = With(j.items, Info, NoCounts)
      BY <1>1, <1>3, <1>4, <1>5, <1>6, RemoveDirResult
    <3> QED BY <3>1 DEF Kept, Saved
  <2> QED BY <2>2, <2>3
<1>7. CASE CleanUp(p)
  <2>1. job[p].at = "readdir" BY <1>7 DEF CleanUp
  <2>2. ~Wrote(p)
    BY <1>1, <2>1, TwoProcesses DEF Wrote, Serves, Works, Writing
  <2>3. ~j.leftover => Known(j.items, j.name)'
    <3>1. ~j.leftover => /\ j.name = n /\ Frozen(n)'
                         /\ n \in DOMAIN zips' /\ HasRead(j.items, zips'[n], {})
      BY <1>1, <1>3, <1>4, <1>5, <1>7, CleanUpResult
    <3> QED BY <3>1 DEF Known, HasRead, Read
  <2> QED BY <2>2, <2>3
<1> QED BY <1>2, <1>3, <1>4, <1>6, <1>7 DEF Went

LEMMA StepNext ==
  ASSUME SnapshotsOK, NEW p \in Procs, FileStep(p)
  PROVE  SnapshotsOK'
<1>1. FilesOK /\ IsList(open_snapshots) /\ Serves /\ Works BY DEF SnapshotsOK
<1>2. /\ Step(p) /\ open_snapshots' = open_snapshots
      /\ request' = request /\ tool' = tool
  BY DEF FileStep
<1>3. FilesOK' /\ Went(p) BY <1>1, <1>2, StepKeeps, StepWent
<1>4. Steady BY <1>3, StepSteady
<1>5. Beside(p) BY <1>3, TakesBeside DEF Went
<1>6. DoneOK(p)' BY <1>2, StepDone
<1>7. PICK j : j = job'[p] OBVIOUS
<1>8. /\ \/ job[p].at \in Writing /\ j.at \in Writing \cup {"done"}
         \/ job[p].at \in Reading /\ j.at \in Reading \cup {"done"}
      /\ j.at # "done" \/ j.ok =>
           j.name = job[p].name /\ (job[p].at \in Writing => j.items = job[p].items)
  BY <1>3, <1>7 DEF Went
<1>9. CASE p = Server
  <2>1. Works' /\ ComparesOK' /\ DoneOK(Tool)' BY <1>2, <1>4, <1>5, <1>9, ToolUnconcerned
  <2>2. Serves'
    <3>1. request.op \in {"none", "open", "close"} BY <1>1 DEF Serves
    <3>2. request.op # "none"
      BY <1>1, <1>8, <1>9 DEF Serves, Writing, Reading
    <3>3. request.op = "open" => j.at \in Reading \cup {"done"}
      BY <1>1, <1>8, <1>9 DEF Serves, Writing, Reading
    <3>4. request.op = "close" =>
            /\ j.at \in Writing \cup {"freed", "done"}
            /\ request.el \in 1 .. Len(open_snapshots)
            /\ j.at \in Writing \/ j.ok =>
                 /\ open_snapshots[request.el].sname = j.name
                 /\ open_snapshots[request.el].items = j.items
      <4>1. SUFFICES ASSUME request.op = "close", job[p].at \in Writing
                     PROVE  /\ request.el \in 1 .. Len(open_snapshots)
                            /\ j.at \in Writing \/ j.ok =>
                                 /\ open_snapshots[request.el].sname = j.name
                                 /\ open_snapshots[request.el].items = j.items
        BY <1>1, <1>8, <1>9 DEF Serves, Writing, Reading
      <4>2. /\ request.el \in 1 .. Len(open_snapshots)
            /\ open_snapshots[request.el].sname = job[p].name
            /\ open_snapshots[request.el].items = job[p].items
        BY <1>1, <1>9, <4>1 DEF Serves
      <4>3. j.at \in Writing => j.at # "done" BY DEF Writing
      <4> QED BY <1>8, <4>1, <4>2, <4>3
    <3> QED BY <1>2, <1>7, <1>9, <3>1, <3>2, <3>3, <3>4 DEF Serves
  <2> QED BY <1>1, <1>2, <1>3, <1>6, <1>9, <2>1, <2>2, AllTogether
<1>10. CASE p = Tool
  <2>1. IsList(open_snapshots') /\ Serves' /\ DoneOK(Server)'
    BY <1>2, <1>4, <1>5, <1>10, ServerUnconcerned
  <2>2. ComparesOK' BY <1>2, <1>4, ComparesStays DEF SnapshotsOK
  <2>3. Works'
    <3>1. tool.op # "none" BY <1>1, <1>8, <1>10 DEF Works, Writing, Reading
    <3>2. tool.op = "record" => j.at \in Writing \cup {"done"}
      BY <1>1, <1>8, <1>10 DEF Works, Writing, Reading
    <3>3. tool.op \in {"compare", "compare_b"} =>
            /\ j.at \in Reading \cup {"done"}
            /\ j.at \in Reading \/ j.ok =>
                 j.name = IF tool.op = "compare" THEN tool.a ELSE tool.b
      <4>1. SUFFICES ASSUME tool.op \in {"compare", "compare_b"}, job[p].at \in Reading
                     PROVE  j.at \in Reading \/ j.ok =>
                              j.name = IF tool.op = "compare" THEN tool.a ELSE tool.b
        BY <1>1, <1>8, <1>10 DEF Works, Writing, Reading
      <4>2. job[p].name = IF tool.op = "compare" THEN tool.a ELSE tool.b
        BY <1>1, <1>10, <4>1 DEF Works
      <4>3. j.at \in Reading => j.at # "done" BY DEF Reading
      <4> QED BY <1>8, <4>2, <4>3
    <3>4. tool \in [op : {"none", "record", "compare", "compare_b"}, a : {tool.a}, b : {tool.b},
                    first : {tool.first}, clean : BOOLEAN]
      BY <1>1 DEF Works
    <3> QED BY <1>2, <1>7, <1>10, <3>1, <3>2, <3>3, <3>4 DEF Works
  <2> QED BY <1>3, <1>6, <1>10, <2>1, <2>2, <2>3, AllTogether
<1> QED BY <1>9, <1>10, TwoProcesses

(***************************************************************************)
(* The requests.                                                           *)
(***************************************************************************)
LEMMA ServerRests ==
  ASSUME SnapshotsOK, FilesOK', Beside(Server), Steady, tool' = tool,
         IsList(open_snapshots'), request' = NoRequest, job'[Server].at = "idle"
  PROVE  SnapshotsOK'
<1>1. Works' /\ ComparesOK' /\ DoneOK(Tool)' BY ToolUnconcerned
<1>2. DoneOK(Server)' BY NotDone, TwoProcesses
<1>3. request'.op = "none" BY DEF NoRequest
<1>4. Serves' BY <1>3 DEF Serves
<1> QED BY <1>1, <1>2, <1>4, AllTogether

LEMMA NoRequestIsServed ==
  ASSUME SnapshotsOK, ServerFree
  PROVE  job[Server].at = "idle"
<1>1. request.op = "none" BY DEF ServerFree, NoRequest
<1> QED BY <1>1 DEF SnapshotsOK, Serves

LEMMA CreateNext ==
  ASSUME SnapshotsOK, NEW n, Create(n)
  PROVE  SnapshotsOK'
<1>1. FilesOK /\ IsList(open_snapshots) BY DEF SnapshotsOK
<1>2. UNCHANGED fileVars /\ request' = request /\ tool' = tool /\ ServerFree BY DEF Create
<1>3. FilesOK' /\ Steady /\ Beside(Server) BY <1>1, <1>2, FilesUnchanged
<1>4. IsElement(Element(n, n, NoItems)) BY NoItemsTyped DEF IsElement, Element
<1>5. IsList(open_snapshots') BY <1>1, <1>4, AppendedToList DEF Create
<1>6. job'[Server].at = "idle" BY <1>2, NoRequestIsServed DEF fileVars
<1> QED BY <1>2, <1>3, <1>5, <1>6, ServerRests DEF ServerFree

LEMMA AppendNext ==
  ASSUME SnapshotsOK, NEW n, NEW k \in Keys, NEW v, AppendValue(n, k, v)
  PROVE  SnapshotsOK'
<1>1. FilesOK /\ IsList(open_snapshots) BY DEF SnapshotsOK
<1>2. UNCHANGED fileVars /\ request' = request /\ tool' = tool /\ ServerFree BY DEF AppendValue
<1>3. FilesOK' /\ Steady /\ Beside(Server) BY <1>1, <1>2, FilesUnchanged
<1>4. PICK els : els = open_snapshots' OBVIOUS
<1>5. els = [i \in 1 .. Len(open_snapshots) |->
               IF open_snapshots[i].name = n
               THEN [open_snapshots[i] EXCEPT !.items = Appended(@, k, v)]
               ELSE open_snapshots[i]]
  BY <1>4 DEF AppendValue, Els
<1>6. Len(open_snapshots) \in Nat BY <1>1 DEF IsList
<1>7. /\ els = [i \in 1 .. Len(open_snapshots) |-> els[i]]
      /\ Len(els) = Len(open_snapshots)
  <2>1. els \in Seq({els[i] : i \in 1 .. Len(open_snapshots)}) BY <1>5, <1>6
  <2>2. DOMAIN els = 1 .. Len(els) /\ Len(els) \in Nat BY <2>1, LenProperties
  <2>3. Len(els) = Len(open_snapshots) BY <1>5, <1>6, <2>2
  <2> QED BY <1>5, <2>3
<1>8. ASSUME NEW i \in 1 .. Len(open_snapshots) PROVE IsElement(els[i])
  <2>1. IsElement(open_snapshots[i]) BY <1>1 DEF IsList
  <2>2. PICK el : el = open_snapshots[i] OBVIOUS
  <2>3. IsItems(Appended(el.items, k, v)) BY <2>1, <2>2, AppendedTyped DEF IsElement
  <2>4. PICK items : items = Appended(el.items, k, v) OBVIOUS
  <2>5. els[i] = el \/ els[i] = [el EXCEPT !.items = items] BY <1>5, <2>2, <2>4
  <2>6. IsElement([el EXCEPT !.items = items]) BY <2>1, <2>2, <2>3, <2>4 DEF IsElement
  <2> QED BY <2>1, <2>2, <2>5, <2>6
<1>9. IsList(els) BY <1>6, <1>7, <1>8 DEF IsList
<1>10. job'[Server].at = "idle" BY <1>2, NoRequestIsServed DEF fileVars
<1> QED BY <1>2, <1>3, <1>4, <1>9, <1>10, ServerRests DEF ServerFree

LEMMA OpenNext ==
  ASSUME SnapshotsOK, NEW n, NEW as, Open(n, as)
  PROVE  SnapshotsOK'
<1>1. FilesOK /\ IsList(open_snapshots) BY DEF SnapshotsOK
<1>2. /\ StartRead(Server, n) /\ tool' = tool /\ open_snapshots' = open_snapshots
      /\ request' = [NoRequest EXCEPT !.op = "open", !.name = n, !.as = as]
  BY DEF Open
<1>3. FilesOK' /\ Begins(Server, n, "unzip", NoItems, DOMAIN FilesOf(zips, n), TRUE)
  BY <1>1, <1>2, StartReadKeeps, TwoProcesses
<1>4. zips' = zips BY <1>2 DEF StartRead
<1>5. Beside(Server) /\ Steady BY <1>1, <1>3, <1>4, BeginsBeside, TwoProcesses
<1>6. Works' /\ ComparesOK' /\ DoneOK(Tool)' BY <1>2, <1>5, ToolUnconcerned
<1>7. job'[Server].at = "unzip" BY <1>3 DEF Begins
<1>8. DoneOK(Server)' BY <1>7, NotDone, TwoProcesses
<1>9. request'.op = "open" BY <1>2 DEF NoRequest
<1>10. Serves' BY <1>7, <1>9 DEF Serves, Reading
<1> QED BY <1>1, <1>2, <1>3, <1>6, <1>8, <1>10, AllTogether

LEMMA OpenReturnsNext ==
  ASSUME SnapshotsOK, OpenReturns
  PROVE  SnapshotsOK'
<1>1. FilesOK /\ IsList(open_snapshots) BY DEF SnapshotsOK
<1>2. /\ job' = [job EXCEPT ![Server] = Idle] /\ dirs' = dirs /\ zips' = zips
      /\ tool' = tool /\ request' = NoRequest
  BY DEF OpenReturns
<1>3. Takes(Server, job'[Server]) /\ IsJob(job'[Server]) /\ job'[Server].at = "idle"
  BY <1>1, <1>2, Idles, TwoProcesses
<1>4. FilesOK' BY <1>1, <1>2, <1>3, Stops, TwoProcesses
<1>5. Beside(Server) /\ Steady BY <1>2, <1>3, TakesBeside, TakesSteady, TwoProcesses
<1>6. PICK n, sname : open_snapshots' = Append(open_snapshots, Element(n, sname, job[Server].items))
  BY DEF OpenReturns
<1>7. IsItems(job[Server].items) BY <1>1, TwoProcesses DEF FilesOK, FilesTyped, IsJob
<1>8. IsElement(Element(n, sname, job[Server].items)) BY <1>7 DEF IsElement, Element
<1>9. IsList(open_snapshots') BY <1>1, <1>6, <1>8, AppendedToList
<1> QED BY <1>2, <1>3, <1>4, <1>5, <1>9, ServerRests

LEMMA FreedNameNext ==
  ASSUME SnapshotsOK, FreedName
  PROVE  SnapshotsOK'
<1>1. FilesOK /\ IsList(open_snapshots) /\ Serves BY DEF SnapshotsOK
<1>2. /\ job[Server].at = "freed" /\ Fail(Server) /\ dirs' = dirs /\ zips' = zips
      /\ tool' = tool /\ request' = request /\ open_snapshots' = open_snapshots
  BY DEF FreedName
<1>3. /\ Takes(Server, job'[Server]) /\ IsJob(job'[Server])
      /\ job'[Server].at = "done" /\ ~job'[Server].ok
  BY <1>1, <1>2, Fails, TwoProcesses
<1>4. FilesOK' BY <1>1, <1>2, <1>3, Stops, TwoProcesses
<1>5. Beside(Server) /\ Steady BY <1>2, <1>3, TakesBeside, TakesSteady, TwoProcesses
<1>6. Works' /\ ComparesOK' /\ DoneOK(Tool)' BY <1>2, <1>5, ToolUnconcerned
<1>7. DoneOK(Server)' BY <1>3, NotDone, TwoProcesses
<1>8. request.op = "close" /\ request.el \in 1 .. Len(open_snapshots)
  BY <1>1, <1>2 DEF Serves, Reading
<1>9. Serves' BY <1>2, <1>3, <1>8 DEF Serves, Writing
<1> QED BY <1>1, <1>2, <1>4, <1>6, <1>7, <1>9, AllTogether

(* The walk over the list goes on, and ends or writes the next element. *)
LEMMA CloseGoesOn ==
  ASSUME SnapshotsOK, NEW els, IsList(els), open_snapshots' = els, NEW n, NEW i \in Nat \ {0},
         CloseFrom(els, n, i), tool' = tool
  PROVE  SnapshotsOK'
<1>1. FilesOK BY DEF SnapshotsOK
<1>2. CASE request' = NoRequest /\ job' = [job EXCEPT ![Server] = Idle] /\ UNCHANGED <<dirs, zips>>
  <2>1. Takes(Server, job'[Server]) /\ IsJob(job'[Server]) /\ job'[Server].at = "idle"
    BY <1>1, <1>2, Idles, TwoProcesses
  <2>2. FilesOK' BY <1>1, <1>2, <2>1, Stops, TwoProcesses
  <2>3. Beside(Server) /\ Steady BY <1>2, <2>1, TakesBeside, TakesSteady, TwoProcesses
  <2> QED BY <1>2, <2>1, <2>2, <2>3, ServerRests
<1>3. CASE \E next \in i .. Len(els) :
             /\ request' = [NoRequest EXCEPT !.op = "close", !.name = n, !.el = next]
             /\ WriteElement(els, next)
  <2>1. PICK next \in i .. Len(els) :
             /\ request' = [NoRequest EXCEPT !.op = "close", !.name = n, !.el = next]
             /\ WriteElement(els, next)
    BY <1>3
  <2>2. next \in 1 .. Len(els) BY DEF IsList
  <2>3. request'.op = "close" /\ request'.el = next BY <2>1 DEF NoRequest
  <2>4. CASE els[next].sname = Freed
    <3>1. /\ job' = [job EXCEPT ![Server] = [Idle EXCEPT !.at = "freed", !.name = EmptyName]]
          /\ dirs' = dirs /\ zips' = zips
      BY <2>1, <2>4 DEF WriteElement
    <3>2. job = [p \in Procs |-> job[p]] BY <1>1 DEF FilesOK, FilesTyped
    <3>3. /\ Takes(Server, job'[Server]) /\ IsJob(job'[Server])
          /\ job'[Server].at = "freed" /\ ~job'[Server].ok
      <4>1. job'[Server] = [Idle EXCEPT !.at = "freed", !.name = EmptyName]
        BY <3>1, <3>2, TwoProcesses
      <4>2. IsJob(job'[Server]) /\ job'[Server].at = "freed" /\ ~job'[Server].ok
        BY <4>1, NoItemsTyped DEF IsJob, Idle, Places
      <4> QED BY <3>1, <3>2, <4>2 DEF Takes
    <3>4. FilesOK' BY <1>1, <3>1, <3>3, Stops, TwoProcesses
    <3>5. Beside(Server) /\ Steady BY <3>1, <3>3, TakesBeside, TakesSteady, TwoProcesses
    <3>6. Works' /\ ComparesOK' /\ DoneOK(Tool)' BY <3>5, ToolUnconcerned
    <3>7. DoneOK(Server)' BY <3>3, NotDone, TwoProcesses
    <3>8. Serves' BY <2>2, <2>3, <3>3 DEF Serves, Writing
    <3> QED BY <3>4, <3>6, <3>7, <3>8, AllTogether
  <2>5. CASE els[next].sname # Freed
    <3>1. PICK m, items : m = els[next].sname /\ items = els[next].items OBVIOUS
    <3>2. StartWrite(Server, m, items) BY <2>1, <2>5, <3>1 DEF WriteElement
    <3>3. IsItems(items) BY <2>2, <3>1 DEF IsList, IsElement
    <3>4. FilesOK' /\ Begins(Server, m, "mkdir", items, DOMAIN items, FALSE)
      BY <1>1, <3>2, <3>3, StartWriteKeeps, TwoProcesses
    <3>5. zips' = zips BY <3>2 DEF StartWrite
    <3>6. Beside(Server) /\ Steady BY <1>1, <3>4, <3>5, BeginsBeside, TwoProcesses
    <3>7. Works' /\ ComparesOK' /\ DoneOK(Tool)' BY <3>6, ToolUnconcerned
    <3>8. job'[Server].at = "mkdir" /\ job'[Server].name = m /\ job'[Server].items = items
      BY <3>4 DEF Begins
    <3>9. DoneOK(Server)' BY <3>8, NotDone, TwoProcesses
    <3>10. Serves' BY <2>2, <2>3, <3>1, <3>8 DEF Serves, Writing
    <3> QED BY <3>4, <3>7, <3>9, <3>10, AllTogether
  <2> QED BY <2>4, <2>5
<1> QED BY <1>2, <1>3 DEF CloseFrom

LEMMA CloseNext ==
  ASSUME SnapshotsOK, NEW n, Close(n)
  PROVE  SnapshotsOK'
<1>1. PICK els : els = open_snapshots OBVIOUS
<1>2. IsList(els) BY <1>1 DEF SnapshotsOK
<1>3. CloseFrom(els, n, 1) /\ open_snapshots' = els /\ tool' = tool BY <1>1 DEF Close
<1> QED BY <1>2, <1>3, CloseGoesOn

LEMMA CloseFailedNext ==
  ASSUME SnapshotsOK, CloseFailed
  PROVE  SnapshotsOK'
<1>1. PICK els, n, i : els = open_snapshots /\ n = request.name /\ i = request.el + 1 OBVIOUS
<1>2. IsList(els) BY <1>1 DEF SnapshotsOK
<1>3. CloseFrom(els, n, i) /\ open_snapshots' = els /\ tool' = tool BY <1>1 DEF CloseFailed
<1>4. i \in Nat \ {0}
  <2>1. request.el \in 1 .. Len(open_snapshots) BY DEF SnapshotsOK, Serves, CloseFailed
  <2> QED BY <1>1, <2>1 DEF SnapshotsOK, IsList
<1> QED BY <1>2, <1>3, <1>4, CloseGoesOn

LEMMA CloseWrittenNext ==
  ASSUME SnapshotsOK, CloseWritten
  PROVE  SnapshotsOK'
<1>1. PICK els, n, i : /\ els = open_snapshots' /\ n = request.name
                       /\ i = IF request.el = 1 THEN MaxOpen + 1 ELSE request.el
  OBVIOUS
<1>2. CloseFrom(els, n, i) /\ tool' = tool BY <1>1 DEF CloseWritten
<1>3. request.el \in 1 .. Len(open_snapshots) BY DEF SnapshotsOK, Serves, CloseWritten
<1>4. PICK el : el = request.el OBVIOUS
<1>5. IsList(els)
  <2>1. els = RemoveAt(open_snapshots, el) BY <1>1, <1>4 DEF CloseWritten, Without
  <2>2. IsList(open_snapshots) BY DEF SnapshotsOK
  <2> QED BY <1>3, <1>4, <2>1, <2>2, RemovedFromList
<1>6. i \in Nat \ {0} BY <1>1, <1>3, BoundsPositive DEF SnapshotsOK, IsList
<1> QED BY <1>1, <1>2, <1>5, <1>6, CloseGoesOn

(***************************************************************************)
(* The tool, and the end of a process.                                     *)
(***************************************************************************)
LEMMA NoToolTyped ==
  /\ NoTool.op = "none"
  /\ NoTool \in [op : {"none", "record", "compare", "compare_b"}, a : {NoTool.a}, b : {NoTool.b},
                 first : {NoTool.first}, clean : BOOLEAN]
BY DEF NoTool

LEMMA ToolRests ==
  ASSUME SnapshotsOK, FilesOK', Beside(Tool), Steady, UNCHANGED <<request, open_snapshots>>,
         tool' = NoTool, job'[Tool].at = "idle"
  PROVE  SnapshotsOK'
<1>1. IsList(open_snapshots') /\ Serves' /\ DoneOK(Server)' BY ServerUnconcerned
<1>2. DoneOK(Tool)' BY NotDone, TwoProcesses
<1>3. Works' BY NoToolTyped DEF Works
<1>4. ComparesOK' BY NoToolTyped DEF ComparesOK
<1> QED BY <1>1, <1>2, <1>3, <1>4, AllTogether

LEMMA EndsNext ==
  ASSUME SnapshotsOK, NEW p \in Procs, Ends(p)
  PROVE  SnapshotsOK'
<1>1. FilesOK BY DEF SnapshotsOK
<1>2. job' = [job EXCEPT ![p] = Idle] /\ dirs' = dirs /\ zips' = zips BY DEF Ends
<1>3. Takes(p, job'[p]) /\ IsJob(job'[p]) /\ job'[p].at = "idle" BY <1>1, <1>2, Idles
<1>4. FilesOK' BY <1>1, <1>2, <1>3, Stops
<1>5. Beside(p) /\ Steady BY <1>2, <1>3, TakesBeside, TakesSteady
<1>6. CASE p = Server
  <2>1. open_snapshots' = <<>> /\ request' = NoRequest /\ tool' = tool
    BY <1>6, TwoProcesses DEF Ends
  <2>2. Len(<<>>) = 0 /\ <<>> = [i \in 1 .. 0 |-> <<>>[i]] OBVIOUS
  <2>3. IsList(open_snapshots') BY <2>1, <2>2 DEF IsList
  <2> QED BY <1>3, <1>4, <1>5, <1>6, <2>1, <2>3, ServerRests
<1>7. CASE p = Tool
  <2>1. open_snapshots' = open_snapshots /\ request' = request /\ tool' = NoTool
    BY <1>7, TwoProcesses DEF Ends
  <2> QED BY <1>3, <1>4, <1>5, <1>7, <2>1, ToolRests
<1> QED BY <1>6, <1>7, TwoProcesses

LEMMA ToolEndsNext ==
  ASSUME SnapshotsOK, ToolEnds
  PROVE  SnapshotsOK'
<1>1. FilesOK BY DEF SnapshotsOK
<1>2. /\ job' = [job EXCEPT ![Tool] = Idle] /\ dirs' = dirs /\ zips' = zips
      /\ tool' = NoTool /\ UNCHANGED <<request, open_snapshots>>
  BY DEF ToolEnds
<1>3. Takes(Tool, job'[Tool]) /\ IsJob(job'[Tool]) /\ job'[Tool].at = "idle"
  BY <1>1, <1>2, Idles, TwoProcesses
<1>4. FilesOK' BY <1>1, <1>2, <1>3, Stops, TwoProcesses
<1>5. Beside(Tool) /\ Steady BY <1>2, <1>3, TakesBeside, TakesSteady, TwoProcesses
<1> QED BY <1>2, <1>3, <1>4, <1>5, ToolRests

LEMMA ToolRecordsNext ==
  ASSUME SnapshotsOK, NEW n, NEW items \in ToolItems, ToolRecords(n, items)
  PROVE  SnapshotsOK'
<1>1. FilesOK BY DEF SnapshotsOK
<1>2. /\ StartWrite(Tool, n, items) /\ UNCHANGED <<request, open_snapshots>>
      /\ tool' = [NoTool EXCEPT !.op = "record", !.a = n]
  BY DEF ToolRecords
<1>3. FilesOK' /\ Begins(Tool, n, "mkdir", items, DOMAIN items, FALSE)
  BY <1>1, <1>2, StartWriteKeeps, ToolItemsAreItems, TwoProcesses
<1>4. zips' = zips BY <1>2 DEF StartWrite
<1>5. Beside(Tool) /\ Steady BY <1>1, <1>3, <1>4, BeginsBeside, TwoProcesses
<1>6. IsList(open_snapshots') /\ Serves' /\ DoneOK(Server)' BY <1>2, <1>5, ServerUnconcerned
<1>7. job'[Tool].at = "mkdir" BY <1>3 DEF Begins
<1>8. DoneOK(Tool)' BY <1>7, NotDone, TwoProcesses
<1>9. /\ tool'.op = "record"
      /\ tool' \in [op : {"none", "record", "compare", "compare_b"}, a : {tool'.a}, b : {tool'.b},
                    first : {tool'.first}, clean : BOOLEAN]
  BY <1>2, NoToolTyped
<1>10. Works' BY <1>7, <1>9 DEF Works, Writing
<1>11. ComparesOK' BY <1>9 DEF ComparesOK
<1> QED BY <1>3, <1>6, <1>8, <1>10, <1>11, AllTogether

LEMMA ToolComparesNext ==
  ASSUME SnapshotsOK, NEW a, NEW b, ToolCompares(a, b)
  PROVE  SnapshotsOK'
<1>1. FilesOK BY DEF SnapshotsOK
<1>2. /\ StartRead(Tool, a) /\ UNCHANGED <<request, open_snapshots>>
      /\ tool' = [NoTool EXCEPT !.op = "compare", !.a = a, !.b = b]
  BY DEF ToolCompares
<1>3. FilesOK' /\ Begins(Tool, a, "unzip", NoItems, DOMAIN FilesOf(zips, a), TRUE)
  BY <1>1, <1>2, StartReadKeeps, TwoProcesses
<1>4. zips' = zips BY <1>2 DEF StartRead
<1>5. Beside(Tool) /\ Steady BY <1>1, <1>3, <1>4, BeginsBeside, TwoProcesses
<1>6. IsList(open_snapshots') /\ Serves' /\ DoneOK(Server)' BY <1>2, <1>5, ServerUnconcerned
<1>7. job'[Tool].at = "unzip" /\ job'[Tool].name = a BY <1>3 DEF Begins
<1>8. DoneOK(Tool)' BY <1>7, NotDone, TwoProcesses
<1>9. /\ tool'.op = "compare" /\ tool'.a = a
      /\ tool' \in [op : {"none", "record", "compare", "compare_b"}, a : {tool'.a}, b : {tool'.b},
                    first : {tool'.first}, clean : BOOLEAN]
  BY <1>2, NoToolTyped
<1>10. Works' BY <1>7, <1>9 DEF Works, Reading
<1>11. ComparesOK' BY <1>9 DEF ComparesOK
<1> QED BY <1>3, <1>6, <1>8, <1>10, <1>11, AllTogether

(* What was read first is what is in the first archive, for good. *)
LEMMA CompareReadsNextNext ==
  ASSUME SnapshotsOK, CompareReadsNext
  PROVE  SnapshotsOK'
<1>1. FilesOK /\ Works /\ DoneOK(Tool) BY TwoProcesses DEF SnapshotsOK
<1>2. PICK a, b, first, clean :
        /\ a = tool.a /\ b = tool.b /\ first = job[Tool].items
        /\ clean = (~job[Tool].disturbed /\ ~job[Tool].leftover)
  OBVIOUS
<1>3. /\ StartRead(Tool, b) /\ UNCHANGED <<request, open_snapshots>>
      /\ tool' = [tool EXCEPT !.op = "compare_b", !.first = first, !.clean = clean]
      /\ tool.op = "compare" /\ job[Tool].at = "done" /\ job[Tool].ok
  BY <1>2 DEF CompareReadsNext
<1>4. FilesOK' /\ Begins(Tool, b, "unzip", NoItems, DOMAIN FilesOf(zips, b), TRUE)
  BY <1>1, <1>3, StartReadKeeps, TwoProcesses
<1>5. zips' = zips BY <1>3 DEF StartRead
<1>6. Beside(Tool) /\ Steady BY <1>1, <1>4, <1>5, BeginsBeside, TwoProcesses
<1>7. IsList(open_snapshots') /\ Serves' /\ DoneOK(Server)' BY <1>3, <1>6, ServerUnconcerned
<1>8. job'[Tool].at = "unzip" /\ job'[Tool].name = b BY <1>4 DEF Begins
<1>9. DoneOK(Tool)' BY <1>8, NotDone, TwoProcesses
<1>10. clean \in BOOLEAN BY <1>2
<1>11. /\ tool'.op = "compare_b" /\ tool'.a = a /\ tool'.b = b
       /\ tool'.first = first /\ tool'.clean = clean
       /\ tool' \in [op : {"none", "record", "compare", "compare_b"}, a : {tool'.a}, b : {tool'.b},
                     first : {tool'.first}, clean : BOOLEAN]
  BY <1>1, <1>2, <1>3, <1>10 DEF Works
<1>12. Works' BY <1>8, <1>11 DEF Works, Reading
<1>13. ComparesOK'
  <2>1. clean => Known(first, a)
    <3>1. job[Tool].name = a BY <1>1, <1>2, <1>3 DEF Works
    <3>2. Reads(Tool) BY <1>3, TwoProcesses DEF Reads
    <3>3. clean => Returns(Tool) /\ ~job[Tool].leftover BY <1>2, <1>3 DEF Returns
    <3> QED BY <1>1, <1>2, <3>1, <3>2, <3>3 DEF DoneOK
  <2>2. clean => Known(first, a)' BY <1>6, <2>1, KnownStays
  <2> QED BY <1>11, <2>2 DEF ComparesOK
<1> QED BY <1>4, <1>7, <1>9, <1>12, <1>13, AllTogether

(***************************************************************************)
(* The invariant holds in every state.                                     *)
(***************************************************************************)
LEMMA SnapshotsStep ==
  ASSUME SnapshotsOK, [Next]_vars
  PROVE  SnapshotsOK'
<1>1. CASE Request
  <2>1. PICK n : \/ Create(n)
                 \/ \E k \in Keys, v \in Values : AppendValue(n, k, v)
                 \/ \E as \in BOOLEAN : Open(n, as)
                 \/ Close(n)
    BY <1>1 DEF Request
  <2> QED BY <2>1, CreateNext, AppendNext, OpenNext, CloseNext
<1>2. CASE ServerReturns
  BY <1>2, OpenReturnsNext, CloseWrittenNext, CloseFailedNext, EndsNext, TwoProcesses
     DEF ServerReturns, OpenCrashes
<1>3. CASE FreedName BY <1>3, FreedNameNext
<1>4. CASE ToolRuns BY <1>4, ToolRecordsNext, ToolComparesNext DEF ToolRuns
<1>5. CASE CompareReadsNext BY <1>5, CompareReadsNextNext
<1>6. CASE ToolEnds BY <1>6, ToolEndsNext
<1>7. CASE \E p \in Procs : FileStep(p) \/ Crash(p) \/ ItemVanishes(p)
  BY <1>7, StepNext, EndsNext DEF Crash, ItemVanishes
<1>8. CASE UNCHANGED vars
  <2>1. /\ UNCHANGED fileVars /\ open_snapshots' = open_snapshots
        /\ request' = request /\ tool' = tool
    BY <1>8 DEF vars
  <2>2. FilesOK' /\ Steady /\ Beside(Server) /\ Beside(Tool)
    BY <2>1, FilesUnchanged DEF SnapshotsOK
  <2>3. Works' /\ ComparesOK' /\ DoneOK(Tool)' BY <2>1, <2>2, ToolUnconcerned
  <2>4. IsList(open_snapshots') /\ Serves' /\ DoneOK(Server)' BY <2>1, <2>2, ServerUnconcerned
  <2> QED BY <2>2, <2>3, <2>4, AllTogether
<1> QED BY <1>1, <1>2, <1>3, <1>4, <1>5, <1>6, <1>7, <1>8 DEF Next

(* The directory of an undisturbed writer has what was written, what an    *)
(* undisturbed reader unpacks and reads is in the archive, every request   *)
(* and command is about the job that does it, and what a finished job left *)
(* or found in an archive stays there.                                     *)
THEOREM SnapshotsInvariant == Spec => []SnapshotsOK
<1>1. Init => SnapshotsOK BY InitOK
<1>2. SnapshotsOK /\ [Next]_vars => SnapshotsOK' BY SnapshotsStep
<1> QED BY <1>1, <1>2, PTL DEF Spec

(* What is written is saved, unless it was taken: a write that succeeds,   *)
(* with no reader at the name, leaves an archive of exactly its items.     *)
THEOREM WritesAreSaved == Spec => []WrittenUnlessTaken
<1>1. ASSUME SnapshotsOK PROVE WrittenUnlessTaken
  <2>1. SUFFICES ASSUME NEW p \in Procs, Wrote(p), Returns(p), ~job[p].taken
                 PROVE  Saved(job[p].name, job[p].items)
    BY DEF WrittenUnlessTaken
  <2>2. DoneOK(p) BY <1>1 DEF SnapshotsOK
  <2> QED BY <2>1, <2>2 DEF DoneOK, Kept
<1> QED BY <1>1, SnapshotsInvariant, PTL

(* What is read is what the archive has, whatever directories, archives    *)
(* and processes there were before.                                        *)
LEMMA KnownIsArchive ==
  ASSUME NEW items, NEW n, Known(items, n)
  PROVE  /\ n \in DOMAIN zips /\ FilesOf(zips, n) = zips[n]
         /\ DOMAIN items \subseteq DOMAIN zips[n] \ (HiddenKeys \cup {Info})
         /\ \A k \in DOMAIN items :
              /\ DOMAIN items[k] \subseteq DOMAIN zips[n][k]
              /\ items[k] = Restrict(zips[n][k], DOMAIN items[k])
         /\ \A k \in Shown(n) : k \in DOMAIN items /\ items[k] = zips[n][k]
<1>1. n \in DOMAIN zips /\ FilesOf(zips, n) = zips[n] BY DEF Known, Frozen, FilesOf
<1>2. HasRead(items, zips[n], {}) BY DEF Known
<1>3. Shown(n) \subseteq {k \in Read(zips[n], {}) : EmptyValue \notin DOMAIN zips[n][k]}
  BY <1>1 DEF Shown, Read
<1> QED BY <1>1, <1>2, <1>3 DEF HasRead, Read

THEOREM ReadsAreArchives == Spec => []ReadsArchive
<1>1. ASSUME SnapshotsOK PROVE ReadsArchive
  <2>1. SUFFICES ASSUME NEW p \in Procs, Reads(p), Returns(p), ~job[p].leftover, NEW j, j = job[p]
                 PROVE  /\ \A k \in DOMAIN j.items :
                             j.items[k] = Restrict(FilesOf(zips, j.name)[k], DOMAIN j.items[k])
                        /\ \A k \in Shown(j.name) :
                             k \in DOMAIN j.items /\ j.items[k] = FilesOf(zips, j.name)[k]
                        /\ DOMAIN j.items \cap HiddenKeys = {}
    BY DEF ReadsArchive
  <2>2. Known(j.items, j.name) BY <1>1, <2>1 DEF SnapshotsOK, DoneOK
  <2> QED BY <2>2, KnownIsArchive
<1> QED BY <1>1, SnapshotsInvariant, PTL

(* Comparing what was read compares the archives. *)
LEMMA ComparedIsDifference ==
  ASSUME IsFileSystem(zips), NEW first, NEW m, Known(first, m), NEW second, NEW n, Known(second, n),
         NEW result, result = Compared(first, second)
  PROVE  /\ \A k \in DOMAIN result :
              DOMAIN result[k] # {} /\ DOMAIN result[k] \subseteq DOMAIN zips[n][k]
         /\ \A k \in Shown(n) : k \in Shown(m) \/ k \notin DOMAIN zips[m] =>
              \A v \in DOMAIN zips[n][k] :
                CountOf(result, k, v) = IF CountOf(zips[m], k, v) = 0 THEN zips[n][k][v] ELSE 0
<1>1. \A k \in DOMAIN result :
        /\ k \in DOMAIN second /\ NewValues(first, second, k) # {}
        /\ result[k] = Restrict(second[k], NewValues(first, second, k))
        /\ DOMAIN result[k] = NewValues(first, second, k)
  BY DEF Compared, Restrict
<1>2. \A k \in DOMAIN second : NewValues(first, second, k) # {} => k \in DOMAIN result
  BY DEF Compared
<1>3. \A k \in DOMAIN result :
        DOMAIN result[k] # {} /\ DOMAIN result[k] \subseteq DOMAIN zips[n][k]
  <2>1. \A k \in DOMAIN second : DOMAIN second[k] \subseteq DOMAIN zips[n][k] BY KnownIsArchive
  <2> QED BY <1>1, <2>1 DEF NewValues
<1>4. ASSUME NEW k \in Shown(n), k \in Shown(m) \/ k \notin DOMAIN zips[m],
             NEW v \in DOMAIN zips[n][k]
      PROVE  CountOf(result, k, v) = IF CountOf(zips[m], k, v) = 0 THEN zips[n][k][v] ELSE 0
  <2>1. k \in DOMAIN second /\ second[k] = zips[n][k] BY KnownIsArchive
  <2>2. NewValues(first, second, k) =
          {w \in DOMAIN zips[n][k] : ~(k \in DOMAIN zips[m] /\ w \in DOMAIN zips[m][k])}
    <3>1. k \in Shown(m) => k \in DOMAIN first /\ first[k] = zips[m][k] BY KnownIsArchive
    <3>2. DOMAIN first \subseteq DOMAIN zips[m] BY KnownIsArchive
    <3>3. Shown(m) \subseteq DOMAIN zips[m] BY KnownIsArchive DEF Shown
    <3> QED BY <1>4, <2>1, <3>1, <3>2, <3>3 DEF NewValues
  <2>3. CASE k \in DOMAIN zips[m] /\ v \in DOMAIN zips[m][k]
    <3>1. v \notin NewValues(first, second, k) BY <2>2, <2>3
    <3>2. CountOf(result, k, v) = 0 BY <1>1, <3>1 DEF CountOf
    <3>3. k # Info BY DEF Shown
    <3>4. zips[m][k][v] \in Nat \ {0}
      <4>1. AreFiles(zips[m]) BY KnownIsArchive DEF IsFileSystem
      <4> QED BY <2>3, <3>3, <4>1 DEF AreFiles, IsCounts
    <3>5. CountOf(zips[m], k, v) # 0 BY <2>3, <3>4 DEF CountOf
    <3> QED BY <3>2, <3>5
  <2>4. CASE ~(k \in DOMAIN zips[m] /\ v \in DOMAIN zips[m][k])
    <3>1. v \in NewValues(first, second, k) BY <2>2, <2>4
    <3>2. k \in DOMAIN result /\ v \in DOMAIN result[k] /\ result[k][v] = zips[n][k][v]
      BY <1>1, <1>2, <2>1, <3>1 DEF Restrict
    <3>3. CountOf(zips[m], k, v) = 0 BY <2>4 DEF CountOf
    <3> QED BY <3>2, <3>3 DEF CountOf
  <2> QED BY <2>3, <2>4
<1> QED BY <1>3, <1>4

(* A comparison is of the archives as they are when it ends, though one of *)
(* them was read long before: nothing was added to it since.               *)
THEOREM ComparesArchives == Spec => []CompareIsDifference
<1>1. ASSUME SnapshotsOK PROVE CompareIsDifference
  <2>1. SUFFICES ASSUME tool.op = "compare_b", Returns(Tool), tool.clean, ~job[Tool].leftover
                 PROVE  CompareIsDifference
    BY DEF CompareIsDifference
  <2>2. Works /\ DoneOK(Tool) /\ ComparesOK /\ IsFileSystem(zips)
    BY <1>1, TwoProcesses DEF SnapshotsOK, FilesOK, FilesTyped
  <2>3. PICK first, a, second, b : /\ first = tool.first /\ a = tool.a /\ b = tool.b
                                   /\ second = job[Tool].items
    OBVIOUS
  <2>4. Known(first, a) BY <2>1, <2>2, <2>3 DEF ComparesOK
  <2>5. Known(second, b)
    <3>1. Reads(Tool) BY <2>1, TwoProcesses DEF Reads
    <3>2. job[Tool].ok BY <2>1 DEF Returns
    <3>3. job[Tool].name = b BY <2>1, <2>2, <2>3, <3>2 DEF Works
    <3> QED BY <2>1, <2>2, <2>3, <3>1, <3>3 DEF DoneOK
  <2>6. FilesOf(zips, a) = zips[a] /\ FilesOf(zips, b) = zips[b] BY <2>4, <2>5, KnownIsArchive
  <2>7. PICK result : result = Compared(first, second) OBVIOUS
  <2>8. /\ \A k \in DOMAIN result :
             DOMAIN result[k] # {} /\ DOMAIN result[k] \subseteq DOMAIN zips[b][k]
        /\ \A k \in Shown(b) : k \in Shown(a) \/ k \notin DOMAIN zips[a] =>
             \A v \in DOMAIN zips[b][k] :
               CountOf(result, k, v) = IF CountOf(zips[a], k, v) = 0 THEN zips[b][k][v] ELSE 0
    BY <2>2, <2>4, <2>5, <2>7, ComparedIsDifference
  <2> QED BY <2>3, <2>6, <2>7, <2>8 DEF CompareIsDifference
<1> QED BY <1>1, SnapshotsInvariant, PTL

(* Only a close that was written shortens the list, by the element that    *)
(* was written, and that is in its archive.                                *)
LEMMA OccursIsANumber ==
  ASSUME NEW list, IsList(list), NEW el
  PROVE  Occurs(el, list) \in Nat
<1>1. DOMAIN list = 1 .. Len(list) /\ Len(list) \in Nat BY ListIsSeq DEF IsList
<1>2. IsFiniteSet(DOMAIN list) BY <1>1, FS_Interval
<1>3. IsFiniteSet({i \in DOMAIN list : list[i] = el}) BY <1>2, FS_Subset
<1> QED BY <1>3, FS_CardinalityType DEF Occurs

THEOREM ForgottenIsSaved == Spec => ForgetsWhatIsSaved
<1>1. ASSUME SnapshotsOK, [Next]_vars
      PROVE  [ request.op = "close" /\ Returns(Server) /\ ~job[Server].taken =>
                 \A i \in Els :
                   LET el == open_snapshots[i]
                   IN Occurs(el, open_snapshots') < Occurs(el, open_snapshots) =>
                        Saved(el.sname, el.items) ]_vars
  <2>1. SUFFICES ASSUME request.op = "close", Returns(Server), ~job[Server].taken,
                        NEW i \in Els, NEW el, el = open_snapshots[i],
                        Occurs(el, open_snapshots') < Occurs(el, open_snapshots)
                 PROVE  Saved(el.sname, el.items)
    OBVIOUS
  <2>2. job[Server].at = "done" /\ job[Server].ok BY <2>1 DEF Returns
  <2>3. IsList(open_snapshots) BY <1>1 DEF SnapshotsOK
  <2>4. open_snapshots' # open_snapshots
    <3>1. Occurs(el, open_snapshots) \in Nat BY <2>3, OccursIsANumber
    <3>2. ~(Occurs(el, open_snapshots) < Occurs(el, open_snapshots)) BY <3>1
    <3> QED BY <2>1, <3>2
  <2>5. CloseWritten
    <3>1. ~Request
      <4>1. ~ServerFree BY <2>1 DEF ServerFree, NoRequest
      <4> QED BY <4>1 DEF Request, Create, AppendValue, Open, Close
    <3>2. ~OpenReturns /\ ~OpenCrashes /\ ~CloseFailed /\ ~FreedName
      BY <2>1, <2>2 DEF OpenReturns, OpenCrashes, CloseFailed, FreedName
    <3>3. ~ToolRuns /\ ~CompareReadsNext /\ ~ToolEnds
      BY <2>4 DEF ToolRuns, ToolRecords, ToolCompares, CompareReadsNext, ToolEnds
    <3>4. ASSUME NEW p \in Procs PROVE ~FileStep(p) /\ ~Crash(p) /\ ~ItemVanishes(p)
      <4>1. ~FileStep(p) BY <2>4 DEF FileStep
      <4>2. CASE p = Server BY <2>2, <4>1, <4>2 DEF Crash, ItemVanishes, ItemVanished
      <4>3. CASE p # Server BY <2>4, <4>1, <4>3 DEF Crash, ItemVanishes, Ends
      <4> QED BY <4>2, <4>3
    <3>5. Next BY <1>1, <2>4 DEF vars
    <3> QED BY <3>1, <3>2, <3>3, <3>4, <3>5 DEF Next, ServerReturns
  <2>6. PICK at : at = request.el OBVIOUS
  <2>7. /\ at \in 1 .. Len(open_snapshots)
        /\ open_snapshots[at].sname = job[Server].name
        /\ open_snapshots[at].items = job[Server].items
    BY <1>1, <2>1, <2>2, <2>6 DEF SnapshotsOK, Serves
  <2>8. el = open_snapshots[at]
    <3>1. open_snapshots' = RemoveAt(open_snapshots, at) BY <2>5, <2>6 DEF CloseWritten, Without
    <3> QED BY <2>1, <2>3, <2>7, <3>1, OccursAfterRemoval
  <2>9. Saved(job[Server].name, job[Server].items)
    <3>1. Wrote(Server) BY <2>1 DEF Wrote
    <3>2. DoneOK(Server) BY <1>1, TwoProcesses DEF SnapshotsOK
    <3> QED BY <2>1, <3>1, <3>2 DEF DoneOK, Kept
  <2> QED BY <2>7, <2>8, <2>9
<1> QED BY <1>1, SnapshotsInvariant, PTL DEF Spec, ForgetsWhatIsSaved

=============================================================================
