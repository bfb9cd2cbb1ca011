---------------------------- MODULE SnapshotFile ----------------------------
(***************************************************************************)
(* lib/snapshot-file.c: snapshots in files.  Writing makes a directory of  *)
(* the snapshot's name with a file per item, packs it into an archive      *)
(* <name>.urls, one file at a time and in place, and removes it.  Reading  *)
(* unpacks the archive into the directory of its name, reads what is in    *)
(* there, and removes it.  Processes share the file system, and may die    *)
(* between any two steps.                                                  *)
(***************************************************************************)
EXTENDS Snapshot, FiniteSets

CONSTANTS Procs,
          Names,        \* names of snapshots
          Keys,         \* keys of items
          HiddenKeys,   \* those that start with '_' (or '.'): no reader looks at them
          BadKeys,      \* those that cannot be the name of a file: "", "a/b"
          Info,         \* the file _info
          EmptyValue    \* the value ""

ASSUME KeyKinds ==
  HiddenKeys \subseteq Keys /\ BadKeys \subseteq Keys /\ Info \notin Keys

(* What a snapshot has, and what the files of a directory or an archive do *)
IsItems(items) ==
  /\ items = [k \in DOMAIN items |-> items[k]]
  /\ DOMAIN items \subseteq Keys
  /\ \A k \in DOMAIN items : IsCounts(items[k])

AreFiles(files) ==
  /\ files = [k \in DOMAIN files |-> files[k]]
  /\ DOMAIN files \subseteq Keys \cup {Info}
  /\ \A k \in DOMAIN files : IF k = Info THEN files[k] = NoCounts ELSE IsCounts(files[k])

VARIABLES dirs,   \* directories: the files of each, by name of the snapshot
          zips,   \* archives, likewise
          job     \* what each process is doing to them

fileVars == <<dirs, zips, job>>

(* A job: where it is, the snapshot, what is left to do of a loop; then    *)
(* what the caller gets, and, for the properties, what it started from:    *)
(* whether another process was at the same name to read it (disturbed),    *)
(* whether there was an archive (taken) or a directory (leftover).         *)
Idle ==
  [at |-> "idle", name |-> "", items |-> NoItems, todo |-> {}, ok |-> FALSE,
   disturbed |-> FALSE, taken |-> FALSE, leftover |-> FALSE]

Writing == {"mkdir", "items", "stat", "zip", "rmdir"}
Reading == {"unzip", "readdir"}
Active(p) == job[p].at \in Writing \cup Reading

FilesOf(fs, n) == IF n \in DOMAIN fs THEN fs[n] ELSE NoItems
Put(fs, n, k, content) == With(fs, n, With(FilesOf(fs, n), k, content))
RemovedFrom(fs, n) == Restrict(fs, DOMAIN fs \ {n})

To(p, at, todo) == [job EXCEPT ![p].at = at, ![p].todo = todo]
Succeed(p) == job' = [job EXCEPT ![p].at = "done", ![p].ok = TRUE]
Fail(p) == job' = [job EXCEPT ![p] = [Idle EXCEPT !.at = "done"]]
Did(p, k) == [job EXCEPT ![p].todo = @ \ {k}]

(* Another process is at work on n, and it or this job reads: each may     *)
(* remove the directory of the other.                                      *)
Others(p, n) == {q \in Procs \ {p} : Active(q) /\ job[q].name = n}
Clash(p, n, reads) ==
  {q \in Others(p, n) : reads \/ job[q].at \in Reading \/ job[q].disturbed}

Start(p, n, at, items, todo, reads) ==
  job' = [q \in Procs |->
            IF q = p
            THEN [Idle EXCEPT !.at = at, !.name = n, !.items = items, !.todo = todo,
                              !.disturbed = Clash(p, n, reads) # {},
                              !.leftover = reads /\ n \in DOMAIN dirs]
            ELSE IF q \in Clash(p, n, reads) THEN [job[q] EXCEPT !.disturbed = TRUE]
            ELSE job[q]]

(***************************************************************************)
(* faup_snapshot_write                                                     *)
(***************************************************************************)
StartWrite(p, n, items) ==
  /\ Start(p, n, "mkdir", items, DOMAIN items, FALSE)
  /\ UNCHANGED <<dirs, zips>>

Mkdir_Existing(p) ==
  LET n == job[p].name
  IN /\ job[p].at = "mkdir"
     /\ dirs' = Put(dirs, n, Info, NoCounts)
     /\ job' = [job EXCEPT ![p].at = "items", ![p].taken = n \in DOMAIN zips]
     /\ UNCHANGED zips

Mkdir(p) ==
  LET n == job[p].name
  IN /\ job[p].at = "mkdir"
     /\ n \notin DOMAIN dirs
     /\ dirs' = Put(dirs, n, Info, NoCounts)
     /\ job' = [job EXCEPT ![p].at = "items", ![p].taken = n \in DOMAIN zips]
     /\ UNCHANGED zips

MkdirFails(p) ==
  /\ job[p].at = "mkdir"
  /\ job[p].name \in DOMAIN dirs
  /\ Fail(p)
  /\ UNCHANGED <<dirs, zips>>

CanOpen(n, k) == k \notin BadKeys /\ n \in DOMAIN dirs

(* The files of the items before one that cannot be opened stay behind,    *)
(* in a directory that makes every later mkdir fail.                       *)
WriteItem(p) ==
  LET n == job[p].name
  IN /\ job[p].at = "items"
     /\ \E k \in job[p].todo :
          IF CanOpen(n, k)
          THEN /\ dirs' = Put(dirs, n, k, job[p].items[k])
               /\ job' = Did(p, k)
          ELSE Fail(p) /\ UNCHANGED dirs
     /\ UNCHANGED zips

ItemsWritten(p) ==
  /\ job[p].at = "items"
  /\ job[p].todo = {}
  /\ job' = To(p, "stat", {})
  /\ UNCHANGED <<dirs, zips>>

(* faup_snapshot_file_zip refuses to touch an archive that exists.  What   *)
(* it returns is not looked at.                                            *)
ZipStat(p) ==
  LET n == job[p].name
      files == DOMAIN FilesOf(dirs, n)
  IN /\ job[p].at = "stat"
     /\ job' = IF n \in DOMAIN zips \/ files = {} THEN To(p, "rmdir", {})
               ELSE To(p, "zip", files)
     /\ UNCHANGED <<dirs, zips>>

(* mz_zip_add_mem_to_archive_file_in_place for one file of the directory   *)
ZipAdd(p) ==
  LET n == job[p].name
  IN /\ job[p].at = "zip"
     /\ \E k \in job[p].todo :
          IF k \in DOMAIN FilesOf(dirs, n)
          THEN zips' = Put(zips, n, k, dirs[n][k]) /\ job' = Did(p, k)
          ELSE UNCHANGED zips /\ job' = To(p, "rmdir", {})
     /\ UNCHANGED dirs

ZipDone(p) ==
  /\ job[p].at = "zip"
  /\ job[p].todo = {}
  /\ job' = To(p, "rmdir", {})
  /\ UNCHANGED <<dirs, zips>>

RemoveDir(p) ==
  /\ job[p].at = "rmdir"
  /\ dirs' = RemovedFrom(dirs, job[p].name)
  /\ Succeed(p)
  /\ UNCHANGED zips

(***************************************************************************)
(* faup_snapshot_read                                                      *)
(***************************************************************************)
StartRead(p, n) ==
  /\ Start(p, n, "unzip", NoItems, DOMAIN FilesOf(zips, n), TRUE)
  /\ UNCHANGED <<dirs, zips>>

(* faup_snapshot_file_unzip for one file of the archive; an archive that   *)
(* is not there has none, which is no error.                               *)
Extract(p) ==
  LET n == job[p].name
  IN /\ job[p].at = "unzip"
     /\ \E k \in job[p].todo :
          /\ dirs' = Put(dirs, n, k, FilesOf(zips, n)[k])
          /\ job' = Did(p, k)
     /\ UNCHANGED zips

OpenDir_Early(p) ==
  LET n == job[p].name
  IN /\ job[p].at = "unzip"
     /\ n \in DOMAIN dirs
     /\ job' = To(p, "readdir", DOMAIN dirs[n] \ (HiddenKeys \cup {Info}))
     /\ UNCHANGED <<dirs, zips>>

OpenDir(p) ==
  LET n == job[p].name
  IN /\ job[p].at = "unzip"
     /\ job[p].todo = {}
     /\ IF n \in DOMAIN dirs
        THEN job' = To(p, "readdir", DOMAIN dirs[n] \ (HiddenKeys \cup {Info}))
        ELSE Fail(p)
     /\ UNCHANGED <<dirs, zips>>

(* _read_item stops at a value of length 0, which it takes for an error:   *)
(* what came before it, in the order of the table, is read.                *)
ReadableParts(counts) ==
  IF EmptyValue \notin DOMAIN counts THEN {counts}
  ELSE {Restrict(counts, V) : V \in SUBSET (DOMAIN counts \ {EmptyValue})}

(* An item is made when its first value is read. *)
ReadItem(p) ==
  LET n == job[p].name
  IN /\ job[p].at = "readdir"
     /\ \E k \in job[p].todo :
          /\ k \in DOMAIN FilesOf(dirs, n)
          /\ \E counts \in ReadableParts(dirs[n][k]) :
               job' = [Did(p, k) EXCEPT ![p].items =
                         IF counts = NoCounts THEN @ ELSE With(@, k, counts)]
     /\ UNCHANGED <<dirs, zips>>

(* fopen fails, which is not looked at, and fseek gets NULL. *)
ItemVanished(p) ==
  /\ job[p].at = "readdir"
  /\ \E k \in job[p].todo : k \notin DOMAIN FilesOf(dirs, job[p].name)

CleanUp(p) ==
  /\ job[p].at = "readdir"
  /\ job[p].todo = {}
  /\ dirs' = RemovedFrom(dirs, job[p].name)
  /\ Succeed(p)
  /\ UNCHANGED zips

Step(p) ==
  \/ Mkdir(p) \/ MkdirFails(p) \/ WriteItem(p) \/ ItemsWritten(p)
  \/ ZipStat(p) \/ ZipAdd(p) \/ ZipDone(p) \/ RemoveDir(p)
  \/ Extract(p) \/ OpenDir(p) \/ ReadItem(p) \/ CleanUp(p)

=============================================================================
