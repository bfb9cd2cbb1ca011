------------------------------- MODULE Archive -------------------------------
(***************************************************************************)
(* lib/miniz/miniz_zip.c as lib/snapshot-file.c uses it: the files of a    *)
(* directory are added to an archive one at a time and in place            *)
(* (faup_snapshot_file_zip), and anybody may read the archive meanwhile    *)
(* (faup_snapshot_file_unzip).  What is written waits in the buffer of the *)
(* stream; writes fail, and the writer may die, at any moment.             *)
(*                                                                         *)
(* A file is a sequence of cells: the local header of an entry with its    *)
(* name, its data, its data descriptor, an entry of the central directory  *)
(* and the end record.  Sizes and sums are those of the data itself; no    *)
(* data looks like a header, and no archive is large enough for zip64.     *)
(***************************************************************************)
EXTENDS Naturals, FiniteSets, SequencesExt

CONSTANTS Sizes,    \* the files to add: cells of data, by name
          Window    \* how far from its end a file is searched for the end record

ASSUME SizesAssumption == \A n \in DOMAIN Sizes : Sizes[n] \in Nat \ {0}
ASSUME WindowAssumption == Window \in Nat \ {0}

VARIABLES exists,   \* is there an archive ?
          file,     \* its cells
          w,        \* the writer
          r,        \* a reader
          added,    \* the names whose addition succeeded, in order
          torn      \* the writer could not, or did not live to, finish the archive

vars == <<exists, file, w, r, added, torn>>

Local(n) == [kind |-> "local", name |-> n]
Data(n) == [i \in 1..Sizes[n] |-> [kind |-> "data", name |-> n, part |-> i]]
Descriptor(n) == [kind |-> "descriptor", name |-> n]
Entry(n, at) == [kind |-> "entry", name |-> n, at |-> at]
End(at, n) == [kind |-> "end", at |-> at, total |-> n]

Entries(dir) == [i \in DOMAIN dir |-> Entry(dir[i].name, dir[i].at)]
Ending(at, dir) == Append(Entries(dir), End(at, Len(dir)))

(***************************************************************************)
(* Reading                                                                 *)
(***************************************************************************)

(* mz_zip_reader_locate_header_sig: where the last end record is *)
EndRecords(f) ==
  {i \in DOMAIN f : f[i].kind = "end" /\ Len(f) - i <= Window}
Located(f) == IF EndRecords(f) = {} THEN 0 ELSE Max(EndRecords(f))

(* mz_zip_reader_read_central_dir, after the end record *)
Cells(f, at, n) == SubSeq(f, at + 1, at + n)
IsDirectory(f, end, size) ==
  /\ end.at + end.total <= size
  /\ \A i \in 1..end.total :
       LET e == f[end.at + i]
       IN e.kind = "entry" /\ e.at + 1 + Sizes[e.name] <= size

IsArchive(f) ==
  /\ Located(f) # 0
  /\ IsDirectory(f, f[Located(f)], Len(f))
DirectoryOf(f) == LET end == f[Located(f)] IN Cells(f, end.at, end.total)

(* mz_zip_reader_extract_to_callback: the data, if its sum is right *)
NoData == <<>>
Extracted(f, e) ==
  LET data == Cells(f, e.at + 1, Sizes[e.name])
  IN IF f[e.at + 1].kind = "local" /\ data = Data(e.name) THEN data ELSE NoData

(***************************************************************************)
(* mz_zip_add_mem_to_archive_file_in_place.  The writer: the file it adds, *)
(* where the next one goes (size), the directory, what is in the buffer    *)
(* and where that goes, what is left to write.                             *)
(***************************************************************************)
Init ==
  /\ exists = FALSE
  /\ file = <<>>
  /\ w = [at |-> "between", todo |-> DOMAIN Sizes, name |-> "", size |-> 0, dir |-> <<>>,
          buf |-> <<>>, pos |-> 0, left |-> <<>>, created |-> FALSE, ok |-> TRUE]
  /\ r = [at |-> "none", size |-> 0, end |-> 0, dir |-> <<>>, got |-> <<>>]
  /\ added = <<>>
  /\ torn = FALSE

AddStream(n) == <<Local(n)>> \o Data(n) \o <<Descriptor(n)>>

StartAdd(n, size, dir, created) ==
  w' = [w EXCEPT !.at = "add", !.name = n, !.size = size, !.dir = dir, !.buf = <<>>,
                 !.pos = size, !.left = AddStream(n), !.created = created, !.ok = TRUE]

(* mz_zip_writer_init_file_v2 *)
Create ==
  /\ w.at = "between"
  /\ ~exists
  /\ exists' = TRUE
  /\ file' = <<>>
  /\ \E n \in w.todo : StartAdd(n, 0, <<>>, TRUE)
  /\ UNCHANGED <<r, added, torn>>

(* mz_zip_reader_init_file_v2, mz_zip_writer_init_from_reader_v2: the next *)
(* file goes where the directory is.                                       *)
Reopen_AtLastFile ==
  /\ w.at = "between"
  /\ exists
  /\ \E n \in w.todo :
       IF IsArchive(file)
       THEN StartAdd(n, Max({0} \cup {e.at : e \in Range(DirectoryOf(file))}),
                     DirectoryOf(file), FALSE)
       ELSE w' = [w EXCEPT !.todo = {}, !.ok = FALSE]
  /\ UNCHANGED <<exists, file, r, added, torn>>

Reopen ==
  /\ w.at = "between"
  /\ exists
  /\ \E n \in w.todo :
       IF IsArchive(file)
       THEN StartAdd(n, file[Located(file)].at, DirectoryOf(file), FALSE)
       ELSE w' = [w EXCEPT !.todo = {}, !.ok = FALSE]
  /\ UNCHANGED <<exists, file, r, added, torn>>

(* MZ_FWRITE: cells reach the buffer, the buffer some time later the file. *)
Put ==
  /\ w.at \in {"add", "finalize"}
  /\ w.left # <<>>
  /\ w' = [w EXCEPT !.buf = Append(@, Head(w.left)), !.left = Tail(@)]
  /\ UNCHANGED <<exists, file, r, added, torn>>

Overwritten(f, pos, cells) ==
  [i \in 1..Max({Len(f), pos + Len(cells)}) |->
     IF i \in pos + 1..pos + Len(cells) THEN cells[i - pos] ELSE f[i]]

Flush ==
  /\ w.at \in {"add", "finalize"}
  /\ w.buf # <<>>
  /\ file' = Overwritten(file, w.pos, w.buf)
  /\ w' = [w EXCEPT !.pos = @ + Len(w.buf), !.buf = <<>>]
  /\ UNCHANGED <<exists, r, added, torn>>

(* A part of the buffer is written and the rest is dropped.  The directory *)
(* of before is then put back where it was.                                *)
Fail_NoFinalize ==
  w' = [w EXCEPT !.at = "close", !.buf = <<>>, !.left = <<>>, !.ok = FALSE]

Fail ==
  w' = [w EXCEPT !.at = IF w.at = "add" THEN "finalize" ELSE "close",
                 !.pos = w.size, !.buf = <<>>, !.ok = FALSE,
                 !.left = IF w.at = "add" THEN Ending(w.size, w.dir) ELSE <<>>]

FlushFails ==
  /\ w.at \in {"add", "finalize"}
  /\ w.buf # <<>>
  /\ \E k \in 0..Len(w.buf) - 1 :
       file' = Overwritten(file, w.pos, SubSeq(w.buf, 1, k))
  /\ Fail
  /\ torn' = (torn \/ w.at = "finalize")
  /\ UNCHANGED <<exists, r, added>>

(* The end of mz_zip_writer_add_mem_ex_v2: mz_zip_writer_add_to_central_dir *)
Added ==
  /\ w.at = "add"
  /\ w.left = <<>>
  /\ LET dir == Append(w.dir, Entry(w.name, w.size))
         size == w.pos + Len(w.buf)
     IN w' = [w EXCEPT !.at = "finalize", !.dir = dir, !.size = size,
                       !.left = Ending(size, dir)]
  /\ UNCHANGED <<exists, file, r, added, torn>>

(* mz_zip_writer_finalize_archive has flushed the stream. *)
Finalized ==
  /\ w.at = "finalize"
  /\ w.left = <<>> /\ w.buf = <<>>
  /\ w' = [w EXCEPT !.at = "close"]
  /\ UNCHANGED <<exists, file, r, added, torn>>

(* mz_zip_writer_end_internal; an archive whose first file could not be    *)
(* added is removed, and faup_snapshot_file_zip stops at a failure.        *)
Close ==
  /\ w.at = "close"
  /\ w' = [w EXCEPT !.at = "between", !.dir = <<>>, !.size = 0, !.pos = 0, !.name = "",
                    !.todo = IF w.ok THEN @ \ {w.name} ELSE {}]
  /\ LET removed == ~w.ok /\ w.created
     IN exists' = ~removed /\ torn' = (torn /\ ~removed)
  /\ added' = IF w.ok THEN Append(added, w.name) ELSE added
  /\ UNCHANGED <<file, r>>

Die ==
  /\ w.at # "dead"
  /\ w' = [w EXCEPT !.at = "dead", !.buf = <<>>, !.left = <<>>]
  /\ torn' = (torn \/ w.at # "between")
  /\ UNCHANGED <<exists, file, r, added>>

(***************************************************************************)
(* faup_snapshot_file_unzip                                                *)
(***************************************************************************)
Locate ==
  /\ r.at = "none"
  /\ r' = IF exists /\ Located(file) # 0
          THEN [r EXCEPT !.at = "located", !.size = Len(file), !.end = Located(file)]
          ELSE [r EXCEPT !.at = "done"]
  /\ UNCHANGED <<exists, file, w, added, torn>>

(* The directory is read with the file as it now is. *)
ReadDirectory ==
  /\ r.at = "located"
  /\ LET end == file[r.end]
     IN r' = IF /\ end.kind = "end"
                /\ IsDirectory(file, end, r.size)
             THEN [r EXCEPT !.at = "extract", !.dir = Cells(file, end.at, end.total)]
             ELSE [r EXCEPT !.at = "done"]
  /\ UNCHANGED <<exists, file, w, added, torn>>

Extract ==
  /\ r.at = "extract"
  /\ Len(r.got) < Len(r.dir)
  /\ r' = [r EXCEPT !.got = Append(@, Extracted(file, r.dir[Len(@) + 1]))]
  /\ UNCHANGED <<exists, file, w, added, torn>>

Write == Create \/ Reopen \/ Put \/ Flush \/ FlushFails \/ Added \/ Finalized \/ Close \/ Die
Read == Locate \/ ReadDirectory \/ Extract
Next == Write \/ Read
Spec == Init /\ [][Next]_vars

-----------------------------------------------------------------------------
NamesIn(dir) == [i \in DOMAIN dir |-> dir[i].name]
EndOfArchive(f) == Max({i \in DOMAIN f : f[i].kind = "end"} \cup {0})

(* Whenever no addition is under way and the last one could finish the     *)
(* archive, reading it gives every file added so far, whole and in order,  *)
(* after an addition that failed too.  What that one left behind the end   *)
(* record may hide it, if there is more of it than the search looks        *)
(* through.                                                                *)
AddedIsRead ==
  w.at \in {"between", "dead"} /\ ~torn /\ added # <<>> =>
    \/ /\ IsArchive(file)
       /\ NamesIn(DirectoryOf(file)) = added
       /\ \A e \in Range(DirectoryOf(file)) : Extracted(file, e) = Data(e.name)
    \/ Len(file) - EndOfArchive(file) > Window

(* Whatever the writer does meanwhile, wherever it stops, a reader either  *)
(* refuses the archive or finds files that were added, from the first on,  *)
(* each with the contents it was added with.                               *)
ReadsOnlyAdded ==
  /\ IsPrefix(NamesIn(r.dir), added) \/ \E n \in DOMAIN Sizes : NamesIn(r.dir) = Append(added, n)
  /\ \A i \in DOMAIN r.got : r.got[i] = Data(r.dir[i].name)

=============================================================================
