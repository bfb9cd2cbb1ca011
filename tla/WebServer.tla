----------------------------- MODULE WebServer ------------------------------
(***************************************************************************)
(* lib/webserver.c and tools/faup.c, as far as they use snapshots: the     *)
(* server keeps a list of open snapshots, which requests create, open,     *)
(* append to and close; beside it the command line tool records, prints    *)
(* and compares snapshots in the same directory.                           *)
(*                                                                         *)
(* A handler holds the lock from beginning to end, so the server does one  *)
(* request at a time; creating and appending touch nothing else and are    *)
(* one step, opening and closing go through the steps of SnapshotFile.     *)
(* Requests that only answer (get) or are refused leave everything as it   *)
(* is and are left out.                                                    *)
(***************************************************************************)
EXTENDS SnapshotFile, SequencesExt

CONSTANTS Server, Tool,   \* the processes
          EmptyName,      \* the name ""; "./" is a directory that exists
          Freed,          \* a name that was freed
          Values,         \* of items, EmptyValue among them or not
          ToolItems,      \* what the tool may have recorded: items with keys of its own
          Recorded,       \* archives of an earlier day, which are only compared with
          MaxOpen,        \* bound: open snapshots
          MaxCount        \* bound: of a counter

ASSUME ProcessesAreTwo == Procs = {Server, Tool} /\ Server # Tool
ASSUME EmptyNameIsOne == EmptyName \in Names /\ Freed \notin Names
ASSUME ToolItemsAreItems == \A items \in ToolItems : IsItems(items)
ASSUME RecordedAreArchives ==
  /\ Recorded = [n \in DOMAIN Recorded |-> Recorded[n]]
  /\ \A n \in DOMAIN Recorded : AreFiles(Recorded[n])
ASSUME BoundsPositive == MaxOpen \in Nat \ {0} /\ MaxCount \in Nat \ {0}

VARIABLES open_snapshots,  \* the list: name of the element, name and items of its snapshot
          request,         \* the request in progress and its place in the list
          tool             \* what the tool does with what it reads

vars == <<fileVars, open_snapshots, request, tool>>

NoRequest == [op |-> "none", name |-> EmptyName, as |-> FALSE, el |-> 0]
NoTool == [op |-> "none", a |-> EmptyName, b |-> EmptyName, first |-> NoItems,
           clean |-> TRUE]

ServerFree == request = NoRequest
Els == 1 .. Len(open_snapshots)

(***************************************************************************)
(* Requests.                                                               *)
(***************************************************************************)
Element(n, sname, items) == [name |-> n, sname |-> sname, items |-> items]

(* snapshot_action_create_handler: a name may be open already. *)
Create(n) ==
  /\ ServerFree
  /\ Len(open_snapshots) < MaxOpen
  /\ open_snapshots' = Append(open_snapshots, Element(n, n, NoItems))
  /\ UNCHANGED <<fileVars, request, tool>>

(* snapshot_action_append_handler: to every element of that name. *)
AppendValue(n, k, v) ==
  /\ ServerFree
  /\ \E i \in Els : open_snapshots[i].name = n
  /\ \A i \in Els : CountOf(open_snapshots[i].items, k, v) < MaxCount
  /\ open_snapshots' =
       [i \in Els |-> IF open_snapshots[i].name = n
                      THEN [open_snapshots[i] EXCEPT !.items = Appended(@, k, v)]
                      ELSE open_snapshots[i]]
  /\ UNCHANGED <<fileVars, request, tool>>

(* snapshot_action_open_handler: with or without the parameter "as". *)
Open(n, as) ==
  /\ ServerFree
  /\ Len(open_snapshots) < MaxOpen
  /\ StartRead(Server, n)
  /\ request' = [NoRequest EXCEPT !.op = "open", !.name = n, !.as = as]
  /\ UNCHANGED <<open_snapshots, tool>>

(* open_as is 1 when the parameter is absent: the element then gets the    *)
(* empty string that mg_get_var left for it.  Otherwise it gets the name   *)
(* of the file, and its snapshot keeps a name that was freed, in whose     *)
(* place the copy for the element may have been put, or anything.          *)
OpenReturns ==
  /\ request.op = "open"
  /\ job[Server].at = "done"
  /\ job[Server].ok
  /\ LET n == IF request.as THEN request.name ELSE EmptyName
     IN \E sname \in IF request.as THEN {n, Freed} ELSE {n} :
          open_snapshots' = Append(open_snapshots, Element(n, sname, job[Server].items))
  /\ request' = NoRequest
  /\ job' = [job EXCEPT ![Server] = Idle]
  /\ UNCHANGED <<dirs, zips, tool>>

WriteElement(els, i) ==
  IF els[i].sname = Freed
  THEN /\ job' = [job EXCEPT ![Server] = [Idle EXCEPT !.at = "freed", !.name = EmptyName]]
       /\ UNCHANGED <<dirs, zips>>
  ELSE StartWrite(Server, els[i].sname, els[i].items)

(* mkdir is asked for anything, and fails; or the server dies (Crash), of  *)
(* reading the name or of freeing it again.                                *)
FreedName ==
  /\ job[Server].at = "freed"
  /\ Fail(Server)
  /\ UNCHANGED <<dirs, zips, open_snapshots, request, tool>>

(* snapshot_action_close_handler goes on with the next element of that     *)
(* name from place i on.                                                   *)
CloseFrom(els, n, i) ==
  LET matching == {j \in i .. Len(els) : els[j].name = n}
  IN IF matching = {}
     THEN /\ request' = NoRequest
          /\ job' = [job EXCEPT ![Server] = Idle]
          /\ UNCHANGED <<dirs, zips>>
     ELSE \E next \in matching :
          /\ \A j \in matching : next <= j
          /\ request' = [NoRequest EXCEPT !.op = "close", !.name = n, !.el = next]
          /\ WriteElement(els, next)

Close(n) ==
  /\ ServerFree
  /\ \E i \in Els : open_snapshots[i].name = n
  /\ CloseFrom(open_snapshots, n, 1)
  /\ UNCHANGED <<open_snapshots, tool>>

(* LL_DELETE of the element at place i *)
Without_ItsName(list, i) == SelectSeq(list, LAMBDA el : el.name # list[i].name)
Without(list, i) == RemoveAt(list, i)

(* The element is deleted and the walk goes on behind it; CDL_FOREACH ends *)
(* the walk when the next element is the head, which it is when the        *)
(* element was the head.                                                   *)
CloseWritten ==
  /\ request.op = "close"
  /\ job[Server].at = "done"
  /\ job[Server].ok
  /\ open_snapshots' = Without(open_snapshots, request.el)
  /\ CloseFrom(open_snapshots', request.name,
               IF request.el = 1 THEN MaxOpen + 1 ELSE request.el)
  /\ UNCHANGED tool

(* "Error closing snapshot": it stays open. *)
CloseFailed ==
  /\ request.op = "close"
  /\ job[Server].at = "done"
  /\ ~job[Server].ok
  /\ CloseFrom(open_snapshots, request.name, request.el + 1)
  /\ UNCHANGED <<open_snapshots, tool>>

(***************************************************************************)
(* The tool: run_from_stream with -s, and -s with -c.  Printing a snapshot *)
(* is the first half of a comparison.                                      *)
(***************************************************************************)
ToolFree == job[Tool].at = "idle"

ToolRecords(n, items) ==
  /\ ToolFree
  /\ StartWrite(Tool, n, items)
  /\ tool' = [NoTool EXCEPT !.op = "record", !.a = n]
  /\ UNCHANGED <<open_snapshots, request>>

(* faup_snapshot_compare reads a, then b. *)
ToolCompares(a, b) ==
  /\ ToolFree
  /\ StartRead(Tool, a)
  /\ tool' = [NoTool EXCEPT !.op = "compare", !.a = a, !.b = b]
  /\ UNCHANGED <<open_snapshots, request>>

CompareReadsNext ==
  /\ tool.op = "compare"
  /\ job[Tool].at = "done"
  /\ job[Tool].ok
  /\ StartRead(Tool, tool.b)
  /\ tool' = [tool EXCEPT !.op = "compare_b", !.first = job[Tool].items,
                          !.clean = ~job[Tool].disturbed /\ ~job[Tool].leftover]
  /\ UNCHANGED <<open_snapshots, request>>

ToolEnds ==
  /\ job[Tool].at = "done"
  /\ tool.op = "compare" => ~job[Tool].ok
  /\ job' = [job EXCEPT ![Tool] = Idle]
  /\ tool' = NoTool
  /\ UNCHANGED <<dirs, zips, open_snapshots, request>>

(***************************************************************************)
(* A process ends: killed, or by a null pointer.                           *)
(***************************************************************************)
Ends(p) ==
  /\ job' = [job EXCEPT ![p] = Idle]
  /\ open_snapshots' = IF p = Server THEN <<>> ELSE open_snapshots
  /\ request' = IF p = Server THEN NoRequest ELSE request
  /\ tool' = IF p = Tool THEN NoTool ELSE tool
  /\ UNCHANGED <<dirs, zips>>

(* After the last step of a job on the files it is as well after its end. *)
Crash(p) ==
  /\ job[p].at # "done"
  /\ p = Tool => ~ToolFree
  /\ Ends(p)

ItemVanishes(p) == ItemVanished(p) /\ Ends(p)

(* The snapshot could not be read; its name is freed before that is seen. *)
OpenCrashes ==
  /\ request.op = "open"
  /\ job[Server].at = "done"
  /\ ~job[Server].ok
  /\ Ends(Server)

Init ==
  /\ dirs = [n \in {EmptyName} |-> NoItems]
  /\ zips = Recorded
  /\ job = [p \in Procs |-> Idle]
  /\ open_snapshots = <<>>
  /\ request = NoRequest
  /\ tool = NoTool

FileStep(p) == Step(p) /\ UNCHANGED <<open_snapshots, request, tool>>

ServerReturns == OpenReturns \/ CloseWritten \/ CloseFailed \/ OpenCrashes

Files == Names \ ({EmptyName} \cup DOMAIN Recorded)

Request ==
  \E n \in Names \ DOMAIN Recorded :
    \/ n \in Files /\ Create(n)
    \/ \E k \in Keys, v \in Values : AppendValue(n, k, v)
    \/ \E as \in BOOLEAN : n \in Files /\ Open(n, as)
    \/ Close(n)

ToolRuns ==
  \E n \in Files :
    \/ \E items \in ToolItems : ToolRecords(n, items)
    \/ \E o \in DOMAIN Recorded : ToolCompares(n, o) \/ ToolCompares(o, n)

Next ==
  \/ Request
  \/ ServerReturns
  \/ FreedName
  \/ ToolRuns \/ CompareReadsNext \/ ToolEnds
  \/ \E p \in Procs : FileStep(p) \/ Crash(p) \/ ItemVanishes(p)

Spec == Init /\ [][Next]_vars

(***************************************************************************)
(* Properties.  What a process does to a name is left out of them when     *)
(* another process was at the same name and one of the two was reading     *)
(* (disturbed): a reader removes the directory of both.                    *)
(***************************************************************************)

(* A write that returns 0 left an archive of exactly its items (and _info),*)
(* even after a process died half-way through the same name, unless there  *)
(* was an archive before: then nothing is written, see ClosedIsSaved.      *)
Saved(n, items) == n \in DOMAIN zips /\ zips[n] = With(items, Info, NoCounts)
Wrote(p) == IF p = Server THEN request.op = "close" ELSE tool.op = "record"
Returns(p) == job[p].at = "done" /\ job[p].ok /\ ~job[p].disturbed

WrittenUnlessTaken ==
  \A p \in Procs :
    Wrote(p) /\ Returns(p) /\ ~job[p].taken => Saved(job[p].name, job[p].items)

(* A snapshot the server forgets when it closes is in its archive, unless  *)
(* one was there before: deleting from the list inside the loop over it    *)
(* never takes the wrong one of two snapshots of a name, nor both.         *)
Occurs(el, list) == Cardinality({i \in DOMAIN list : list[i] = el})

ForgetsWhatIsSaved ==
  [][ request.op = "close" /\ Returns(Server) /\ ~job[Server].taken =>
        \A i \in Els :
          LET el == open_snapshots[i]
          IN Occurs(el, open_snapshots') < Occurs(el, open_snapshots) =>
               Saved(el.sname, el.items) ]_vars

(* What is read from an archive is what is in it, but for the items no     *)
(* reader looks at and those with an empty value, where reading stops;     *)
(* never something of an earlier reading or a half-unpacked item, unless a *)
(* directory was left over by a process that died.                         *)
Shown(n) == {k \in DOMAIN FilesOf(zips, n) \ (HiddenKeys \cup {Info}) : EmptyValue \notin DOMAIN zips[n][k]}
Reads(p) == IF p = Server THEN request.op = "open" ELSE tool.op # "record"

ReadsArchive ==
  \A p \in Procs :
    Reads(p) /\ Returns(p) /\ ~job[p].leftover =>
      LET items == job[p].items
          archive == FilesOf(zips, job[p].name)
      IN /\ \A k \in DOMAIN items : items[k] = Restrict(archive[k], DOMAIN items[k])
         /\ \A k \in Shown(job[p].name) : k \in DOMAIN items /\ items[k] = archive[k]
         /\ DOMAIN items \cap HiddenKeys = {}

(* A comparison shows "everything we have in Snapshot B which is not in    *)
(* Snapshot A" (snapshot-file.c), with the counts of B, of the archives as *)
(* they are at its end, though A was read long before.                     *)
CompareIsDifference ==
  tool.op = "compare_b" /\ Returns(Tool) /\ tool.clean /\ ~job[Tool].leftover =>
    LET result == Compared(tool.first, job[Tool].items)
        a == FilesOf(zips, tool.a)
        b == FilesOf(zips, tool.b)
    IN /\ \A k \in DOMAIN result : DOMAIN result[k] # {} /\ DOMAIN result[k] \subseteq DOMAIN b[k]
       /\ \A k \in Shown(tool.b) : k \in Shown(tool.a) \/ k \notin DOMAIN a =>
            \A v \in DOMAIN b[k] :
              CountOf(result, k, v) = IF CountOf(a, k, v) = 0 THEN b[k][v] ELSE 0

(* "Snapshot 'foobar' closed with success" (doc/snapshots.md): it is in    *)
(* the archive of its name.                                                *)
ClosedIsSaved ==
  request.op = "close" /\ Returns(Server) => Saved(job[Server].name, job[Server].items)

=============================================================================
