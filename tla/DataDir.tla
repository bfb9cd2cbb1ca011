------------------------------ MODULE DataDir -------------------------------
(***************************************************************************)
(* lib/datadir.c and what is kept in data directories: the list of TLDs,   *)
(* which `faup -u' replaces (lib/tld.c), and the modules that are enabled, *)
(* which every run of faup loads (lib/modules.c) and `faup $ modules'      *)
(* enables and disables (tools/shell.c).                                   *)
(*                                                                         *)
(* There are three data directories: $FAUP_DATA_DIR, ~/.faup, and the one  *)
(* of the installation.  Any number of processes run commands on them; a   *)
(* step of a process is what it does between two accesses of files that    *)
(* another process can change.  A process may die between any two steps.   *)
(*                                                                         *)
(* A list is a sequence of two blocks, each with the number of the         *)
(* download it came from: 1 in the list that is installed, 0 in a block    *)
(* that was never written.                                                 *)
(***************************************************************************)
EXTENDS Integers, Sequences, FiniteSets, Functions, FunctionUpdate

CONSTANTS Procs,
          Modules,      \* names of modules
          Available,    \* those that are in the installation's modules_available
          Installed,    \* those that the installation may enable
          LongNames,    \* names of more than FAUP_MODULE_NAME_MAXLEN characters
          MaxUpdates, MaxCommands   \* bounds

ASSUME ModulesAreNames ==
  Available \cup Installed \cup LongNames \subseteq Modules /\ IsFiniteSet(Modules)

Roots == {"env", "home", "global"}

VARIABLES env_set,    \* FAUP_DATA_DIR is set, for every process
          writable,   \* the directories the user can write
          list,       \* the lists that exist, by directory
          available,  \* modules_available: "code", or "empty"
          enabled,    \* the directories modules_enabled that exist, by data
                      \* directory: a symbolic link or a file for each name
          job,        \* the command of every process
          updates,    \* number of the last update that began
          commands,   \* number of commands that began
          torn,       \* history: directories whose list is being written, or was
                      \* left half written
          newest,     \* history: the last update that ended well
          status      \* history: what the last command made of a module, when it
                      \* succeeded and no other meddled

fileVars == <<list, available, enabled>>
settings == <<env_set, writable>>
history == <<updates, commands, torn, newest, status>>
vars == <<settings, fileVars, job, history>>

Idle == [cmd |-> "none", at |-> "idle", m |-> "", root |-> "", got |-> <<>>, version |-> 0,
         nb |-> 0, slots |-> <<>>, todo |-> {}, ok |-> FALSE, disturbed |-> FALSE]

Running(p) == job[p].at \notin {"idle", "done"}

(***************************************************************************)
(* faup_datadir_get_file: what a name stands for.                          *)
(***************************************************************************)
GetFile_GlobalFirst(in_home) ==
  IF env_set THEN "env" ELSE "global"

GetFile(in_home) ==
  IF env_set THEN "env" ELSE IF in_home THEN "home" ELSE "global"

ListRoot == GetFile("home" \in DOMAIN list)
EnabledRoot == GetFile("home" \in DOMAIN enabled)

EntriesOf(r) == IF r \in DOMAIN enabled THEN enabled[r] ELSE <<>>
Entry(r, m) == IF m \in DOMAIN EntriesOf(r) THEN enabled[r][m] ELSE "none"

(* stat and fopen follow links *)
Readable(r, m) ==
  Entry(r, m) = "file" \/ (Entry(r, m) = "link" /\ m \in DOMAIN available)

EntryRoot(m) == GetFile(Readable("home", m))

Link(r, m, kind) == enabled' = [enabled EXCEPT ![r] = With(@, m, kind)]
Unlink(r, m) ==
  enabled' = IF Entry(r, m) = "none" THEN enabled
             ELSE [enabled EXCEPT ![r] = Restrict(@, DOMAIN @ \ {m})]

(***************************************************************************)
(* Commands begin.  Two of them disturb one another when one changes what  *)
(* the other works on.                                                     *)
(***************************************************************************)
Changing == {"enable", "disable"}

Disturb(a, b) ==
  \/ {a.cmd, b.cmd} = {"load", "update"}
  \/ {a.cmd, b.cmd} \cap Changing # {} /\ "load" \in {a.cmd, b.cmd}
  \/ {a.cmd, b.cmd} \subseteq Changing /\ a.m = b.m

Begin(p, command) ==
  LET clash == {q \in Procs \ {p} : Disturb(job[q], command)}
      cut == command.cmd = "load" /\ ListRoot \in torn
  IN /\ ~Running(p)
     /\ commands < MaxCommands
     /\ commands' = commands + 1
     /\ job' = [q \in Procs |->
                  IF q = p THEN [command EXCEPT !.disturbed = cut \/ \E o \in clash : Running(o)]
                  ELSE IF q \in clash THEN [job[q] EXCEPT !.disturbed = TRUE]
                  ELSE job[q]]

Goto(p, at) == job' = [job EXCEPT ![p].at = at]
End(p, ok) == job' = [job EXCEPT ![p].at = "done", ![p].ok = ok]

(***************************************************************************)
(* faup -u                                                                 *)
(***************************************************************************)
Update(p) ==
  /\ updates < MaxUpdates
  /\ updates' = updates + 1
  /\ Begin(p, [Idle EXCEPT !.cmd = "update", !.at = "open", !.version = updates'])
  /\ UNCHANGED <<settings, fileVars, torn, newest, status>>

(* faup_datadir_file_to_write opens what it finds for writing, which       *)
(* empties it, and leaves it to ~/.faup when that fails.                   *)
FileToWrite == (IF ListRoot \in writable THEN {ListRoot} ELSE {"home"}) \cap writable

WritesTo(q, r) == Running(q) /\ job[q].cmd = "update" /\ job[q].root = r

OpenToWrite(p) ==
  /\ job[p].at = "open" /\ job[p].cmd = "update"
  /\ IF FileToWrite = {}
     THEN End(p, FALSE) /\ UNCHANGED <<list, torn>>
     ELSE \E r \in FileToWrite :
            /\ list' = With(list, r, <<>>)
            /\ torn' = torn \cup {r}
            /\ job' = [q \in Procs |->
                 IF q = p THEN [job[p] EXCEPT !.at = "first", !.root = r,
                                              !.disturbed = \E o \in Procs : WritesTo(o, r)]
                 ELSE IF WritesTo(q, r) THEN [job[q] EXCEPT !.disturbed = TRUE]
                 ELSE job[q]]
  /\ UNCHANGED <<settings, available, enabled, updates, commands, newest, status>>

(* The process becomes curl, which empties the file once more when the     *)
(* answer begins to arrive.                                                *)
FirstBlock(p) ==
  /\ job[p].at = "first"
  /\ list' = [list EXCEPT ![job[p].root] = <<job[p].version>>]
  /\ Goto(p, "second")
  /\ UNCHANGED <<settings, available, enabled, history>>

(* Another update may have emptied the file meanwhile. *)
SecondBlock(p) ==
  /\ job[p].at = "second"
  /\ list' = [list EXCEPT ![job[p].root] =
                <<IF @ = <<>> THEN 0 ELSE @[1], job[p].version>>]
  /\ End(p, TRUE)
  /\ newest' = IF job[p].disturbed THEN newest ELSE job[p].version
  /\ torn' = IF job[p].disturbed THEN torn ELSE torn \ {job[p].root}
  /\ UNCHANGED <<settings, available, enabled, updates, commands, status>>

(***************************************************************************)
(* Every run of faup: the list is read (faup_options_new), then the        *)
(* modules are loaded (faup_init).                                         *)
(***************************************************************************)
Load(p) ==
  /\ Begin(p, [Idle EXCEPT !.cmd = "load", !.at = "list", !.version = newest])
  /\ UNCHANGED <<settings, fileVars, updates, torn, newest, status>>

OpenList(p) ==
  /\ job[p].at = "list"
  /\ job' = [job EXCEPT ![p].at = "read", ![p].root = ListRoot]
  /\ UNCHANGED <<settings, fileVars, history>>

ReadBlock_WaitsForMore(p) ==
  LET blocks == IF job[p].root \in DOMAIN list THEN list[job[p].root] ELSE <<>>
      n == Len(job[p].got)
  IN /\ job[p].at = "read"
     /\ n < Len(blocks)
     /\ job' = [job EXCEPT ![p].got = Append(@, blocks[n + 1]),
                           ![p].at = IF n = 1 THEN "count" ELSE @]
     /\ UNCHANGED <<settings, fileVars, history>>

(* fgets, until there is nothing more; a list that does not exist is empty *)
ReadBlock(p) ==
  LET blocks == IF job[p].root \in DOMAIN list THEN list[job[p].root] ELSE <<>>
      n == Len(job[p].got)
  IN /\ job[p].at = "read"
     /\ job' = [job EXCEPT ![p].got = IF n < Len(blocks) THEN Append(@, blocks[n + 1]) ELSE @,
                           ![p].at = IF n = 1 \/ Len(blocks) <= n THEN "count" ELSE @]
     /\ UNCHANGED <<settings, fileVars, history>>

(* faup_modules_load_from_datadir: faup_modules_foreach_filelist without a *)
(* callback only counts.  It never gets past a name that is too long: it   *)
(* goes on with the same entry.                                            *)
Endless(names) == names \cap LongNames # {}

CountModules(p) ==
  LET names == DOMAIN EntriesOf(EnabledRoot)
  IN /\ job[p].at = "count"
     /\ ~Endless(names)
     /\ job' = IF names = {} THEN [job EXCEPT ![p].at = "done", ![p].ok = TRUE]
               ELSE [job EXCEPT ![p].at = "opendir", ![p].nb = Cardinality(names)]
     /\ UNCHANGED <<settings, fileVars, history>>

RegisterModules_Installed(p) ==
  /\ job[p].at = "opendir"
  /\ ~Endless(DOMAIN EntriesOf("global"))
  /\ job' = [job EXCEPT ![p].at = "register", ![p].todo = DOMAIN EntriesOf("global"),
                        ![p].root = "global"]
  /\ UNCHANGED <<settings, fileVars, history>>

(* The second time for the modules themselves, wherever they are now. *)
RegisterModules(p) ==
  LET names == DOMAIN EntriesOf(EnabledRoot)
  IN /\ job[p].at = "opendir"
     /\ ~Endless(names)
     /\ job' = [job EXCEPT ![p].at = "register", ![p].todo = names, ![p].root = EnabledRoot]
     /\ UNCHANGED <<settings, fileVars, history>>

Slot(r, m) ==
  IF ~Readable(r, m) THEN "failed"
  ELSE IF Entry(r, m) = "link" THEN available[m]
  ELSE IF r = "home" THEN "empty" ELSE "code"

(* faup_module_register takes a slot for the module also when it fails, and *)
(* does not look at how many there are.                                     *)
Register(p) ==
  /\ job[p].at = "register"
  /\ IF job[p].todo = {} THEN End(p, TRUE)
     ELSE \E m \in job[p].todo :
            job' = [job EXCEPT ![p].todo = @ \ {m},
                               ![p].slots = Append(@, <<m, Slot(job[p].root, m)>>)]
  /\ UNCHANGED <<settings, fileVars, history>>

(***************************************************************************)
(* faup $ modules enable m                                                 *)
(***************************************************************************)
Change(p, cmd, m) ==
  /\ Begin(p, [Idle EXCEPT !.cmd = cmd, !.at = IF cmd = "enable" THEN "create" ELSE "find", !.m = m])
  /\ status' = [status EXCEPT ![m] = "unknown"]
  /\ UNCHANGED <<settings, fileVars, updates, torn, newest>>

(* faup_datadir_get_file_from_home tries whether a file of that name can   *)
(* be written; when it is a link, that empties the module it points to.    *)
(* When there is no directory for it, it is made.                          *)
CreateInHome(p) ==
  LET m == job[p].m
  IN /\ job[p].at = "create"
     /\ CASE "home" \notin writable ->
               End(p, FALSE) /\ UNCHANGED <<available, enabled>>
          [] "home" \in writable /\ "home" \notin DOMAIN enabled ->
               /\ enabled' = With(enabled, "home", <<>>)
               /\ UNCHANGED <<available, job>>
          [] OTHER ->
               IF Entry("home", m) # "link"
               THEN Link("home", m, "file") /\ Goto(p, "unlink") /\ UNCHANGED available
               ELSE IF "global" \in writable
               THEN /\ available' = With(available, m, "empty")
                    /\ Goto(p, "unlink")
                    /\ UNCHANGED enabled
               ELSE End(p, FALSE) /\ UNCHANGED <<available, enabled>>
     /\ UNCHANGED <<settings, list, history>>

UnlinkCreated(p) ==
  /\ job[p].at = "unlink"
  /\ Unlink("home", job[p].m)
  /\ Goto(p, "symlink")
  /\ UNCHANGED <<settings, list, available, history>>

Symlink(p) ==
  /\ job[p].at = "symlink"
  /\ IF Entry("home", job[p].m) = "none"
     THEN Link("home", job[p].m, "link") /\ Goto(p, "check")
     ELSE End(p, FALSE) /\ UNCHANGED enabled
  /\ UNCHANGED <<settings, list, available, history>>

StatusAfter(p, now) ==
  status' = IF job[p].disturbed THEN status ELSE [status EXCEPT ![job[p].m] = now]

CheckLink_NoUndo(p) ==
  /\ job[p].at = "check"
  /\ End(p, Readable("home", job[p].m))
  /\ StatusAfter(p, IF Readable("home", job[p].m) THEN "on" ELSE "undone")
  /\ UNCHANGED <<settings, fileVars, updates, commands, torn, newest>>

(* "Module enabled with success!", when the link can be opened; else it is *)
(* removed.                                                                *)
CheckLink(p) ==
  /\ job[p].at = "check"
  /\ IF Readable("home", job[p].m)
     THEN End(p, TRUE) /\ StatusAfter(p, "on")
     ELSE Goto(p, "undo") /\ UNCHANGED status
  /\ UNCHANGED <<settings, fileVars, updates, commands, torn, newest>>

UndoLink(p) ==
  /\ job[p].at = "undo"
  /\ Unlink("home", job[p].m)
  /\ End(p, FALSE)
  /\ StatusAfter(p, "undone")
  /\ UNCHANGED <<settings, list, available, updates, commands, torn, newest>>

(***************************************************************************)
(* faup $ modules disable m                                                *)
(***************************************************************************)
FindEntry(p) ==
  /\ job[p].at = "find"
  /\ job' = [job EXCEPT ![p].at = "remove", ![p].root = EntryRoot(job[p].m)]
  /\ UNCHANGED <<settings, fileVars, history>>

RemoveEntry(p) ==
  LET r == job[p].root
      there == r \in writable /\ Entry(r, job[p].m) # "none"
  IN /\ job[p].at = "remove"
     /\ End(p, there)
     /\ IF there THEN Unlink(r, job[p].m) /\ StatusAfter(p, "off")
        ELSE UNCHANGED <<enabled, status>>
     /\ UNCHANGED <<settings, list, available, updates, commands, torn, newest>>

(***************************************************************************)

(* A process is killed, or finds no curl or no network, and leaves          *)
(* everything as it is.                                                    *)
Dies(p) ==
  /\ Running(p)
  /\ job' = [job EXCEPT ![p] = Idle]
  /\ UNCHANGED <<settings, fileVars, history>>

Step(p) ==
  \/ OpenToWrite(p) \/ FirstBlock(p) \/ SecondBlock(p)
  \/ OpenList(p) \/ ReadBlock(p) \/ CountModules(p) \/ RegisterModules(p) \/ Register(p)
  \/ CreateInHome(p) \/ UnlinkCreated(p) \/ Symlink(p) \/ CheckLink(p) \/ UndoLink(p)
  \/ FindEntry(p) \/ RemoveEntry(p)

GivenRoots == IF env_set THEN {"env", "global"} ELSE {"global"}

Init ==
  /\ env_set \in BOOLEAN
  /\ writable \in SUBSET (GivenRoots \cup {"home"})
  /\ list \in {[r \in roots |-> <<1, 1>>] : roots \in {GivenRoots, GivenRoots \cup {"home"}}}
  /\ available = [m \in Available |-> "code"]
  /\ \E names \in SUBSET Installed :
       /\ enabled = [r \in GivenRoots |-> [m \in names |-> "file"]]
       /\ status = [m \in Modules |-> IF m \in names THEN "installed" ELSE "unknown"]
  /\ job = [p \in Procs |-> Idle]
  /\ updates = 1 /\ commands = 0
  /\ torn = {} /\ newest = 1

Next ==
  \E p \in Procs :
    \/ Update(p) \/ Load(p)
    \/ \E m \in Modules \ LongNames, cmd \in Changing : Change(p, cmd, m)
    \/ Step(p)
    \/ Dies(p)

(* A process does what it does without waiting for anything. *)
Spec == Init /\ [][Next]_vars /\ \A p \in Procs : WF_vars(Step(p))

(***************************************************************************)
(* Properties.                                                             *)
(***************************************************************************)
Loaded(p) == job[p].cmd = "load" /\ job[p].at = "done" /\ ~job[p].disturbed

(* What is loaded is the whole of the last list that was downloaded, from  *)
(* wherever it is looked for, unless an update is at work or was cut short *)
(* there: the directory an update writes is the one that is read.          *)
(* When FAUP_DATA_DIR cannot be written the update goes to ~/.faup, where  *)
(* nothing looks for it.                                                   *)
UpdateIsRead ==
  \A p \in Procs :
    Loaded(p) /\ (env_set => "env" \in writable) =>
      job[p].got = <<job[p].version, job[p].version>>

(* The directory is walked twice, once to count the modules and once to    *)
(* load them: the second walk fills exactly the slots that were counted,   *)
(* and none with a module that cannot be read (whose path would be freed   *)
(* twice), unless a module is enabled or disabled meanwhile or a process   *)
(* was killed while it enabled one that does not exist.                    *)
EverySlotRegistered ==
  \A p \in Procs :
    Loaded(p) =>
      /\ Len(job[p].slots) = job[p].nb
      /\ \A i \in DOMAIN job[p].slots :
           job[p].slots[i][2] = "failed" => job[p].slots[i][1] \notin DOMAIN available

(* A module that was enabled, or disabled, with success is, or is not,     *)
(* among those that the next run loads, whatever was enabled before and    *)
(* wherever; and it is loaded with its code, unless that was emptied by    *)
(* enabling it when it was enabled already.  FAUP_DATA_DIR, which enabling *)
(* ignores, is left out; and the first module that is enabled in ~/.faup   *)
(* hides those that the installation enables.  (Disabling what the         *)
(* installation enables leaves a link to nothing in ~/.faup, where a       *)
(* process that was killed put one: it fills a slot, but loads nothing.)   *)
SlotsOf(p, m) == {job[p].slots[i][2] : i \in {k \in DOMAIN job[p].slots : job[p].slots[k][1] = m}}

LoadsWhatIsEnabled ==
  \A p \in Procs, m \in Modules :
    Loaded(p) =>
      /\ status[m] = "on" /\ ~env_set => SlotsOf(p, m) = {available[m]}
      /\ status[m] = "off" => SlotsOf(p, m) \subseteq {"failed"}
      /\ status[m] = "undone" /\ ~env_set => SlotsOf(p, m) = {}
      /\ status[m] = "installed" /\ EnabledRoot # "home" => SlotsOf(p, m) = {"code"}

(* Loading ends, whatever happens to the files meanwhile, unless the       *)
(* installation has a module with a name that is too long.                 *)
NoLongName == \A r \in DOMAIN enabled : ~Endless(DOMAIN enabled[r])

LoadEnds ==
  \A p \in Procs :
    job[p].cmd = "load" /\ NoLongName ~> job[p].at \in {"done", "idle"}

=============================================================================
