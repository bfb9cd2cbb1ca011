----------------------------- MODULE ToolProofs ------------------------------
(***************************************************************************)
(* What `faup -u' and `faup $ modules' leave in the data directories, and  *)
(* what a run of faup loads from them: for any number of processes,        *)
(* modules, commands and updates, whatever is killed.  Then what faup      *)
(* prints: for any command line, any stream and any modules.               *)
(***************************************************************************)
EXTENDS DataDir, Cli, FiniteSetTheorems, SequenceTheorems, WellFoundedInduction, TLAPS

UpdateAt == {"open", "first", "second"}
LoadAt == {"list", "read", "count", "opendir", "register"}
EnableAt == {"create", "unlink", "symlink", "check", "undo"}
DisableAt == {"find", "remove"}

CommandNames == {"none", "update", "load", "enable", "disable"}
Places == UpdateAt \cup LoadAt \cup EnableAt \cup DisableAt \cup {"idle", "done"}
Contents == {"code", "empty"}
Slots == Seq(Modules \X {"code", "empty", "failed"})

Jobs ==
  [cmd : CommandNames, at : Places, m : Modules \cup {""}, root : Roots \cup {""}, got : Seq(Nat),
   version : Nat, nb : Nat, slots : Slots, todo : SUBSET Modules, ok : BOOLEAN,
   disturbed : BOOLEAN]

(***************************************************************************)
(* Types: what every process and every directory looks like.               *)
(***************************************************************************)
Settings == env_set \in BOOLEAN /\ writable \subseteq Roots

FilesTyped ==
  /\ DOMAIN list \subseteq Roots /\ \A r \in DOMAIN list : list[r] \in Seq(Nat)
  /\ DOMAIN available \subseteq Modules /\ \A m \in DOMAIN available : available[m] \in Contents
  /\ DOMAIN enabled \subseteq Roots
  /\ \A r \in DOMAIN enabled :
       /\ DOMAIN enabled[r] \subseteq Modules
       /\ \A m \in DOMAIN enabled[r] : enabled[r][m] \in {"file", "link"}
  /\ {"global"} \cup (IF env_set THEN {"env"} ELSE {}) \subseteq DOMAIN list \cap DOMAIN enabled

HistoryTyped ==
  /\ updates \in Nat /\ newest \in Nat /\ torn \subseteq Roots
  /\ status \in [Modules -> {"installed", "unknown", "on", "off", "undone"}]

(* Every command has places of its own; what it needs there exists. *)
PlaceOK(p) ==
  /\ job[p].at \in UpdateAt => job[p].cmd = "update"
  /\ job[p].at \in LoadAt => job[p].cmd = "load"
  /\ job[p].at \in EnableAt => job[p].cmd = "enable"
  /\ job[p].at \in DisableAt => job[p].cmd = "disable"
  /\ job[p].cmd \in Changing => job[p].m \in Modules
  /\ job[p].at \in {"first", "second"} => job[p].root \in DOMAIN list \cap writable
  /\ job[p].at \in EnableAt \ {"create"} => "home" \in DOMAIN enabled
  /\ job[p].at = "remove" => job[p].root \in Roots

Typed ==
  /\ Settings /\ FilesTyped /\ HistoryTyped
  /\ job \in [Procs -> Jobs]
  /\ \A p \in Procs : PlaceOK(p)

LEMMA IdleTyped == Idle \in Jobs
  BY EmptySeq DEF Idle, Jobs, CommandNames, Places, Slots

LEMMA TypedInit == Init => Typed
<1> SUFFICES ASSUME Init PROVE Typed
  OBVIOUS
<1>1. Settings BY DEF Init, Settings, Roots, GivenRoots
<1>2. FilesTyped
  <2>1. DOMAIN list \subseteq Roots /\ GivenRoots \subseteq DOMAIN list BY DEF Init, Roots, GivenRoots
  <2>2. \A r \in DOMAIN list : list[r] \in Seq(Nat)
    <3>1. PICK roots : list = [r \in roots |-> <<1, 1>>] BY DEF Init
    <3> QED BY <3>1
  <2>3. PICK names \in SUBSET Installed : enabled = [r \in GivenRoots |-> [m \in names |-> "file"]]
    BY DEF Init
  <2>4. /\ DOMAIN enabled = GivenRoots /\ GivenRoots \subseteq Roots
        /\ \A r \in DOMAIN enabled :
             /\ DOMAIN enabled[r] \subseteq Modules
             /\ \A m \in DOMAIN enabled[r] : enabled[r][m] \in {"file", "link"}
    BY <2>3, ModulesAreNames DEF Roots, GivenRoots
  <2>5. DOMAIN available \subseteq Modules /\ \A m \in DOMAIN available : available[m] \in Contents
    BY ModulesAreNames DEF Init, Contents
  <2> QED BY <2>1, <2>2, <2>4, <2>5 DEF FilesTyped, GivenRoots
<1>3. HistoryTyped BY DEF Init, HistoryTyped
<1>4. job \in [Procs -> Jobs] BY IdleTyped DEF Init
<1>5. ASSUME NEW p \in Procs PROVE PlaceOK(p)
  <2>1. job[p].at = "idle" /\ job[p].cmd = "none" BY <1>5 DEF Init, Idle
  <2> QED BY <2>1 DEF PlaceOK, UpdateAt, LoadAt, EnableAt, DisableAt, Changing
<1> QED BY <1>1, <1>2, <1>3, <1>4, <1>5 DEF Typed

(***************************************************************************)
(* What a step does to the processes: those that do not take it go on as   *)
(* they are, but may be disturbed.                                         *)
(***************************************************************************)
Marked(j) == [j EXCEPT !.disturbed = TRUE]

Others(p) == \A q \in Procs \ {p} : job'[q] \in {job[q], Marked(job[q])}

BeginStep(p) ==
  Update(p) \/ Load(p) \/ \E m \in Modules \ LongNames, cmd \in Changing : Change(p, cmd, m)

LEMMA MarkedTyped ==
  ASSUME NEW j \in Jobs
  PROVE  /\ Marked(j) \in Jobs /\ Marked(j).disturbed
         /\ Marked(j).cmd = j.cmd /\ Marked(j).at = j.at /\ Marked(j).m = j.m
         /\ Marked(j).root = j.root /\ Marked(j).got = j.got /\ Marked(j).version = j.version
         /\ Marked(j).nb = j.nb /\ Marked(j).slots = j.slots /\ Marked(j).todo = j.todo
BY DEF Marked, Jobs

LEMMA BeginTyped ==
  ASSUME NEW p \in Procs, job \in [Procs -> Jobs], NEW command \in Jobs, Begin(p, command)
  PROVE  /\ job' \in [Procs -> Jobs] /\ Others(p)
         /\ \E d \in BOOLEAN :
              /\ job'[p] = [command EXCEPT !.disturbed = d]
              /\ ~d => /\ \A q \in Procs \ {p} : Disturb(job[q], command) => ~Running(q)
                       /\ command.cmd = "load" => ListRoot \notin torn
         /\ \A q \in Procs \ {p} : Disturb(job[q], command) => job'[q] = Marked(job[q])
<1> DEFINE clash == {q \in Procs \ {p} : Disturb(job[q], command)}
           d == (command.cmd = "load" /\ ListRoot \in torn) \/ \E o \in clash : Running(o)
<1>1. job' = [q \in Procs |-> IF q = p THEN [command EXCEPT !.disturbed = d]
                              ELSE IF q \in clash THEN Marked(job[q]) ELSE job[q]]
  BY DEF Begin, Marked
<1>2. d \in BOOLEAN OBVIOUS
<1>3. ~d => /\ \A q \in Procs \ {p} : Disturb(job[q], command) => ~Running(q)
            /\ command.cmd = "load" => ListRoot \notin torn
  OBVIOUS
<1> HIDE DEF d
<1>4. [command EXCEPT !.disturbed = d] \in Jobs BY <1>2 DEF Jobs
<1>5. \A q \in Procs : job[q] \in Jobs /\ Marked(job[q]) \in Jobs BY MarkedTyped
<1> QED BY <1>1, <1>2, <1>3, <1>4, <1>5 DEF Others

LEMMA OwnStep ==
  ASSUME NEW p \in Procs, job \in [Procs -> Jobs], NEW j \in Jobs, job' = [job EXCEPT ![p] = j]
  PROVE  job' \in [Procs -> Jobs] /\ Others(p) /\ job'[p] = j
BY DEF Others

LEMMA TypedStep ==
  ASSUME Typed, NEW p \in Procs, UNCHANGED settings, FilesTyped', HistoryTyped',
         job' \in [Procs -> Jobs], Others(p), PlaceOK(p)',
         DOMAIN list \subseteq DOMAIN list', "home" \in DOMAIN enabled => "home" \in DOMAIN enabled'
  PROVE  Typed'
<1>1. Settings' BY DEF Typed, Settings, settings
<1>2. ASSUME NEW q \in Procs, q # p PROVE PlaceOK(q)'
  <2>1. /\ job'[q].at = job[q].at /\ job'[q].cmd = job[q].cmd /\ job'[q].m = job[q].m
        /\ job'[q].root = job[q].root
    BY <1>2, MarkedTyped DEF Others, Typed
  <2>2. PlaceOK(q) BY DEF Typed
  <2> QED BY <2>1, <2>2 DEF PlaceOK, settings
<1> QED BY <1>1, <1>2 DEF Typed

LEMMA TypedBegin ==
  ASSUME Typed, NEW p \in Procs, BeginStep(p)
  PROVE  Typed'
<1> USE DEF BeginStep
<1> USE DEF fileVars
<1>0. Idle \in Jobs BY IdleTyped
<1>1. CASE Update(p)
  <2> DEFINE command == [Idle EXCEPT !.cmd = "update", !.at = "open", !.version = updates']
  <2>1. updates' \in Nat BY <1>1 DEF Update, Typed, HistoryTyped
  <2>2. command \in Jobs BY <1>0, <2>1 DEF Jobs, CommandNames, Places, UpdateAt
  <2>3. job' \in [Procs -> Jobs] /\ Others(p) /\ \E d \in BOOLEAN : job'[p] = [command EXCEPT !.disturbed = d]
    BY <1>1, <2>2, BeginTyped DEF Update, Typed
  <2>4. PlaceOK(p)' BY <2>3 DEF PlaceOK, Idle, UpdateAt, LoadAt, EnableAt, DisableAt, Changing
  <2>5. FilesTyped' BY <1>1 DEF Update, Typed, FilesTyped, settings
  <2>6. HistoryTyped' BY <1>1, <2>1 DEF Update, Typed, HistoryTyped
  <2> QED BY <1>1, <2>3, <2>4, <2>5, <2>6, TypedStep DEF Update
<1>2. CASE Load(p)
  <2> DEFINE command == [Idle EXCEPT !.cmd = "load", !.at = "list", !.version = newest]
  <2>2. command \in Jobs BY <1>0 DEF Jobs, CommandNames, Places, LoadAt, Typed, HistoryTyped
  <2>3. job' \in [Procs -> Jobs] /\ Others(p) /\ \E d \in BOOLEAN : job'[p] = [command EXCEPT !.disturbed = d]
    BY <1>2, <2>2, BeginTyped DEF Load, Typed
  <2>4. PlaceOK(p)' BY <2>3 DEF PlaceOK, Idle, UpdateAt, LoadAt, EnableAt, DisableAt, Changing
  <2>5. FilesTyped' BY <1>2 DEF Load, Typed, FilesTyped, settings
  <2>6. HistoryTyped' BY <1>2 DEF Load, Typed, HistoryTyped
  <2> QED BY <1>2, <2>3, <2>4, <2>5, <2>6, TypedStep DEF Load
<1>3. ASSUME NEW m \in Modules \ LongNames, NEW cmd \in Changing, Change(p, cmd, m)
      PROVE  Typed'
  <2> DEFINE command == [Idle EXCEPT !.cmd = cmd, !.at = IF cmd = "enable" THEN "create" ELSE "find", !.m = m]
  <2>2. command \in Jobs BY <1>0 DEF Jobs, CommandNames, Places, EnableAt, DisableAt, Changing
  <2>3. job' \in [Procs -> Jobs] /\ Others(p) /\ \E d \in BOOLEAN : job'[p] = [command EXCEPT !.disturbed = d]
    BY <1>3, <2>2, BeginTyped DEF Change, Typed
  <2>4. PlaceOK(p)' BY <2>3 DEF PlaceOK, Idle, UpdateAt, LoadAt, EnableAt, DisableAt, Changing
  <2>5. FilesTyped' BY <1>3 DEF Change, Typed, FilesTyped, settings
  <2>6. HistoryTyped' BY <1>3 DEF Change, Typed, HistoryTyped
  <2> QED BY <1>3, <2>3, <2>4, <2>5, <2>6, TypedStep DEF Change
<1> QED BY <1>1, <1>2, <1>3

LEMMA TypedUpdate ==
  ASSUME Typed, NEW p \in Procs, OpenToWrite(p) \/ FirstBlock(p) \/ SecondBlock(p)
  PROVE  Typed'
<1> USE DEF fileVars, history, Goto, End
<1>0. job \in [Procs -> Jobs] /\ job[p] \in Jobs /\ FilesTyped /\ HistoryTyped /\ Settings /\ PlaceOK(p)
  BY DEF Typed
<1>1. CASE OpenToWrite(p)
  <2>1. CASE FileToWrite = {}
    <3> DEFINE j == [job[p] EXCEPT !.at = "done", !.ok = FALSE]
    <3>1. j \in Jobs BY <1>0 DEF Jobs, Places
    <3>2. job' = [job EXCEPT ![p] = j] /\ UNCHANGED <<settings, fileVars, history>>
      BY <1>1, <2>1 DEF OpenToWrite
    <3>3. job' \in [Procs -> Jobs] /\ Others(p) /\ job'[p] = j BY <1>0, <3>1, <3>2, OwnStep
    <3>4. PlaceOK(p)' BY <1>0, <1>1, <3>3 DEF OpenToWrite, PlaceOK, UpdateAt, LoadAt, EnableAt, DisableAt, Changing, Jobs
    <3> QED BY <1>0, <3>2, <3>3, <3>4, TypedStep DEF FilesTyped, HistoryTyped, settings
  <2>2. CASE FileToWrite # {}
    <3>1. PICK r \in FileToWrite :
            /\ list' = With(list, r, <<>>)
            /\ torn' = torn \cup {r}
            /\ job' = [q \in Procs |->
                 IF q = p THEN [job[p] EXCEPT !.at = "first", !.root = r,
                                              !.disturbed = \E o \in Procs : WritesTo(o, r)]
                 ELSE IF WritesTo(q, r) THEN [job[q] EXCEPT !.disturbed = TRUE]
                 ELSE job[q]]
      BY <1>1, <2>2 DEF OpenToWrite
    <3>2. r \in Roots /\ r \in writable BY <1>0 DEF FileToWrite, Settings
    <3>3. (\E o \in Procs : WritesTo(o, r)) \in BOOLEAN OBVIOUS
    <3>4. [job[p] EXCEPT !.at = "first", !.root = r, !.disturbed = \E o \in Procs : WritesTo(o, r)] \in Jobs
      BY <1>0, <3>2, <3>3 DEF Jobs, Places, UpdateAt
    <3>5. \A q \in Procs : job[q] \in Jobs /\ Marked(job[q]) \in Jobs BY <1>0, MarkedTyped
    <3>6. job' \in [Procs -> Jobs] /\ Others(p) BY <3>1, <3>4, <3>5 DEF Others, Marked
    <3>7. DOMAIN list' = DOMAIN list \cup {r} /\ \A x \in DOMAIN list' : list'[x] \in Seq(Nat)
      <4>1. <<>> \in Seq(Nat) BY EmptySeq
      <4>2. DOMAIN list' = DOMAIN list \cup {r} BY <3>1 DEF With
      <4>3. ASSUME NEW x \in DOMAIN list' PROVE list'[x] \in {<<>>, list[x]} /\ (x # r => x \in DOMAIN list /\ list'[x] = list[x])
        BY <3>1, <4>2, <4>3 DEF With
      <4>4. list'[r] = <<>> BY <3>1 DEF With
      <4> QED BY <1>0, <4>1, <4>2, <4>3, <4>4 DEF FilesTyped
    <3>8. job'[p].at = "first" /\ job'[p].root = r /\ job'[p].cmd = "update" 
      BY <1>0, <1>1, <3>1 DEF OpenToWrite, PlaceOK, UpdateAt, Jobs
    <3>9. PlaceOK(p)'
      BY <1>1, <3>2, <3>7, <3>8 DEF OpenToWrite, PlaceOK, UpdateAt, LoadAt, EnableAt, DisableAt, Changing, settings
    <3>10. FilesTyped' BY <1>0, <1>1, <3>2, <3>7 DEF OpenToWrite, FilesTyped, settings
    <3>11. HistoryTyped' BY <1>0, <1>1, <3>1, <3>2 DEF OpenToWrite, HistoryTyped
    <3> QED BY <1>1, <3>6, <3>7, <3>9, <3>10, <3>11, TypedStep DEF OpenToWrite
  <2> QED BY <2>1, <2>2
<1>2. CASE FirstBlock(p)
  <2> DEFINE j == [job[p] EXCEPT !.at = "second"]
  <2>1. j \in Jobs BY <1>0 DEF Jobs, Places, UpdateAt
  <2>2. job' = [job EXCEPT ![p] = j] BY <1>2 DEF FirstBlock
  <2>3. job' \in [Procs -> Jobs] /\ Others(p) /\ job'[p] = j BY <1>0, <2>1, <2>2, OwnStep
  <2>4. DOMAIN list' = DOMAIN list /\ \A x \in DOMAIN list' : list'[x] \in Seq(Nat)
    <3>1. job[p].root \in DOMAIN list /\ job[p].version \in Nat
      BY <1>0, <1>2 DEF FirstBlock, PlaceOK, Jobs
    <3>2. list' = [list EXCEPT ![job[p].root] = <<job[p].version>>] BY <1>2 DEF FirstBlock
    <3>3. <<job[p].version>> \in Seq(Nat) BY <3>1
    <3> QED BY <1>0, <3>1, <3>2, <3>3 DEF FilesTyped
  <2>5. PlaceOK(p)'
    BY <1>0, <1>2, <2>3, <2>4 DEF FirstBlock, PlaceOK, UpdateAt, LoadAt, EnableAt, DisableAt, Changing, settings, Jobs
  <2>6. FilesTyped' /\ HistoryTyped' BY <1>0, <1>2, <2>4 DEF FirstBlock, FilesTyped, HistoryTyped, settings
  <2> QED BY <1>2, <2>3, <2>4, <2>5, <2>6, TypedStep DEF FirstBlock
<1>3. CASE SecondBlock(p)
  <2> DEFINE j == [job[p] EXCEPT !.at = "done", !.ok = TRUE]
  <2>1. j \in Jobs BY <1>0 DEF Jobs, Places
  <2>2. job' = [job EXCEPT ![p] = j] BY <1>3 DEF SecondBlock
  <2>3. job' \in [Procs -> Jobs] /\ Others(p) /\ job'[p] = j BY <1>0, <2>1, <2>2, OwnStep
  <2>4. DOMAIN list' = DOMAIN list /\ \A x \in DOMAIN list' : list'[x] \in Seq(Nat)
    <3>1. job[p].root \in DOMAIN list /\ job[p].version \in Nat
      BY <1>0, <1>3 DEF SecondBlock, PlaceOK, Jobs
    <3> DEFINE old == list[job[p].root]
               first == IF old = <<>> THEN 0 ELSE old[1]
    <3>2. old \in Seq(Nat) BY <1>0, <3>1 DEF FilesTyped
    <3>3. first \in Nat BY <3>2, EmptySeq
    <3>4. list' = [list EXCEPT ![job[p].root] = <<first, job[p].version>>] BY <1>3 DEF SecondBlock
    <3> HIDE DEF first
    <3>5. <<first, job[p].version>> \in Seq(Nat) BY <3>1, <3>3
    <3> QED BY <1>0, <3>1, <3>4, <3>5 DEF FilesTyped
  <2>5. PlaceOK(p)'
    BY <1>0, <1>3, <2>3, <2>4 DEF SecondBlock, PlaceOK, UpdateAt, LoadAt, EnableAt, DisableAt, Changing, settings, Jobs
  <2>6. FilesTyped' BY <1>0, <1>3, <2>4 DEF SecondBlock, FilesTyped, settings
  <2>7. HistoryTyped' BY <1>0, <1>3 DEF SecondBlock, HistoryTyped, Jobs
  <2> QED BY <1>3, <2>3, <2>4, <2>5, <2>6, <2>7, TypedStep DEF SecondBlock
<1> QED BY <1>1, <1>2, <1>3

LEMMA TypedLoad ==
  ASSUME Typed, NEW p \in Procs,
         OpenList(p) \/ ReadBlock(p) \/ CountModules(p) \/ RegisterModules(p) \/ Register(p)
  PROVE  Typed'
<1> USE DEF fileVars, history, Goto, End
<1>0. job \in [Procs -> Jobs] /\ job[p] \in Jobs /\ FilesTyped /\ HistoryTyped /\ Settings /\ PlaceOK(p)
  BY DEF Typed
<1>1. UNCHANGED <<settings, fileVars, history>>
  BY DEF OpenList, ReadBlock, CountModules, RegisterModules, Register
<1>2. job[p].at \in LoadAt /\ job[p].cmd = "load"
  BY <1>0 DEF OpenList, ReadBlock, CountModules, RegisterModules, Register, PlaceOK, LoadAt
<1>3. SUFFICES \E j \in Jobs : job' = [job EXCEPT ![p] = j] /\ j.cmd = "load" /\ j.at \in LoadAt \cup {"done"}
  <2>1. PICK j \in Jobs : job' = [job EXCEPT ![p] = j] /\ j.cmd = "load" /\ j.at \in LoadAt \cup {"done"}
    BY <1>3
  <2>2. job' \in [Procs -> Jobs] /\ Others(p) /\ job'[p] = j BY <1>0, <2>1, OwnStep
  <2>3. PlaceOK(p)' BY <2>1, <2>2 DEF PlaceOK, UpdateAt, LoadAt, EnableAt, DisableAt, Changing
  <2>4. FilesTyped' /\ HistoryTyped' BY <1>0, <1>1 DEF FilesTyped, HistoryTyped, settings
  <2> QED BY <1>1, <2>2, <2>3, <2>4, TypedStep
<1>4. EnabledRoot \in Roots /\ ListRoot \in Roots BY DEF EnabledRoot, ListRoot, GetFile, Roots
<1>5. DOMAIN EntriesOf(EnabledRoot) \subseteq Modules
  <2>1. CASE EnabledRoot \in DOMAIN enabled BY <1>0, <2>1 DEF EntriesOf, FilesTyped
  <2>2. CASE EnabledRoot \notin DOMAIN enabled BY <2>2 DEF EntriesOf
  <2> QED BY <2>1, <2>2
<1>6. CASE OpenList(p)
  <2> DEFINE j == [job[p] EXCEPT !.at = "read", !.root = ListRoot]
  <2> HIDE DEF ListRoot
  <2>1. j \in Jobs BY <1>0, <1>4 DEF Jobs, Places, LoadAt
  <2>2. job' = [job EXCEPT ![p] = j] BY <1>6 DEF OpenList
  <2>3. j.cmd = "load" /\ j.at = "read" BY <1>0, <1>2 DEF Jobs
  <2> QED BY <2>1, <2>2, <2>3 DEF LoadAt
<1>7. CASE ReadBlock(p)
  <2> DEFINE blocks == IF job[p].root \in DOMAIN list THEN list[job[p].root] ELSE <<>>
             n == Len(job[p].got)
             got == IF n < Len(blocks) THEN Append(job[p].got, blocks[n + 1]) ELSE job[p].got
             at == IF n = 1 \/ Len(blocks) <= n THEN "count" ELSE job[p].at
             j == [job[p] EXCEPT !.got = got, !.at = at]
  <2>1. blocks \in Seq(Nat) BY <1>0, EmptySeq DEF FilesTyped
  <2>2. job[p].got \in Seq(Nat) BY <1>0 DEF Jobs
  <2> HIDE DEF blocks
  <2>3. got \in Seq(Nat) BY <2>1, <2>2
  <2>4. at \in LoadAt BY <1>2 DEF LoadAt
  <2>5. job' = [job EXCEPT ![p] = j] BY <1>7 DEF ReadBlock, blocks
  <2> HIDE DEF got, at
  <2>6. j \in Jobs BY <1>0, <2>3, <2>4 DEF Jobs, Places
  <2>7. j.cmd = "load" /\ j.at = at BY <1>0, <1>2 DEF Jobs
  <2> QED BY <2>4, <2>5, <2>6, <2>7
<1>8. CASE CountModules(p)
  <2> DEFINE names == DOMAIN EntriesOf(EnabledRoot)
             done == [job[p] EXCEPT !.at = "done", !.ok = TRUE]
             counted == [job[p] EXCEPT !.at = "opendir", !.nb = Cardinality(names)]
  <2>1. Cardinality(names) \in Nat BY <1>5, ModulesAreNames, FS_Subset, FS_CardinalityType
  <2>2. job' = [job EXCEPT ![p] = done] \/ job' = [job EXCEPT ![p] = counted]
    BY <1>8 DEF CountModules
  <2> HIDE DEF names
  <2>3. done \in Jobs /\ counted \in Jobs BY <1>0, <2>1 DEF Jobs, Places, LoadAt
  <2>4. done.cmd = "load" /\ done.at = "done" /\ counted.cmd = "load" /\ counted.at = "opendir"
    BY <1>0, <1>2 DEF Jobs
  <2> QED BY <2>2, <2>3, <2>4 DEF LoadAt
<1>9. CASE RegisterModules(p)
  <2> DEFINE names == DOMAIN EntriesOf(EnabledRoot)
             j == [job[p] EXCEPT !.at = "register", !.todo = names, !.root = EnabledRoot]
  <2>1. job' = [job EXCEPT ![p] = j] BY <1>9 DEF RegisterModules
  <2> HIDE DEF names, EnabledRoot
  <2>2. j \in Jobs BY <1>0, <1>4, <1>5 DEF Jobs, Places, LoadAt, names
  <2>3. j.cmd = "load" /\ j.at = "register" BY <1>0, <1>2 DEF Jobs
  <2> QED BY <2>1, <2>2, <2>3 DEF LoadAt
<1>10. CASE Register(p)
  <2>1. CASE job[p].todo = {}
    <3> DEFINE j == [job[p] EXCEPT !.at = "done", !.ok = TRUE]
    <3>1. job' = [job EXCEPT ![p] = j] BY <1>10, <2>1 DEF Register
    <3>2. j \in Jobs /\ j.cmd = "load" /\ j.at = "done" BY <1>0, <1>2 DEF Jobs, Places
    <3> QED BY <3>1, <3>2
  <2>2. CASE job[p].todo # {}
    <3>1. PICK m \in job[p].todo :
            job' = [job EXCEPT ![p].todo = @ \ {m},
                               ![p].slots = Append(@, <<m, Slot(job[p].root, m)>>)]
      BY <1>10, <2>2 DEF Register
    <3> DEFINE s == Append(job[p].slots, <<m, Slot(job[p].root, m)>>)
               j == [job[p] EXCEPT !.todo = @ \ {m}, !.slots = s]
    <3>2. m \in Modules BY <1>0 DEF Jobs
    <3>3. Slot(job[p].root, m) \in {"code", "empty", "failed"}
      BY <1>0 DEF Slot, Readable, Entry, FilesTyped, Contents
    <3>4. s \in Slots
      <4>1. job[p].slots \in Slots BY <1>0 DEF Jobs
      <4> HIDE DEF Slot
      <4> QED BY <3>2, <3>3, <4>1 DEF Slots
    <3>5. job' = [job EXCEPT ![p] = j] BY <3>1
    <3> HIDE DEF s
    <3>6. j \in Jobs /\ j.cmd = "load" /\ j.at \in LoadAt BY <1>0, <1>2, <3>4 DEF Jobs
    <3> QED BY <3>5, <3>6
  <2> QED BY <2>1, <2>2
<1> QED BY <1>6, <1>7, <1>8, <1>9, <1>10

(***************************************************************************)
(* What linking and unlinking does to the entries of every directory.      *)
(***************************************************************************)
Now(r, m, kind) == \A x, k : Entry(x, k)' = IF x = r /\ k = m THEN kind ELSE Entry(x, k)

LEMMA Linked ==
  ASSUME FilesTyped, NEW r \in DOMAIN enabled, NEW m \in Modules, NEW kind \in {"file", "link"},
         Link(r, m, kind), UNCHANGED <<list, available, env_set>>
  PROVE  FilesTyped' /\ DOMAIN enabled' = DOMAIN enabled /\ Now(r, m, kind)
<1>1. DOMAIN enabled' = DOMAIN enabled /\ enabled'[r] = With(enabled[r], m, kind)
      /\ \A x \in DOMAIN enabled \ {r} : enabled'[x] = enabled[x]
  BY DEF Link
<1>2. DOMAIN enabled'[r] = DOMAIN enabled[r] \cup {m} /\ enabled'[r][m] = kind
      /\ \A k \in DOMAIN enabled[r] \ {m} : enabled'[r][k] = enabled[r][k]
  BY <1>1 DEF With
<1>3. ASSUME NEW x \in DOMAIN enabled'
      PROVE  DOMAIN enabled'[x] \subseteq Modules /\ \A k \in DOMAIN enabled'[x] : enabled'[x][k] \in {"file", "link"}
  <2>1. DOMAIN enabled[x] \subseteq Modules /\ \A k \in DOMAIN enabled[x] : enabled[x][k] \in {"file", "link"}
    BY <1>1 DEF FilesTyped
  <2> QED BY <1>1, <1>2, <2>1
<1>4. FilesTyped' BY <1>1, <1>3 DEF FilesTyped
<1>5. ASSUME NEW x, NEW k PROVE Entry(x, k)' = IF x = r /\ k = m THEN kind ELSE Entry(x, k)
  <2>1. CASE x \notin DOMAIN enabled BY <1>1, <2>1 DEF Entry, EntriesOf
  <2>2. CASE x \in DOMAIN enabled \ {r} BY <1>1, <2>2 DEF Entry, EntriesOf
  <2>3. CASE x = r BY <1>1, <1>2, <2>3 DEF Entry, EntriesOf
  <2> QED BY <2>1, <2>2, <2>3
<1> QED BY <1>1, <1>4, <1>5 DEF Now

LEMMA Unlinked ==
  ASSUME FilesTyped, NEW r, NEW m, Unlink(r, m), UNCHANGED <<list, available, env_set>>
  PROVE  FilesTyped' /\ DOMAIN enabled' = DOMAIN enabled /\ Now(r, m, "none")
<1>1. CASE Entry(r, m) = "none"
  <2>1. enabled' = enabled BY <1>1 DEF Unlink
  <2>2. \A x, k : Entry(x, k)' = Entry(x, k) BY <2>1 DEF Entry, EntriesOf
  <2> QED BY <1>1, <2>1, <2>2 DEF FilesTyped, Now
<1>2. CASE Entry(r, m) # "none"
  <2>0. r \in DOMAIN enabled /\ m \in DOMAIN enabled[r] BY <1>2 DEF Entry, EntriesOf
  <2>1. DOMAIN enabled' = DOMAIN enabled /\ enabled'[r] = Restrict(enabled[r], DOMAIN enabled[r] \ {m})
        /\ \A x \in DOMAIN enabled \ {r} : enabled'[x] = enabled[x]
    BY <1>2, <2>0 DEF Unlink
  <2>2. DOMAIN enabled'[r] = DOMAIN enabled[r] \ {m}
        /\ \A k \in DOMAIN enabled[r] \ {m} : enabled'[r][k] = enabled[r][k]
    BY <2>1 DEF Restrict
  <2>3. ASSUME NEW x \in DOMAIN enabled'
        PROVE  DOMAIN enabled'[x] \subseteq Modules /\ \A k \in DOMAIN enabled'[x] : enabled'[x][k] \in {"file", "link"}
    <3>1. DOMAIN enabled[x] \subseteq Modules /\ \A k \in DOMAIN enabled[x] : enabled[x][k] \in {"file", "link"}
      BY <2>1 DEF FilesTyped
    <3> QED BY <2>1, <2>2, <3>1
  <2>4. FilesTyped' BY <2>1, <2>3 DEF FilesTyped
  <2>5. ASSUME NEW x, NEW k PROVE Entry(x, k)' = IF x = r /\ k = m THEN "none" ELSE Entry(x, k)
    <3>1. CASE x \notin DOMAIN enabled BY <2>0, <2>1, <3>1 DEF Entry, EntriesOf
    <3>2. CASE x \in DOMAIN enabled \ {r} BY <2>1, <3>2 DEF Entry, EntriesOf
    <3>3. CASE x = r BY <2>0, <2>1, <2>2, <3>3 DEF Entry, EntriesOf
    <3> QED BY <3>1, <3>2, <3>3
  <2> QED BY <2>1, <2>4, <2>5 DEF Now
<1> QED BY <1>1, <1>2

(* The first module that is enabled makes ~/.faup's directory of them. *)
LEMMA HomeMade ==
  ASSUME FilesTyped, enabled' = With(enabled, "home", <<>>), "home" \notin DOMAIN enabled,
         UNCHANGED <<list, available, env_set>>
  PROVE  FilesTyped' /\ DOMAIN enabled' = DOMAIN enabled \cup {"home"} /\ \A x, k : Entry(x, k)' = Entry(x, k)
<1>0. DOMAIN <<>> = {} OBVIOUS
<1>1. DOMAIN enabled' = DOMAIN enabled \cup {"home"} /\ enabled'["home"] = <<>>
      /\ \A x \in DOMAIN enabled : enabled'[x] = enabled[x]
  BY DEF With
<1>2. \A x \in DOMAIN enabled' : /\ DOMAIN enabled'[x] \subseteq Modules
                                 /\ \A k \in DOMAIN enabled'[x] : enabled'[x][k] \in {"file", "link"}
  BY <1>0, <1>1 DEF FilesTyped
<1>3. FilesTyped' BY <1>1, <1>2 DEF FilesTyped, Roots
<1>4. ASSUME NEW x, NEW k PROVE Entry(x, k)' = Entry(x, k)
  BY <1>0, <1>1 DEF Entry, EntriesOf
<1> QED BY <1>1, <1>3, <1>4

(* A module that is enabled once more is emptied. *)
LEMMA CodeEmptied ==
  ASSUME FilesTyped, NEW m \in Modules, available' = With(available, m, "empty"),
         UNCHANGED <<list, enabled, env_set>>
  PROVE  FilesTyped' /\ DOMAIN available' = DOMAIN available \cup {m}
         /\ \A x \in DOMAIN available \ {m} : available'[x] = available[x]
<1>1. DOMAIN available' = DOMAIN available \cup {m} /\ available'[m] = "empty"
      /\ \A x \in DOMAIN available \ {m} : available'[x] = available[x]
  BY DEF With
<1>2. \A x \in DOMAIN available' : available'[x] \in Contents
  BY <1>1 DEF FilesTyped, Contents
<1> QED BY <1>1, <1>2 DEF FilesTyped

LEMMA TypedChange ==
  ASSUME Typed, NEW p \in Procs,
         \/ CreateInHome(p) \/ UnlinkCreated(p) \/ Symlink(p) \/ CheckLink(p) \/ UndoLink(p)
         \/ FindEntry(p) \/ RemoveEntry(p)
  PROVE  Typed'
<1> USE DEF fileVars, history, Goto, End
<1>0. job \in [Procs -> Jobs] /\ job[p] \in Jobs /\ FilesTyped /\ HistoryTyped /\ Settings /\ PlaceOK(p)
  BY DEF Typed
<1>1. UNCHANGED <<settings, list, updates, torn, newest, env_set>>
  BY DEF CreateInHome, UnlinkCreated, Symlink, CheckLink, UndoLink, FindEntry, RemoveEntry, settings
<1>2. /\ job[p].at \in EnableAt => job[p].cmd = "enable" /\ job[p].m \in Modules
      /\ job[p].at \in DisableAt => job[p].cmd = "disable" /\ job[p].m \in Modules
      /\ job[p].at \in EnableAt \ {"create"} => "home" \in DOMAIN enabled
  BY <1>0 DEF PlaceOK, Changing
<1>3. HistoryTyped'
  <2>1. status' = status \/ \E now \in {"on", "undone", "off"} : status' = [status EXCEPT ![job[p].m] = now]
    BY DEF CreateInHome, UnlinkCreated, Symlink, CheckLink, UndoLink, FindEntry, RemoveEntry, StatusAfter
  <2>2. status' \in [Modules -> {"installed", "unknown", "on", "off", "undone"}]
    BY <1>0, <2>1 DEF HistoryTyped
  <2> QED BY <1>0, <1>1, <2>2 DEF HistoryTyped
<1> DEFINE Fits(j) ==
             /\ j \in Jobs /\ job' = [job EXCEPT ![p] = j] /\ j.cmd = job[p].cmd /\ j.m = job[p].m
             /\ \/ j.at = "done"
                \/ j.at = job[p].at /\ j.root = job[p].root
                \/ j.at \in EnableAt /\ j.cmd = "enable" /\ "home" \in DOMAIN enabled
                \/ j.at = "remove" /\ j.cmd = "disable" /\ j.root \in Roots
<1>4. SUFFICES FilesTyped' /\ DOMAIN enabled \subseteq DOMAIN enabled' /\ \E j : Fits(j)
  <2>1. PICK j : Fits(j) BY <1>4
  <2>2. job' \in [Procs -> Jobs] /\ Others(p) /\ job'[p] = j BY <1>0, <2>1, OwnStep
  <2>3. PlaceOK(p)'
    BY <1>0, <1>1, <1>4, <2>1, <2>2
    DEF PlaceOK, UpdateAt, LoadAt, EnableAt, DisableAt, Changing, settings
  <2> QED BY <1>1, <1>3, <1>4, <2>2, <2>3, TypedStep
<1>5. ASSUME NEW at \in EnableAt, job[p].at \in EnableAt, "home" \in DOMAIN enabled,
             job' = [job EXCEPT ![p] = [job[p] EXCEPT !.at = at]]
      PROVE  \E j : Fits(j)
  <2>1. Fits([job[p] EXCEPT !.at = at]) BY <1>0, <1>2, <1>5 DEF Jobs, Places
  <2> QED BY <2>1
<1>6. ASSUME NEW ok \in BOOLEAN, job' = [job EXCEPT ![p] = [job[p] EXCEPT !.at = "done", !.ok = ok]]
      PROVE  \E j : Fits(j)
  <2>1. Fits([job[p] EXCEPT !.at = "done", !.ok = ok]) BY <1>0, <1>6 DEF Jobs, Places
  <2> QED BY <2>1
<1> HIDE DEF Fits
<1>8. CASE CreateInHome(p)
  <2>0. job[p].at = "create" /\ job[p].cmd = "enable" /\ job[p].m \in Modules
    BY <1>2, <1>8 DEF CreateInHome, EnableAt
  <2> DEFINE goes == job' = [job EXCEPT ![p] = [job[p] EXCEPT !.at = "unlink"]]
             fails == job' = [job EXCEPT ![p] = [job[p] EXCEPT !.at = "done", !.ok = FALSE]]
  <2>1. \/ fails /\ UNCHANGED <<available, enabled>>
        \/ /\ "home" \notin DOMAIN enabled /\ enabled' = With(enabled, "home", <<>>)
           /\ UNCHANGED <<available, job>>
        \/ "home" \in DOMAIN enabled /\ goes /\ Link("home", job[p].m, "file") /\ UNCHANGED available
        \/ /\ "home" \in DOMAIN enabled /\ goes /\ available' = With(available, job[p].m, "empty")
           /\ UNCHANGED enabled
    BY <1>8 DEF CreateInHome
  <2>2. FilesTyped' /\ DOMAIN enabled \subseteq DOMAIN enabled'
    <3>1. CASE UNCHANGED <<available, enabled>> BY <1>0, <1>1, <3>1 DEF FilesTyped
    <3>2. CASE "home" \notin DOMAIN enabled /\ enabled' = With(enabled, "home", <<>>) /\ UNCHANGED available
      BY <1>0, <1>1, <3>2, HomeMade
    <3>3. CASE "home" \in DOMAIN enabled /\ Link("home", job[p].m, "file") /\ UNCHANGED available
      BY <1>0, <1>1, <2>0, <3>3, Linked
    <3>4. CASE available' = With(available, job[p].m, "empty") /\ UNCHANGED enabled
      BY <1>0, <1>1, <2>0, <3>4, CodeEmptied
    <3> QED BY <2>1, <3>1, <3>2, <3>3, <3>4
  <2>3. CASE fails BY <1>6, <2>2, <2>3
  <2>4. CASE UNCHANGED job
    <3>1. Fits(job[p]) BY <1>0, <2>4 DEF Fits
    <3> QED BY <2>2, <3>1
  <2>5. CASE goes /\ "home" \in DOMAIN enabled BY <1>5, <2>0, <2>2, <2>5 DEF EnableAt
  <2> QED BY <2>1, <2>3, <2>4, <2>5
<1>9. CASE UnlinkCreated(p)
  <2>0. job[p].at = "unlink" BY <1>9 DEF UnlinkCreated
  <2>1. FilesTyped' /\ DOMAIN enabled' = DOMAIN enabled BY <1>0, <1>1, <1>9, Unlinked DEF UnlinkCreated
  <2>2. job' = [job EXCEPT ![p] = [job[p] EXCEPT !.at = "symlink"]] BY <1>9 DEF UnlinkCreated
  <2> QED BY <1>2, <1>5, <2>0, <2>1, <2>2 DEF EnableAt
<1>10. CASE Symlink(p)
  <2>0. job[p].at = "symlink" BY <1>10 DEF Symlink
  <2>1. FilesTyped' /\ DOMAIN enabled' = DOMAIN enabled
    <3>1. CASE UNCHANGED enabled BY <1>0, <1>1, <1>10, <3>1 DEF Symlink, FilesTyped
    <3>2. CASE Link("home", job[p].m, "link") BY <1>0, <1>1, <1>2, <1>10, <2>0, <3>2, Linked DEF Symlink, EnableAt
    <3> QED BY <1>10, <3>1, <3>2 DEF Symlink
  <2>2. \/ job' = [job EXCEPT ![p] = [job[p] EXCEPT !.at = "check"]]
        \/ job' = [job EXCEPT ![p] = [job[p] EXCEPT !.at = "done", !.ok = FALSE]]
    BY <1>10 DEF Symlink
  <2> QED BY <1>2, <1>5, <1>6, <2>0, <2>1, <2>2 DEF EnableAt
<1>11. CASE CheckLink(p)
  <2>0. job[p].at = "check" BY <1>11 DEF CheckLink
  <2>1. FilesTyped' /\ DOMAIN enabled' = DOMAIN enabled
    BY <1>0, <1>1, <1>11 DEF CheckLink, FilesTyped
  <2>2. \/ job' = [job EXCEPT ![p] = [job[p] EXCEPT !.at = "undo"]]
        \/ job' = [job EXCEPT ![p] = [job[p] EXCEPT !.at = "done", !.ok = TRUE]]
    BY <1>11 DEF CheckLink
  <2> QED BY <1>2, <1>5, <1>6, <2>0, <2>1, <2>2 DEF EnableAt
<1>12. CASE UndoLink(p)
  <2>1. FilesTyped' /\ DOMAIN enabled' = DOMAIN enabled BY <1>0, <1>1, <1>12, Unlinked DEF UndoLink
  <2>2. job' = [job EXCEPT ![p] = [job[p] EXCEPT !.at = "done", !.ok = FALSE]] BY <1>12 DEF UndoLink
  <2> QED BY <1>6, <2>1, <2>2
<1>13. CASE FindEntry(p)
  <2>0. job[p].at = "find" /\ job[p].cmd = "disable" BY <1>2, <1>13 DEF FindEntry, DisableAt
  <2>1. FilesTyped' /\ DOMAIN enabled' = DOMAIN enabled
    BY <1>0, <1>1, <1>13 DEF FindEntry, FilesTyped
  <2>2. EntryRoot(job[p].m) \in Roots BY DEF EntryRoot, GetFile, Roots
  <2> DEFINE j == [job[p] EXCEPT !.at = "remove", !.root = EntryRoot(job[p].m)]
  <2>3. job' = [job EXCEPT ![p] = j] BY <1>13 DEF FindEntry
  <2> HIDE DEF EntryRoot
  <2>4. Fits(j) BY <1>0, <2>0, <2>2, <2>3 DEF Fits, Jobs, Places, DisableAt
  <2> QED BY <2>1, <2>4
<1>14. CASE RemoveEntry(p)
  <2> DEFINE r == job[p].root
             there == r \in writable /\ Entry(r, job[p].m) # "none"
  <2>1. FilesTyped' /\ DOMAIN enabled' = DOMAIN enabled
    <3>1. CASE there BY <1>0, <1>1, <1>14, <3>1, Unlinked DEF RemoveEntry
    <3>2. CASE ~there BY <1>0, <1>1, <1>14, <3>2 DEF RemoveEntry, FilesTyped
    <3> QED BY <3>1, <3>2
  <2>2. job' = [job EXCEPT ![p] = [job[p] EXCEPT !.at = "done", !.ok = there]] BY <1>14 DEF RemoveEntry
  <2>3. there \in BOOLEAN OBVIOUS
  <2> HIDE DEF there
  <2> QED BY <1>6, <2>1, <2>2, <2>3
<1> QED BY <1>8, <1>9, <1>10, <1>11, <1>12, <1>13, <1>14

LEMMA TypedDies ==
  ASSUME Typed, NEW p \in Procs, Dies(p)
  PROVE  Typed'
<1>1. job' \in [Procs -> Jobs] /\ Others(p) /\ job'[p] = Idle
  BY IdleTyped, OwnStep DEF Dies, Typed
<1>2. PlaceOK(p)'
  <2>1. Idle.at = "idle" /\ Idle.cmd = "none" BY DEF Idle
  <2>2. job'[p].at = "idle" /\ job'[p].cmd = "none" BY <1>1, <2>1
  <2> QED BY <2>2 DEF PlaceOK, UpdateAt, LoadAt, EnableAt, DisableAt, Changing
<1>3. FilesTyped' /\ HistoryTyped'
  BY DEF Dies, Typed, FilesTyped, HistoryTyped, fileVars, history, settings
<1> QED BY <1>1, <1>2, <1>3, TypedStep DEF Dies, fileVars

LEMMA TypedNext == Typed /\ [Next]_vars => Typed'
<1> SUFFICES ASSUME Typed, [Next]_vars PROVE Typed'
  OBVIOUS
<1>1. CASE UNCHANGED vars
  BY <1>1 DEF vars, Typed, Settings, FilesTyped, HistoryTyped, PlaceOK, fileVars, history, settings
<1>2. CASE Next
  BY <1>2, TypedBegin, TypedUpdate, TypedLoad, TypedChange, TypedDies DEF Next, Step, BeginStep
<1> QED BY <1>1, <1>2

(***************************************************************************)
(* What a step of each command leaves alone.                               *)
(***************************************************************************)
UpdateStep(p) == OpenToWrite(p) \/ FirstBlock(p) \/ SecondBlock(p)

LoadStep(p) == OpenList(p) \/ ReadBlock(p) \/ CountModules(p) \/ RegisterModules(p) \/ Register(p)

ChangeStep(p) ==
  \/ CreateInHome(p) \/ UnlinkCreated(p) \/ Symlink(p) \/ CheckLink(p) \/ UndoLink(p)
  \/ FindEntry(p) \/ RemoveEntry(p)

Keeps(p) ==
  /\ job'[p].cmd = job[p].cmd /\ job'[p].m = job[p].m
  /\ job'[p].disturbed = job[p].disturbed /\ job'[p].version = job[p].version

(* p alone takes the step, in its own command *)
Alone(p) == Running(p) /\ Keeps(p) /\ \A q \in Procs \ {p} : job'[q] = job[q]

LEMMA MovesKeep ==
  ASSUME NEW p \in Procs, job \in [Procs -> Jobs], NEW at, NEW ok, NEW x,
         \/ job' = [job EXCEPT ![p].at = at]
         \/ job' = [job EXCEPT ![p].at = at, ![p].ok = ok]
         \/ job' = [job EXCEPT ![p].at = at, ![p].nb = x]
         \/ job' = [job EXCEPT ![p].at = at, ![p].root = x]
  PROVE  Keeps(p)
<1>1. job[p] \in Jobs OBVIOUS
<1>2. CASE job' = [job EXCEPT ![p].at = at] BY <1>1, <1>2 DEF Keeps, Jobs
<1>3. CASE job' = [job EXCEPT ![p].at = at, ![p].ok = ok] BY <1>1, <1>3 DEF Keeps, Jobs
<1>4. CASE job' = [job EXCEPT ![p].at = at, ![p].nb = x] BY <1>1, <1>4 DEF Keeps, Jobs
<1>5. CASE job' = [job EXCEPT ![p].at = at, ![p].root = x] BY <1>1, <1>5 DEF Keeps, Jobs
<1> QED BY <1>2, <1>3, <1>4, <1>5

LEMMA LoadFrame ==
  ASSUME Typed, NEW p \in Procs, LoadStep(p)
  PROVE  job[p].cmd = "load" /\ UNCHANGED <<settings, fileVars, history>> /\ Alone(p)
<1>1. job \in [Procs -> Jobs] /\ job[p] \in Jobs /\ PlaceOK(p) BY DEF Typed
<1>2. job[p].at \in LoadAt
  BY DEF LoadStep, OpenList, ReadBlock, CountModules, RegisterModules, Register, LoadAt
<1>3. job[p].cmd = "load" /\ Running(p) BY <1>1, <1>2 DEF PlaceOK, LoadAt, Running
<1>4. UNCHANGED <<settings, fileVars, history>>
  BY DEF LoadStep, OpenList, ReadBlock, CountModules, RegisterModules, Register
<1>5. \A q \in Procs \ {p} : job'[q] = job[q]
  BY <1>1 DEF LoadStep, OpenList, ReadBlock, CountModules, RegisterModules, Register, End
<1>6. Keeps(p)
  <2>1. CASE OpenList(p) BY <1>1, <2>1, MovesKeep DEF OpenList
  <2>2. CASE ReadBlock(p) BY <1>1, <2>2 DEF ReadBlock, Keeps, Jobs
  <2>3. CASE CountModules(p) BY <1>1, <2>3, MovesKeep DEF CountModules
  <2>4. CASE RegisterModules(p) BY <1>1, <2>4 DEF RegisterModules, Keeps, Jobs
  <2>5. CASE Register(p)
    <3>1. CASE job[p].todo = {}
      <4>1. job' = [job EXCEPT ![p].at = "done", ![p].ok = TRUE] BY <2>5, <3>1 DEF Register, End
      <4> QED BY <1>1, <4>1, MovesKeep
    <3>2. CASE job[p].todo # {}
      <4>1. PICK m \in job[p].todo :
              job' = [job EXCEPT ![p].todo = @ \ {m},
                                 ![p].slots = Append(@, <<m, Slot(job[p].root, m)>>)]
        BY <2>5, <3>2 DEF Register
      <4> DEFINE s == Append(job[p].slots, <<m, Slot(job[p].root, m)>>)
      <4>2. job' = [job EXCEPT ![p].todo = @ \ {m}, ![p].slots = s] BY <4>1
      <4> HIDE DEF s
      <4> QED BY <1>1, <4>2 DEF Keeps, Jobs
    <3> QED BY <3>1, <3>2
  <2> QED BY <2>1, <2>2, <2>3, <2>4, <2>5 DEF LoadStep
<1> QED BY <1>3, <1>4, <1>5, <1>6 DEF Alone

(* Entries of another module, and whether it can be read, stay as they are. *)
Untouched(m) ==
  /\ \A x : Entry(x, m)' = Entry(x, m)
  /\ (m \in DOMAIN available') = (m \in DOMAIN available)

LEMMA ChangeFrame ==
  ASSUME Typed, NEW p \in Procs, ChangeStep(p)
  PROVE  /\ job[p].cmd \in Changing /\ job[p].m \in Modules
         /\ UNCHANGED <<settings, list, updates, commands, torn, newest>> /\ Alone(p)
         /\ DOMAIN available \subseteq DOMAIN available' /\ DOMAIN enabled \subseteq DOMAIN enabled'
         /\ \A m \in Modules \ {job[p].m} : Untouched(m) /\ status'[m] = status[m]
<1> USE DEF Goto, End
<1>1. job \in [Procs -> Jobs] /\ job[p] \in Jobs /\ PlaceOK(p) /\ FilesTyped /\ HistoryTyped
  BY DEF Typed
<1>2. job[p].at \in EnableAt \cup DisableAt
  BY DEF ChangeStep, CreateInHome, UnlinkCreated, Symlink, CheckLink, UndoLink, FindEntry, RemoveEntry,
     EnableAt, DisableAt
<1>3. job[p].cmd \in Changing /\ job[p].m \in Modules /\ Running(p)
  BY <1>1, <1>2 DEF PlaceOK, EnableAt, DisableAt, Running, Changing
<1>4. UNCHANGED <<settings, list, updates, commands, torn, newest, env_set>>
  BY DEF ChangeStep, CreateInHome, UnlinkCreated, Symlink, CheckLink, UndoLink, FindEntry, RemoveEntry,
     history, fileVars, settings
<1>5. \A q \in Procs \ {p} : job'[q] = job[q]
  BY <1>1 DEF ChangeStep, CreateInHome, UnlinkCreated, Symlink, CheckLink, UndoLink, FindEntry, RemoveEntry
<1>6. Keeps(p)
  <2>1. CASE CreateInHome(p)
    <3>1. \/ UNCHANGED job \/ job' = [job EXCEPT ![p].at = "unlink"]
          \/ job' = [job EXCEPT ![p].at = "done", ![p].ok = FALSE]
      BY <2>1 DEF CreateInHome
    <3> QED BY <1>1, <3>1, MovesKeep DEF Keeps
  <2>2. CASE UnlinkCreated(p) BY <1>1, <2>2, MovesKeep DEF UnlinkCreated
  <2>3. CASE Symlink(p) BY <1>1, <2>3, MovesKeep DEF Symlink
  <2>4. CASE CheckLink(p) BY <1>1, <2>4, MovesKeep DEF CheckLink
  <2>5. CASE UndoLink(p) BY <1>1, <2>5, MovesKeep DEF UndoLink
  <2>6. CASE FindEntry(p) BY <1>1, <2>6, MovesKeep DEF FindEntry
  <2>7. CASE RemoveEntry(p) BY <1>1, <2>7, MovesKeep DEF RemoveEntry
  <2> QED BY <2>1, <2>2, <2>3, <2>4, <2>5, <2>6, <2>7 DEF ChangeStep
<1>7. \/ UNCHANGED <<available, enabled>>
      \/ "home" \notin DOMAIN enabled /\ enabled' = With(enabled, "home", <<>>) /\ UNCHANGED available
      \/ "home" \in DOMAIN enabled /\ UNCHANGED available /\ \E kind \in {"file", "link"} : Link("home", job[p].m, kind)
      \/ available' = With(available, job[p].m, "empty") /\ UNCHANGED enabled
      \/ UNCHANGED available /\ \E r \in Roots : Unlink(r, job[p].m)
  <2>1. CASE CreateInHome(p) BY <2>1 DEF CreateInHome
  <2>2. CASE UnlinkCreated(p) BY <2>2 DEF UnlinkCreated, Roots
  <2>3. CASE Symlink(p)
    <3>1. "home" \in DOMAIN enabled BY <1>1, <2>3 DEF Symlink, PlaceOK, EnableAt
    <3> QED BY <2>3, <3>1 DEF Symlink
  <2>4. CASE CheckLink(p) BY <2>4 DEF CheckLink, fileVars
  <2>5. CASE UndoLink(p) BY <2>5 DEF UndoLink, Roots
  <2>6. CASE FindEntry(p) BY <2>6 DEF FindEntry, fileVars
  <2>7. CASE RemoveEntry(p)
    <3>1. job[p].root \in Roots BY <1>1, <2>7 DEF RemoveEntry, PlaceOK
    <3> QED BY <2>7, <3>1 DEF RemoveEntry
  <2> QED BY <2>1, <2>2, <2>3, <2>4, <2>5, <2>6, <2>7 DEF ChangeStep
<1>8. /\ DOMAIN available \subseteq DOMAIN available' /\ DOMAIN enabled \subseteq DOMAIN enabled'
      /\ \A m \in Modules \ {job[p].m} : Untouched(m)
  <2>1. CASE UNCHANGED <<available, enabled>> BY <2>1 DEF Untouched, Entry, EntriesOf
  <2>2. CASE "home" \notin DOMAIN enabled /\ enabled' = With(enabled, "home", <<>>) /\ UNCHANGED available
    BY <1>1, <1>4, <2>2, HomeMade DEF Untouched
  <2>3. ASSUME NEW kind \in {"file", "link"}, Link("home", job[p].m, kind), "home" \in DOMAIN enabled,
               UNCHANGED available
        PROVE  /\ DOMAIN available \subseteq DOMAIN available' /\ DOMAIN enabled \subseteq DOMAIN enabled'
               /\ \A m \in Modules \ {job[p].m} : Untouched(m)
    BY <1>1, <1>3, <1>4, <2>3, Linked DEF Untouched, Now
  <2>4. CASE available' = With(available, job[p].m, "empty") /\ UNCHANGED enabled
    <3>1. \A x, k : Entry(x, k)' = Entry(x, k) BY <2>4 DEF Entry, EntriesOf
    <3>2. DOMAIN available' = DOMAIN available \cup {job[p].m} BY <1>1, <1>3, <1>4, <2>4, CodeEmptied
    <3>3. DOMAIN enabled' = DOMAIN enabled BY <2>4
    <3> QED BY <3>1, <3>2, <3>3 DEF Untouched
  <2>5. ASSUME NEW r \in Roots, Unlink(r, job[p].m), UNCHANGED available
        PROVE  /\ DOMAIN available \subseteq DOMAIN available' /\ DOMAIN enabled \subseteq DOMAIN enabled'
               /\ \A m \in Modules \ {job[p].m} : Untouched(m)
    BY <1>1, <1>4, <2>5, Unlinked DEF Untouched, Now
  <2> QED BY <1>7, <2>1, <2>2, <2>3, <2>4, <2>5
<1>9. \A m \in Modules \ {job[p].m} : status'[m] = status[m]
  <2>1. status' = status \/ \E now \in {"on", "undone", "off"} : status' = [status EXCEPT ![job[p].m] = now]
    BY DEF ChangeStep, CreateInHome, UnlinkCreated, Symlink, CheckLink, UndoLink, FindEntry, RemoveEntry,
       StatusAfter, history
  <2> QED BY <1>1, <2>1 DEF HistoryTyped
<1> QED BY <1>3, <1>4, <1>5, <1>6, <1>8, <1>9 DEF Alone

LEMMA UpdateFrame ==
  ASSUME Typed, NEW p \in Procs, UpdateStep(p)
  PROVE  /\ job[p].cmd = "update" /\ Running(p) /\ Others(p) /\ job'[p].cmd = "update"
         /\ UNCHANGED <<settings, available, enabled, updates, commands, status>>
<1> USE DEF Goto, End
<1>1. job \in [Procs -> Jobs] /\ job[p] \in Jobs /\ PlaceOK(p) BY DEF Typed
<1>2. job[p].cmd = "update" /\ job[p].at \in UpdateAt
  BY <1>1 DEF UpdateStep, OpenToWrite, FirstBlock, SecondBlock, PlaceOK, UpdateAt
<1>3. UNCHANGED <<settings, available, enabled, updates, commands, status>>
  BY DEF UpdateStep, OpenToWrite, FirstBlock, SecondBlock, history
<1>4. CASE OpenToWrite(p)
  <2>1. CASE FileToWrite = {}
    <3>1. job' = [job EXCEPT ![p].at = "done", ![p].ok = FALSE] BY <1>4, <2>1 DEF OpenToWrite
    <3>2. Others(p) /\ job'[p].cmd = job[p].cmd BY <1>1, <3>1 DEF Others, Jobs
    <3> QED BY <1>2, <1>3, <3>2 DEF Running, UpdateAt
  <2>2. CASE FileToWrite # {}
    <3>1. PICK r \in FileToWrite :
            job' = [q \in Procs |->
                 IF q = p THEN [job[p] EXCEPT !.at = "first", !.root = r,
                                              !.disturbed = \E o \in Procs : WritesTo(o, r)]
                 ELSE IF WritesTo(q, r) THEN [job[q] EXCEPT !.disturbed = TRUE]
                 ELSE job[q]]
      BY <1>4, <2>2 DEF OpenToWrite
    <3>2. Others(p) BY <3>1 DEF Others, Marked
    <3>3. job'[p].cmd = job[p].cmd BY <1>1, <3>1 DEF Jobs
    <3> QED BY <1>2, <1>3, <3>2, <3>3 DEF Running, UpdateAt
  <2> QED BY <2>1, <2>2
<1>5. CASE FirstBlock(p) \/ SecondBlock(p)
  <2>1. ASSUME FirstBlock(p) PROVE Others(p) /\ job'[p].cmd = job[p].cmd
    <3>1. job' = [job EXCEPT ![p].at = "second"] BY <2>1 DEF FirstBlock
    <3> QED BY <1>1, <3>1 DEF Others, Jobs
  <2>2. ASSUME SecondBlock(p) PROVE Others(p) /\ job'[p].cmd = job[p].cmd
    <3>1. job' = [job EXCEPT ![p].at = "done", ![p].ok = TRUE] BY <2>2 DEF SecondBlock
    <3> QED BY <1>1, <3>1 DEF Others, Jobs
  <2>3. Others(p) /\ job'[p].cmd = job[p].cmd BY <1>5, <2>1, <2>2
  <2> QED BY <1>2, <1>3, <2>3 DEF Running, UpdateAt
<1> QED BY <1>4, <1>5 DEF UpdateStep

(***************************************************************************)
(* Updates.  A process that writes a list has its directory in torn; while *)
(* nothing disturbs it, it is the only one that writes there.  Only the    *)
(* list that is read is ever torn, when FAUP_DATA_DIR can be written; and  *)
(* it is the newest otherwise.                                             *)
(***************************************************************************)
OwnListCanChange == env_set => "env" \in writable

Writes(p) == job[p].at \in {"first", "second"}

UpdatesOK ==
  /\ \A p \in Procs : Writes(p) => job[p].root \in torn
  /\ \A p, q \in Procs :
       Writes(p) /\ Writes(q) /\ job[p].root = job[q].root /\ ~job[p].disturbed => p = q
  /\ \A p \in Procs :
       job[p].at = "second" /\ ~job[p].disturbed => list[job[p].root] = <<job[p].version>>
  /\ OwnListCanChange => torn \subseteq {ListRoot} \cap writable
  /\ OwnListCanChange /\ ListRoot \notin torn => list[ListRoot] = <<newest, newest>>

LEMMA UpdatesInit == Init => UpdatesOK
<1> SUFFICES ASSUME Init PROVE UpdatesOK
  OBVIOUS
<1>1. \A p \in Procs : ~Writes(p) BY DEF Init, Idle, Writes
<1>2. PICK roots \in {GivenRoots, GivenRoots \cup {"home"}} : list = [r \in roots |-> <<1, 1>>]
  BY DEF Init
<1>3. ListRoot \in roots BY <1>2 DEF ListRoot, GetFile, GivenRoots, Init
<1>4. list[ListRoot] = <<newest, newest>> /\ torn = {} BY <1>2, <1>3 DEF Init
<1>5. \A p \in Procs : job[p].at # "second" BY <1>1 DEF Writes
<1> QED BY <1>1, <1>4, <1>5 DEF UpdatesOK

(* A process that does not write does not matter, nor one that is disturbed. *)
LEMMA UpdatesKept ==
  ASSUME UpdatesOK, UNCHANGED <<settings, list, torn, newest>>,
         \A q \in Procs : \/ ~Writes(q)'
                         \/ job'[q] = job[q]
                         \/ /\ job'[q].at = job[q].at /\ job'[q].root = job[q].root
                            /\ job'[q].disturbed
  PROVE  UpdatesOK'
<1>1. OwnListCanChange' = OwnListCanChange /\ ListRoot' = ListRoot BY DEF OwnListCanChange, ListRoot, GetFile, settings
<1>2. ASSUME NEW q \in Procs, Writes(q)'
      PROVE  /\ Writes(q) /\ job'[q].root = job[q].root /\ job'[q].at = job[q].at
             /\ ~job'[q].disturbed => ~job[q].disturbed /\ job'[q].version = job[q].version
  BY <1>2 DEF Writes
<1>3. \A q \in Procs : job'[q].at = "second" => Writes(q)' BY DEF Writes
<1> QED BY <1>1, <1>2, <1>3 DEF UpdatesOK, settings

LEMMA BeginsCommand ==
  ASSUME Typed, NEW p \in Procs, BeginStep(p)
  PROVE  \E command \in Jobs : Begin(p, command) /\ command.at \notin {"first", "second"}
<1> USE DEF BeginStep
<1>0. Idle \in Jobs /\ job \in [Procs -> Jobs] BY IdleTyped DEF Typed
<1>1. CASE Update(p)
  <2> DEFINE c == [Idle EXCEPT !.cmd = "update", !.at = "open", !.version = updates']
  <2>1. updates' \in Nat BY <1>1 DEF Update, Typed, HistoryTyped
  <2>2. c \in Jobs /\ c.at = "open" BY <1>0, <2>1 DEF Jobs, CommandNames, Places, UpdateAt
  <2> QED BY <1>1, <2>2 DEF Update
<1>2. CASE Load(p)
  <2> DEFINE c == [Idle EXCEPT !.cmd = "load", !.at = "list", !.version = newest]
  <2>1. c \in Jobs /\ c.at = "list" BY <1>0 DEF Jobs, CommandNames, Places, LoadAt, Typed, HistoryTyped
  <2> QED BY <1>2, <2>1 DEF Load
<1>3. ASSUME NEW m \in Modules \ LongNames, NEW cmd \in Changing, Change(p, cmd, m)
      PROVE  \E c \in Jobs : Begin(p, c) /\ c.at \notin {"first", "second"}
  <2> DEFINE c == [Idle EXCEPT !.cmd = cmd, !.at = IF cmd = "enable" THEN "create" ELSE "find", !.m = m]
  <2>1. c \in Jobs /\ c.at \in {"create", "find"}
    BY <1>0 DEF Jobs, CommandNames, Places, EnableAt, DisableAt, Changing
  <2> QED BY <1>3, <2>1 DEF Change
<1> QED BY <1>1, <1>2, <1>3

LEMMA UpdatesBegin ==
  ASSUME Typed, UpdatesOK, NEW p \in Procs, BeginStep(p)
  PROVE  UpdatesOK'
<1> USE DEF BeginStep
<1>0. Idle \in Jobs /\ job \in [Procs -> Jobs] BY IdleTyped DEF Typed
<1>1. UNCHANGED <<settings, list, torn, newest>> BY DEF Update, Load, Change, fileVars
<1>2. PICK command \in Jobs : Begin(p, command) /\ command.at \notin {"first", "second"}
  BY BeginsCommand
<1>3. Others(p) /\ \E d \in BOOLEAN : job'[p] = [command EXCEPT !.disturbed = d]
  BY <1>0, <1>2, BeginTyped
<1>4. ~Writes(p)' BY <1>2, <1>3 DEF Writes, Jobs
<1>5. \A q \in Procs \ {p} : \/ job'[q] = job[q]
                             \/ /\ job'[q].at = job[q].at /\ job'[q].root = job[q].root
                                /\ job'[q].disturbed
  BY <1>0, <1>3, MarkedTyped DEF Others
<1> QED BY <1>1, <1>4, <1>5, UpdatesKept

LEMMA UpdatesElse ==
  ASSUME Typed, UpdatesOK, NEW p \in Procs, LoadStep(p) \/ ChangeStep(p) \/ Dies(p)
  PROVE  UpdatesOK'
<1>0. job \in [Procs -> Jobs] BY DEF Typed
<1>1. CASE LoadStep(p)
  <2>1. UNCHANGED <<settings, list, torn, newest>> /\ job'[p].cmd = "load"
        /\ \A q \in Procs \ {p} : job'[q] = job[q]
    BY <1>1, LoadFrame DEF fileVars, history, Alone, Keeps
  <2>2. PlaceOK(p)' BY <1>1, TypedLoad DEF LoadStep, Typed
  <2>3. ~Writes(p)' BY <2>1, <2>2 DEF PlaceOK, Writes, UpdateAt
  <2> QED BY <2>1, <2>3, UpdatesKept
<1>2. CASE ChangeStep(p)
  <2>1. UNCHANGED <<settings, list, torn, newest>> /\ job'[p].cmd \in Changing
        /\ \A q \in Procs \ {p} : job'[q] = job[q]
    BY <1>2, ChangeFrame DEF Alone, Keeps
  <2>2. PlaceOK(p)' BY <1>2, TypedChange DEF ChangeStep, Typed
  <2>3. ~Writes(p)' BY <2>1, <2>2 DEF PlaceOK, Writes, UpdateAt, Changing
  <2> QED BY <2>1, <2>3, UpdatesKept
<1>3. CASE Dies(p)
  <2>1. UNCHANGED <<settings, list, torn, newest>> /\ job'[p] = Idle
        /\ \A q \in Procs \ {p} : job'[q] = job[q]
    BY <1>0, <1>3 DEF Dies, fileVars, history
  <2>2. Idle.at = "idle" BY DEF Idle
  <2>3. ~Writes(p)' BY <2>1, <2>2 DEF Writes
  <2> QED BY <2>1, <2>3, UpdatesKept
<1> QED BY <1>1, <1>2, <1>3

LEMMA UpdatesWrite ==
  ASSUME Typed, UpdatesOK, NEW p \in Procs, UpdateStep(p)
  PROVE  UpdatesOK'
<1> USE DEF End, Goto, settings
<1>0. job \in [Procs -> Jobs] /\ job[p] \in Jobs /\ PlaceOK(p) /\ FilesTyped /\ Settings
  BY DEF Typed
<1>1. ListRoot \in DOMAIN list BY <1>0 DEF ListRoot, GetFile, FilesTyped
<1>2. UNCHANGED settings BY UpdateFrame
<1>3. CASE OpenToWrite(p) /\ FileToWrite = {}
  <2>1. job' = [job EXCEPT ![p].at = "done", ![p].ok = FALSE] /\ UNCHANGED <<list, torn, newest>>
    BY <1>3 DEF OpenToWrite
  <2>2. job'[p].at = "done" /\ \A q \in Procs \ {p} : job'[q] = job[q] BY <1>0, <2>1 DEF Jobs
  <2>3. ~Writes(p)' BY <2>2 DEF Writes
  <2> QED BY <1>2, <2>1, <2>2, <2>3, UpdatesKept
<1>4. CASE OpenToWrite(p) /\ FileToWrite # {}
  <2>1. PICK r \in FileToWrite :
          /\ list' = With(list, r, <<>>)
          /\ torn' = torn \cup {r}
          /\ job' = [q \in Procs |->
               IF q = p THEN [job[p] EXCEPT !.at = "first", !.root = r,
                                            !.disturbed = \E o \in Procs : WritesTo(o, r)]
               ELSE IF WritesTo(q, r) THEN [job[q] EXCEPT !.disturbed = TRUE]
               ELSE job[q]]
    BY <1>4 DEF OpenToWrite
  <2>2. newest' = newest /\ torn' = torn \cup {r} BY <1>4, <2>1 DEF OpenToWrite
  <2>3. DOMAIN list' = DOMAIN list \cup {r} /\ \A x \in DOMAIN list \ {r} : list'[x] = list[x]
    BY <2>1 DEF With
  <2>4. job'[p].at = "first" /\ job'[p].root = r /\ (job'[p].disturbed <=> \E o \in Procs : WritesTo(o, r))
    BY <1>0, <2>1 DEF Jobs
  <2>5. ASSUME NEW q \in Procs \ {p}
        PROVE  /\ job'[q].at = job[q].at /\ job'[q].root = job[q].root /\ job'[q].version = job[q].version
               /\ WritesTo(q, r) => job'[q].disturbed
               /\ ~job'[q].disturbed => ~job[q].disturbed
    <3>1. CASE WritesTo(q, r) BY <1>0, <2>1, <3>1 DEF Jobs
    <3>2. CASE ~WritesTo(q, r) BY <2>1, <3>2
    <3> QED BY <3>1, <3>2
  <2>6. ASSUME NEW q \in Procs, Writes(q) PROVE WritesTo(q, job[q].root)
    BY <2>6 DEF Writes, WritesTo, Running, Typed, PlaceOK, UpdateAt
  <2>7. ASSUME NEW q \in Procs, Writes(q)' PROVE job'[q].root \in torn'
    <3>1. CASE q = p BY <2>2, <2>4, <3>1
    <3>2. CASE q # p
      <4>1. Writes(q) /\ job'[q].root = job[q].root BY <2>5, <2>7, <3>2 DEF Writes
      <4> QED BY <2>2, <4>1 DEF UpdatesOK
    <3> QED BY <3>1, <3>2
  <2>8. ASSUME NEW q \in Procs, NEW o \in Procs, Writes(q)', Writes(o)', job'[q].root = job'[o].root,
               ~job'[q].disturbed
        PROVE  q = o
    <3>1. CASE q # p /\ o # p BY <2>5, <2>8, <3>1 DEF UpdatesOK, Writes
    <3>2. CASE q = p /\ o # p
      <4>1. Writes(o) /\ job[o].root = r BY <2>4, <2>5, <2>8, <3>2 DEF Writes
      <4> QED BY <2>4, <2>6, <2>8, <3>2, <4>1
    <3>3. CASE q # p /\ o = p
      <4>1. Writes(q) /\ job[q].root = r BY <2>4, <2>5, <2>8, <3>3 DEF Writes
      <4> QED BY <2>5, <2>6, <2>8, <3>3, <4>1
    <3> QED BY <3>1, <3>2, <3>3
  <2>9. ASSUME NEW q \in Procs, job'[q].at = "second", ~job'[q].disturbed
        PROVE  list'[job'[q].root] = <<job'[q].version>>
    <3>1. q # p /\ job[q].at = "second" /\ ~job[q].disturbed BY <2>4, <2>5, <2>9
    <3>2. Writes(q) BY <3>1 DEF Writes
    <3>3. job[q].root # r BY <2>5, <2>6, <2>9, <3>1, <3>2
    <3>4. job[q].root \in DOMAIN list BY <3>1 DEF Typed, PlaceOK
    <3> QED BY <2>3, <2>5, <3>1, <3>3, <3>4 DEF UpdatesOK
  <2>10. OwnListCanChange => ListRoot' = r /\ torn \subseteq {r} /\ r \in writable
    <3>1. r \in writable /\ (ListRoot \in writable => r = ListRoot) /\ (ListRoot \notin writable => r = "home")
      BY DEF FileToWrite
    <3>2. OwnListCanChange => torn \subseteq {ListRoot} \cap writable BY DEF UpdatesOK
    <3>3. ListRoot' = IF env_set THEN "env" ELSE IF "home" \in DOMAIN list' THEN "home" ELSE "global"
      BY <1>2 DEF ListRoot, GetFile
    <3> QED BY <2>3, <3>1, <3>2, <3>3 DEF OwnListCanChange, ListRoot, GetFile
  <2>11. OwnListCanChange' => torn' \subseteq {ListRoot'} \cap writable' /\ ListRoot' \in torn'
    BY <1>2, <2>1, <2>10 DEF OwnListCanChange
  <2> QED BY <2>7, <2>8, <2>9, <2>11 DEF UpdatesOK
<1>5. ASSUME FirstBlock(p) \/ SecondBlock(p)
      PROVE  /\ Writes(p) /\ job[p].root \in DOMAIN list /\ job[p].root \in torn
             /\ DOMAIN list' = DOMAIN list /\ ListRoot' = ListRoot /\ OwnListCanChange' = OwnListCanChange
             /\ \A x \in DOMAIN list \ {job[p].root} : list'[x] = list[x]
             /\ \A q \in Procs \ {p} : job'[q] = job[q]
             /\ \A q \in Procs \ {p} : Writes(q) /\ ~job[q].disturbed => job[q].root # job[p].root
  <2>1. Writes(p) BY <1>5 DEF FirstBlock, SecondBlock, Writes
  <2>2. job[p].root \in DOMAIN list /\ job[p].root \in torn
    BY <1>0, <2>1 DEF PlaceOK, UpdatesOK, Writes
  <2>3. DOMAIN list' = DOMAIN list /\ \A x \in DOMAIN list \ {job[p].root} : list'[x] = list[x]
    BY <1>5 DEF FirstBlock, SecondBlock
  <2>4. ListRoot' = ListRoot /\ OwnListCanChange' = OwnListCanChange BY <1>2, <2>3 DEF ListRoot, GetFile, OwnListCanChange
  <2>5. \A q \in Procs \ {p} : job'[q] = job[q] BY <1>0, <1>5 DEF FirstBlock, SecondBlock
  <2>6. \A q \in Procs \ {p} : Writes(q) /\ ~job[q].disturbed => job[q].root # job[p].root
    BY <2>1 DEF UpdatesOK
  <2> QED BY <2>1, <2>2, <2>3, <2>4, <2>5, <2>6
<1>6. ASSUME NEW q \in Procs \ {p}, job'[q].at = "second", ~job'[q].disturbed, FirstBlock(p) \/ SecondBlock(p)
      PROVE  list'[job'[q].root] = <<job'[q].version>>
  <2>1. job'[q] = job[q] /\ Writes(q) /\ job[q].root # job[p].root BY <1>5, <1>6 DEF Writes
  <2>2. job[q].root \in DOMAIN list BY <1>6, <2>1 DEF Typed, PlaceOK
  <2> QED BY <1>5, <1>6, <2>1, <2>2 DEF UpdatesOK
<1>7. CASE FirstBlock(p)
  <2>1. UNCHANGED <<torn, newest>> BY <1>7 DEF FirstBlock, history
  <2>2. /\ job'[p].at = "second" /\ job'[p].root = job[p].root /\ job'[p].version = job[p].version
        /\ job'[p].disturbed = job[p].disturbed
    BY <1>0, <1>7 DEF FirstBlock, Jobs
  <2>3. list'[job[p].root] = <<job[p].version>> BY <1>5, <1>7 DEF FirstBlock
  <2>4. \A q \in Procs : Writes(q)' => Writes(q) /\ job'[q].root = job[q].root /\ job'[q].disturbed = job[q].disturbed
    BY <1>5, <1>7, <2>2 DEF Writes
  <2>5. \A q \in Procs : job'[q].at = "second" /\ ~job'[q].disturbed => list'[job'[q].root] = <<job'[q].version>>
    BY <1>6, <1>7, <2>2, <2>3
  <2>6. OwnListCanChange' => torn' \subseteq {ListRoot'} \cap writable' BY <1>2, <1>5, <1>7, <2>1 DEF UpdatesOK
  <2>7. OwnListCanChange' /\ ListRoot' \notin torn' => list'[ListRoot'] = <<newest', newest'>>
    BY <1>1, <1>5, <1>7, <2>1 DEF UpdatesOK
  <2>8. \A q \in Procs : Writes(q)' => job'[q].root \in torn' BY <2>1, <2>4 DEF UpdatesOK
  <2>9. \A q, o \in Procs :
          Writes(q)' /\ Writes(o)' /\ job'[q].root = job'[o].root /\ ~job'[q].disturbed => q = o
    BY <2>4 DEF UpdatesOK
  <2> QED BY <2>5, <2>6, <2>7, <2>8, <2>9 DEF UpdatesOK
<1>8. CASE SecondBlock(p)
  <2>1. /\ newest' = IF job[p].disturbed THEN newest ELSE job[p].version
        /\ torn' = IF job[p].disturbed THEN torn ELSE torn \ {job[p].root}
    BY <1>8 DEF SecondBlock
  <2>2. job'[p].at = "done" BY <1>0, <1>8 DEF SecondBlock, Jobs
  <2>3. \A q \in Procs : Writes(q)' => q # p /\ Writes(q) /\ job'[q] = job[q]
    BY <1>5, <1>8, <2>2 DEF Writes
  <2>4. \A q \in Procs : Writes(q)' => job'[q].root \in torn'
    <3>1. \A q \in Procs \ {p} : Writes(q) /\ ~job[p].disturbed => job[q].root # job[p].root
      BY <1>5, <1>8 DEF UpdatesOK
    <3>2. \A q \in Procs : Writes(q) => job[q].root \in torn BY DEF UpdatesOK
    <3>3. ASSUME NEW q \in Procs, Writes(q)' PROVE job'[q].root \in torn'
      <4>1. q # p /\ Writes(q) /\ job'[q] = job[q] BY <2>3, <3>3
      <4> QED BY <2>1, <3>1, <3>2, <4>1
    <3> QED BY <3>3
  <2>5. \A q, o \in Procs :
          Writes(q)' /\ Writes(o)' /\ job'[q].root = job'[o].root /\ ~job'[q].disturbed => q = o
    BY <2>3 DEF UpdatesOK
  <2>6. \A q \in Procs : job'[q].at = "second" /\ ~job'[q].disturbed => list'[job'[q].root] = <<job'[q].version>>
    BY <1>6, <1>8, <2>2
  <2>7. OwnListCanChange' => torn' \subseteq {ListRoot'} \cap writable' BY <1>2, <1>5, <1>8, <2>1 DEF UpdatesOK
  <2>8. OwnListCanChange' /\ ListRoot' \notin torn' => list'[ListRoot'] = <<newest', newest'>>
    <3>1. CASE job[p].disturbed BY <1>1, <1>5, <1>8, <2>1, <3>1 DEF UpdatesOK
    <3>2. CASE ~job[p].disturbed
      <4>1. list[job[p].root] = <<job[p].version>> BY <1>8, <3>2 DEF UpdatesOK, SecondBlock
      <4>2. list'[job[p].root] = <<job[p].version, job[p].version>>
        <5>1. <<job[p].version>> # <<>> /\ <<job[p].version>>[1] = job[p].version OBVIOUS
        <5> QED BY <1>5, <1>8, <4>1, <5>1 DEF SecondBlock
      <4>3. OwnListCanChange => job[p].root = ListRoot BY <1>5, <1>8 DEF UpdatesOK
      <4> QED BY <1>5, <1>8, <2>1, <3>2, <4>2, <4>3
    <3> QED BY <3>1, <3>2
  <2> QED BY <2>4, <2>5, <2>6, <2>7, <2>8 DEF UpdatesOK
<1> QED BY <1>3, <1>4, <1>7, <1>8 DEF UpdateStep

LEMMA UpdatesNext == Typed /\ UpdatesOK /\ [Next]_vars => UpdatesOK'
<1> SUFFICES ASSUME Typed, UpdatesOK, [Next]_vars PROVE UpdatesOK'
  OBVIOUS
<1>1. CASE UNCHANGED vars BY <1>1, UpdatesKept DEF vars, fileVars, history
<1>2. CASE Next
  BY <1>2, UpdatesBegin, UpdatesWrite, UpdatesElse DEF Next, Step, BeginStep, UpdateStep, LoadStep, ChangeStep
<1> QED BY <1>1, <1>2

(***************************************************************************)
(* A load that nothing disturbs runs with other loads only: everything it  *)
(* looks at stays as it was when it began, also after it has ended.        *)
(***************************************************************************)
Calm(p) == job[p].cmd = "load" /\ ~job[p].disturbed

OnlyLoads == \A q \in Procs : Running(q) => job[q].cmd = "load"

ListPart(p) ==
  /\ job[p].version = newest
  /\ job[p].at = "list" => job[p].got = <<>>
  /\ job[p].at = "read" => job[p].root = ListRoot
  /\ OwnListCanChange => ListRoot \notin torn
  /\ OwnListCanChange /\ job[p].at = "read" => job[p].got \in {<<>>, <<newest>>}
  /\ OwnListCanChange /\ job[p].at \in {"count", "opendir", "register", "done"} => job[p].got = <<newest, newest>>

(* Of the modules, it has yet to register some, and has taken a slot for   *)
(* each of the others.                                                     *)
Names == DOMAIN EntriesOf(EnabledRoot)

Filled(p) == {job[p].slots[i][1] : i \in DOMAIN job[p].slots}

SlotsPart(p) ==
  /\ job[p].at \in {"list", "read", "count", "opendir"} => job[p].slots = <<>> /\ job[p].todo = {}
  /\ job[p].at \in {"list", "read", "count"} => job[p].nb = 0
  /\ job[p].at \in {"opendir", "register", "done"} => job[p].nb = Cardinality(Names)
  /\ job[p].at = "register" => job[p].root = EnabledRoot
  /\ job[p].at = "done" => job[p].todo = {}
  /\ job[p].at \in {"register", "done"} =>
       /\ job[p].todo \subseteq Names /\ Filled(p) = Names \ job[p].todo
       /\ \A i \in DOMAIN job[p].slots : job[p].slots[i][2] = Slot(EnabledRoot, job[p].slots[i][1])
       /\ Len(job[p].slots) + Cardinality(job[p].todo) = Cardinality(Names)

LoadsOK == \A p \in Procs : Calm(p) => OnlyLoads /\ ListPart(p) /\ SlotsPart(p)

(* The load that p begins, and the commands that disturb one *)
LEMMA LoadBegins ==
  ASSUME Typed, NEW p \in Procs, BeginStep(p)
  PROVE  /\ UNCHANGED <<settings, fileVars, torn, newest>>
         /\ \A q \in Procs \ {p} : Calm(q)' => job'[q] = job[q]
         /\ \A q \in Procs : Calm(q)' => job'[p].cmd = "load"
         /\ Calm(p)' =>
              /\ OnlyLoads /\ ListRoot \notin torn
              /\ job'[p].at = "list" /\ job'[p].version = newest /\ job'[p].got = <<>>
              /\ job'[p].slots = <<>> /\ job'[p].todo = {} /\ job'[p].nb = 0
         /\ job'[p].cmd = "load" => UNCHANGED status
<1> USE DEF BeginStep
<1>0. Idle \in Jobs /\ job \in [Procs -> Jobs] BY IdleTyped DEF Typed
<1>1. UNCHANGED <<settings, fileVars, torn, newest>> BY DEF Update, Load, Change
<1>2. ASSUME NEW c \in Jobs, Begin(p, c), c.cmd \in {"update"} \cup Changing
      PROVE  /\ job'[p].cmd = c.cmd
             /\ \A q \in Procs : ~Calm(q)'
  <2>1. job'[p].cmd = c.cmd
    <3>1. PICK d \in BOOLEAN : job'[p] = [c EXCEPT !.disturbed = d] BY <1>0, <1>2, BeginTyped
    <3> QED BY <3>1 DEF Jobs
  <2>2. ASSUME NEW q \in Procs \ {p}, job'[q].cmd = "load" PROVE job'[q].disturbed
    <3>1. job[q].cmd = "load" BY <1>0, <1>2, <2>2, BeginTyped, MarkedTyped DEF Others
    <3>2. Disturb(job[q], c) BY <1>2, <3>1 DEF Disturb, Changing
    <3> QED BY <1>0, <1>2, <3>2, BeginTyped, MarkedTyped
  <2> QED BY <1>2, <2>1, <2>2 DEF Calm, Changing
<1>3. CASE Update(p)
  <2> DEFINE c == [Idle EXCEPT !.cmd = "update", !.at = "open", !.version = updates']
  <2>1. updates' \in Nat BY <1>3 DEF Update, Typed, HistoryTyped
  <2>2. c \in Jobs /\ c.cmd = "update" BY <1>0, <2>1 DEF Jobs, CommandNames, Places, UpdateAt
  <2> HIDE DEF c
  <2>3. Begin(p, c) BY <1>3 DEF Update, c
  <2>4. job'[p].cmd = "update" /\ \A q \in Procs : ~Calm(q)' BY <1>2, <2>2, <2>3
  <2> QED BY <1>1, <2>4
<1>4. ASSUME NEW m \in Modules \ LongNames, NEW cmd \in Changing, Change(p, cmd, m)
      PROVE  job'[p].cmd \in Changing /\ \A q \in Procs : ~Calm(q)'
  <2> DEFINE c == [Idle EXCEPT !.cmd = cmd, !.at = IF cmd = "enable" THEN "create" ELSE "find", !.m = m]
  <2>1. c \in Jobs /\ c.cmd = cmd BY <1>0 DEF Jobs, CommandNames, Places, EnableAt, DisableAt, Changing
  <2> HIDE DEF c
  <2>2. Begin(p, c) BY <1>4 DEF Change, c
  <2> QED BY <1>2, <2>1, <2>2
<1>5. CASE Load(p)
  <2> DEFINE c == [Idle EXCEPT !.cmd = "load", !.at = "list", !.version = newest]
  <2>1. /\ c \in Jobs /\ c.cmd = "load" /\ c.at = "list" /\ c.version = newest /\ c.got = <<>>
        /\ c.slots = <<>> /\ c.todo = {} /\ c.nb = 0
    <3>1. Idle.got = <<>> /\ Idle.slots = <<>> /\ Idle.todo = {} /\ Idle.nb = 0 BY DEF Idle
    <3> QED BY <1>0, <3>1 DEF Jobs, CommandNames, Places, LoadAt, Typed, HistoryTyped
  <2> HIDE DEF c
  <2>2. Begin(p, c) BY <1>5 DEF Load, c
  <2>3. PICK d \in BOOLEAN :
          /\ job'[p] = [c EXCEPT !.disturbed = d]
          /\ ~d => /\ \A q \in Procs \ {p} : Disturb(job[q], c) => ~Running(q)
                   /\ c.cmd = "load" => ListRoot \notin torn
    BY <1>0, <2>1, <2>2, BeginTyped
  <2>4. /\ job'[p].disturbed = d /\ job'[p].cmd = "load" /\ job'[p].at = "list" /\ job'[p].version = newest
        /\ job'[p].got = <<>> /\ job'[p].slots = <<>> /\ job'[p].todo = {} /\ job'[p].nb = 0
    BY <2>1, <2>3 DEF Jobs
  <2>5. ASSUME ~d, NEW q \in Procs, Running(q) PROVE job[q].cmd = "load"
    <3>1. q # p BY <2>2, <2>5 DEF Begin
    <3>2. ~Disturb(job[q], c) BY <2>3, <2>5, <3>1
    <3>3. job[q].cmd \notin {"update"} \cup Changing BY <2>1, <3>2 DEF Disturb, Changing
    <3>4. job[q].cmd # "none"
      <4>1. PlaceOK(q) /\ job[q].at \in Places BY <1>0 DEF Typed, Jobs
      <4> QED BY <2>5, <4>1 DEF PlaceOK, Places, Running, UpdateAt, LoadAt, EnableAt, DisableAt
    <3>5. job[q].cmd \in CommandNames BY <1>0 DEF Jobs
    <3> QED BY <3>3, <3>4, <3>5 DEF CommandNames, Changing
  <2>6. \A q \in Procs \ {p} : job'[q].disturbed \/ job'[q] = job[q]
    BY <1>0, <2>1, <2>2, BeginTyped, MarkedTyped DEF Others
  <2>7. UNCHANGED status BY <1>5 DEF Load
  <2> QED BY <1>1, <2>1, <2>3, <2>4, <2>5, <2>6, <2>7 DEF Calm, OnlyLoads
<1>6. CASE \E m \in Modules \ LongNames, cmd \in Changing : Change(p, cmd, m)
  <2>1. job'[p].cmd \in Changing /\ \A q \in Procs : ~Calm(q)' BY <1>4, <1>6
  <2> QED BY <1>1, <2>1 DEF Changing
<1> QED BY <1>3, <1>5, <1>6

LEMMA CalmGoesOn ==
  ASSUME Typed, LoadsOK, NEW p \in Procs, Step(p) \/ Dies(p), NEW q \in Procs, Calm(q)'
  PROVE  /\ Calm(q) /\ OnlyLoads' /\ UNCHANGED <<settings, fileVars, history>>
         /\ q # p => job'[q] = job[q]
         /\ q = p => LoadStep(p)
<1>0. job \in [Procs -> Jobs] BY DEF Typed
<1>1. CASE LoadStep(p)
  <2>1. job[p].cmd = "load" /\ job'[p].cmd = "load" /\ UNCHANGED <<settings, fileVars, history>> /\ Alone(p)
    BY <1>1, LoadFrame DEF Alone, Keeps
  <2>2. Calm(q) BY <2>1 DEF Calm, Alone, Keeps
  <2>3. OnlyLoads BY <2>2 DEF LoadsOK
  <2>4. ASSUME NEW o \in Procs, Running(o)' PROVE job'[o].cmd = "load"
    <3>1. CASE o = p BY <2>1, <3>1
    <3>2. CASE o # p BY <2>1, <2>3, <2>4, <3>2 DEF Alone, OnlyLoads, Running
    <3> QED BY <3>1, <3>2
  <2>5. OnlyLoads' BY <2>4 DEF OnlyLoads
  <2> QED BY <1>1, <2>1, <2>2, <2>5 DEF Alone
<1>2. CASE ChangeStep(p)
  <2>1. job[p].cmd \in Changing /\ Alone(p) BY <1>2, ChangeFrame
  <2>2. Calm(q) BY <2>1 DEF Calm, Alone, Keeps, Changing
  <2> QED BY <2>1, <2>2 DEF LoadsOK, OnlyLoads, Alone, Changing
<1>3. CASE UpdateStep(p)
  <2>1. job[p].cmd = "update" /\ Running(p) /\ Others(p) /\ job'[p].cmd = "update" BY <1>3, UpdateFrame
  <2>2. q # p BY <2>1 DEF Calm
  <2>3. Calm(q) BY <1>0, <2>1, <2>2, MarkedTyped DEF Calm, Others
  <2> QED BY <2>1, <2>3 DEF LoadsOK, OnlyLoads
<1>4. CASE Dies(p)
  <2>1. job'[p] = Idle /\ UNCHANGED <<settings, fileVars, history>> /\ \A o \in Procs \ {p} : job'[o] = job[o]
    BY <1>0, <1>4 DEF Dies
  <2>2. Idle.cmd = "none" /\ Idle.at = "idle" BY DEF Idle
  <2>3. q # p BY <2>1, <2>2 DEF Calm
  <2>4. Calm(q) BY <2>1, <2>3 DEF Calm
  <2>5. OnlyLoads BY <2>4 DEF LoadsOK
  <2>6. OnlyLoads' BY <2>1, <2>2, <2>5 DEF OnlyLoads, Running
  <2> QED BY <2>1, <2>3, <2>4, <2>6
<1> QED BY <1>1, <1>2, <1>3, <1>4 DEF Step, LoadStep, ChangeStep, UpdateStep

(* What a load looks at depends on the files alone. *)
LEMMA Frozen ==
  ASSUME UNCHANGED <<settings, fileVars>>
  PROVE  /\ ListRoot' = ListRoot /\ EnabledRoot' = EnabledRoot /\ Names' = Names /\ OwnListCanChange' = OwnListCanChange
         /\ \A x, k : Slot(x, k)' = Slot(x, k)
         /\ \A x, k : Entry(x, k)' = Entry(x, k)
<1>1. ListRoot' = ListRoot /\ EnabledRoot' = EnabledRoot /\ OwnListCanChange' = OwnListCanChange
  BY DEF settings, fileVars, ListRoot, EnabledRoot, GetFile, OwnListCanChange
<1>2. Names' = Names BY DEF settings, fileVars, Names, EntriesOf, EnabledRoot, GetFile
<1>3. \A x, k : Entry(x, k)' = Entry(x, k) BY DEF fileVars, Entry, EntriesOf
<1>4. \A x, k : Slot(x, k)' = Slot(x, k) BY <1>3 DEF fileVars, Slot, Readable
<1> QED BY <1>1, <1>2, <1>3, <1>4

LEMMA LoadKept ==
  ASSUME NEW q \in Procs, ListPart(q), SlotsPart(q), job'[q] = job[q],
         UNCHANGED <<settings, fileVars, torn, newest>>
  PROVE  ListPart(q)' /\ SlotsPart(q)'
<1>1. /\ ListRoot' = ListRoot /\ EnabledRoot' = EnabledRoot /\ Names' = Names /\ OwnListCanChange' = OwnListCanChange
      /\ \A x, k : Slot(x, k)' = Slot(x, k)
  BY Frozen
<1>2. ListPart(q)' BY <1>1 DEF ListPart
<1>3. Filled(q)' = Filled(q) BY DEF Filled
<1>4. SlotsPart(q)' BY <1>1, <1>3 DEF SlotsPart
<1> QED BY <1>2, <1>4

LEMMA Registers ==
  ASSUME job \in [Procs -> Jobs], NEW p \in Procs, Register(p), job[p].todo # {}
  PROVE  /\ job[p].at = "register" /\ job'[p].at = "register" /\ job'[p].got = job[p].got
         /\ job'[p].root = job[p].root /\ job'[p].nb = job[p].nb
         /\ \E m \in job[p].todo :
              /\ job'[p].todo = job[p].todo \ {m}
              /\ job'[p].slots = Append(job[p].slots, <<m, Slot(job[p].root, m)>>)
<1>1. PICK m \in job[p].todo :
        job' = [job EXCEPT ![p].todo = @ \ {m},
                           ![p].slots = Append(@, <<m, Slot(job[p].root, m)>>)]
  BY DEF Register
<1> DEFINE s == Append(job[p].slots, <<m, Slot(job[p].root, m)>>)
<1>2. job' = [job EXCEPT ![p].todo = @ \ {m}, ![p].slots = s] BY <1>1
<1>3. job[p].at = "register" BY DEF Register
<1> HIDE DEF s
<1>4. /\ job'[p].at = "register" /\ job'[p].got = job[p].got
      /\ job'[p].root = job[p].root /\ job'[p].nb = job[p].nb
      /\ job'[p].todo = job[p].todo \ {m} /\ job'[p].slots = s
  BY <1>2, <1>3 DEF Jobs
<1> QED BY <1>1, <1>3, <1>4 DEF s

LEMMA ListPartStep ==
  ASSUME Typed, UpdatesOK, NEW p \in Procs, LoadStep(p), ListPart(p)
  PROVE  ListPart(p)'
<1>0. job \in [Procs -> Jobs] /\ job[p] \in Jobs /\ FilesTyped BY DEF Typed
<1>1. UNCHANGED <<settings, fileVars, torn, newest>> /\ job'[p].version = job[p].version
  BY LoadFrame DEF history, Alone, Keeps
<1>2. ListRoot' = ListRoot /\ OwnListCanChange' = OwnListCanChange BY <1>1, Frozen
<1>3. CASE OpenList(p)
  <2>1. job'[p].at = "read" /\ job'[p].root = ListRoot /\ job'[p].got = job[p].got /\ job[p].at = "list"
    BY <1>0, <1>3 DEF OpenList, Jobs
  <2> QED BY <1>1, <1>2, <2>1 DEF ListPart
<1>4. CASE ReadBlock(p)
  <2> DEFINE blocks == IF job[p].root \in DOMAIN list THEN list[job[p].root] ELSE <<>>
             n == Len(job[p].got)
             got == IF n < Len(blocks) THEN Append(job[p].got, blocks[n + 1]) ELSE job[p].got
             at == IF n = 1 \/ Len(blocks) <= n THEN "count" ELSE job[p].at
  <2>1. job' = [job EXCEPT ![p].got = got, ![p].at = at] /\ job[p].at = "read" BY <1>4 DEF ReadBlock
  <2> HIDE DEF got, at
  <2>2. job'[p].got = got /\ job'[p].at = at /\ job'[p].root = job[p].root BY <1>0, <2>1 DEF Jobs
  <2>3. at \in {"read", "count"} /\ job[p].root = ListRoot BY <2>1 DEF at, ListPart
  <2>4. ASSUME OwnListCanChange
        PROVE  (at = "read" => got = <<newest>>) /\ (at = "count" => got = <<newest, newest>>)
    <3>1. ListRoot \in DOMAIN list BY <1>0 DEF ListRoot, GetFile, FilesTyped
    <3>2. blocks = <<newest, newest>> BY <2>3, <2>4, <3>1 DEF UpdatesOK, ListPart
    <3>3. job[p].got \in {<<>>, <<newest>>} BY <2>1, <2>4 DEF ListPart
    <3> HIDE DEF blocks
    <3>4. CASE job[p].got = <<>>
      <4>1. Append(<<>>, newest) = <<newest>> BY DEF Typed, HistoryTyped
      <4> QED BY <2>1, <3>2, <3>4, <4>1 DEF got, at
    <3>5. CASE job[p].got = <<newest>>
      <4>1. Append(<<newest>>, newest) = <<newest, newest>>
        <5> DEFINE s == <<newest>>  t == <<newest, newest>>  a == Append(s, newest)
        <5>1. newest \in Nat BY DEF Typed, HistoryTyped
        <5>2. s \in Seq(Nat) /\ t \in Seq(Nat) /\ Len(s) = 1 /\ Len(t) = 2 BY <5>1
        <5>3. a \in Seq(Nat) /\ Len(a) = 2 /\ a[1] = s[1] /\ a[2] = newest BY <5>1, <5>2, AppendProperties
        <5>4. s[1] = newest /\ t[1] = newest /\ t[2] = newest OBVIOUS
        <5> HIDE DEF s, t, a
        <5>5. \A i \in 1 .. Len(a) : a[i] = t[i] BY <5>3, <5>4
        <5>6. a = t BY <5>2, <5>3, <5>5, SeqEqual
        <5> QED BY <5>6 DEF a, s, t
      <4> QED BY <2>1, <3>2, <3>5, <4>1 DEF got, at
    <3> QED BY <3>3, <3>4, <3>5
  <2> QED BY <1>1, <1>2, <2>2, <2>3, <2>4 DEF ListPart
<1>5. CASE CountModules(p) \/ RegisterModules(p) \/ Register(p)
  <2>1. /\ job'[p].got = job[p].got
        /\ job[p].at \in {"count", "opendir", "register"} /\ job'[p].at \in {"opendir", "register", "done"}
    <3>1. CASE CountModules(p) BY <1>0, <3>1 DEF CountModules, Jobs
    <3>2. CASE RegisterModules(p) BY <1>0, <3>2 DEF RegisterModules, Jobs
    <3>3. CASE Register(p)
      <4>1. CASE job[p].todo = {}
        <5>1. job' = [job EXCEPT ![p].at = "done", ![p].ok = TRUE] /\ job[p].at = "register"
          BY <3>3, <4>1 DEF Register, End
        <5> QED BY <1>0, <5>1 DEF Jobs
      <4>2. CASE job[p].todo # {} BY <1>0, <3>3, <4>2, Registers
      <4> QED BY <4>1, <4>2
    <3> QED BY <1>5, <3>1, <3>2, <3>3
  <2> QED BY <1>1, <1>2, <2>1 DEF ListPart
<1> QED BY <1>3, <1>4, <1>5 DEF LoadStep

LEMMA SlotsPartStep ==
  ASSUME Typed, NEW p \in Procs, LoadStep(p), SlotsPart(p)
  PROVE  SlotsPart(p)'
<1>0. job \in [Procs -> Jobs] /\ job[p] \in Jobs /\ FilesTyped BY DEF Typed
<1>1. /\ EnabledRoot' = EnabledRoot /\ Names' = Names
      /\ \A x, k : Slot(x, k)' = Slot(x, k)
  BY LoadFrame, Frozen
<1>2. Names \subseteq Modules /\ IsFiniteSet(Names) /\ Cardinality(Names) \in Nat
  <2>1. Names \subseteq Modules
    <3>1. CASE EnabledRoot \in DOMAIN enabled BY <1>0, <3>1 DEF EntriesOf, FilesTyped, Names
    <3>2. CASE EnabledRoot \notin DOMAIN enabled BY <3>2 DEF EntriesOf, Names
    <3> QED BY <3>1, <3>2
  <2> QED BY <2>1, ModulesAreNames, FS_Subset, FS_CardinalityType
<1>3. CASE OpenList(p) \/ ReadBlock(p)
  <2>1. /\ job[p].at \in {"list", "read"} /\ job'[p].at \in {"read", "count"}
        /\ job'[p].slots = job[p].slots /\ job'[p].todo = job[p].todo /\ job'[p].nb = job[p].nb
    <3>1. CASE OpenList(p) BY <1>0, <3>1 DEF OpenList, Jobs
    <3>2. CASE ReadBlock(p) BY <1>0, <3>2 DEF ReadBlock, Jobs
    <3> QED BY <1>3, <3>1, <3>2
  <2> QED BY <2>1 DEF SlotsPart
<1>4. CASE CountModules(p)
  <2>1. job[p].at = "count" /\ job[p].slots = <<>> /\ job[p].todo = {} /\ job[p].nb = 0
    BY <1>4 DEF CountModules, SlotsPart
  <2>2. CASE Names = {}
    <3>1. job' = [job EXCEPT ![p].at = "done", ![p].ok = TRUE] BY <1>4, <2>2 DEF CountModules, Names
    <3>2. job'[p].at = "done" /\ job'[p].slots = <<>> /\ job'[p].todo = {} /\ job'[p].nb = 0
      BY <1>0, <2>1, <3>1 DEF Jobs
    <3>3. Filled(p)' = {} /\ Len(<<>>) = 0 /\ DOMAIN <<>> = {} BY <3>2 DEF Filled
    <3>4. Cardinality(Names) = 0 BY <2>2, FS_EmptySet
    <3> QED BY <1>1, <2>2, <3>2, <3>3, <3>4 DEF SlotsPart
  <2>3. CASE Names # {}
    <3>1. job' = [job EXCEPT ![p].at = "opendir", ![p].nb = Cardinality(Names)]
      BY <1>4, <2>3 DEF CountModules, Names
    <3>2. /\ job'[p].at = "opendir" /\ job'[p].slots = <<>> /\ job'[p].todo = {}
          /\ job'[p].nb = Cardinality(Names)
      BY <1>0, <2>1, <3>1 DEF Jobs
    <3> QED BY <1>1, <3>2 DEF SlotsPart
  <2> QED BY <2>2, <2>3
<1>5. CASE RegisterModules(p)
  <2>1. job[p].at = "opendir" /\ job[p].slots = <<>> /\ job[p].nb = Cardinality(Names)
    BY <1>5 DEF RegisterModules, SlotsPart
  <2>2. job' = [job EXCEPT ![p].at = "register", ![p].todo = Names, ![p].root = EnabledRoot]
    BY <1>5 DEF RegisterModules, Names
  <2>3. /\ job'[p].at = "register" /\ job'[p].slots = <<>> /\ job'[p].todo = Names
        /\ job'[p].root = EnabledRoot /\ job'[p].nb = Cardinality(Names)
    BY <1>0, <2>1, <2>2 DEF Jobs
  <2>4. Filled(p)' = {} /\ Len(<<>>) = 0 /\ DOMAIN <<>> = {} BY <2>3 DEF Filled
  <2> QED BY <1>1, <1>2, <2>3, <2>4 DEF SlotsPart
<1>6. CASE Register(p) /\ job[p].todo = {}
  <2>1. job' = [job EXCEPT ![p].at = "done", ![p].ok = TRUE] /\ job[p].at = "register"
    BY <1>6 DEF Register, End
  <2>2. /\ job'[p].at = "done" /\ job'[p].slots = job[p].slots /\ job'[p].todo = job[p].todo
        /\ job'[p].nb = job[p].nb
    BY <1>0, <2>1 DEF Jobs
  <2>3. Filled(p)' = Filled(p) BY <2>2 DEF Filled
  <2> QED BY <1>1, <1>6, <2>1, <2>2, <2>3 DEF SlotsPart
<1>7. CASE Register(p) /\ job[p].todo # {}
  <2>1. PICK m \in job[p].todo :
          /\ job'[p].todo = job[p].todo \ {m}
          /\ job'[p].slots = Append(job[p].slots, <<m, Slot(job[p].root, m)>>)
    BY <1>0, <1>7, Registers
  <2>2. /\ job[p].at = "register" /\ job'[p].at = "register" /\ job'[p].root = job[p].root
        /\ job'[p].nb = job[p].nb
    BY <1>0, <1>7, Registers
  <2>3. job[p].root = EnabledRoot BY <2>2 DEF SlotsPart
  <2> DEFINE s == job[p].slots  e == <<m, Slot(EnabledRoot, m)>>  S == Modules \X {"code", "empty", "failed"}
             n == Len(s)
  <2>4. s \in Seq(S) BY <1>0 DEF Jobs, Slots
  <2>5. e \in S
    <3>1. m \in Modules BY <1>0 DEF Jobs
    <3>2. Slot(EnabledRoot, m) \in {"code", "empty", "failed"}
      BY <1>0 DEF Slot, Readable, Entry, FilesTyped, Contents
    <3> QED BY <3>1, <3>2
  <2>6. e[1] = m /\ e[2] = Slot(EnabledRoot, m) OBVIOUS
  <2>7. job'[p].slots = Append(s, e) BY <2>1, <2>3
  <2> HIDE DEF s, e, S
  <2>8. /\ DOMAIN s = 1 .. n /\ DOMAIN job'[p].slots = 1 .. (n + 1) /\ Len(job'[p].slots) = n + 1 /\ n \in Nat
        /\ \A i \in 1 .. n : job'[p].slots[i] = s[i]
        /\ job'[p].slots[n + 1] = e
    BY <2>4, <2>5, <2>7, AppendProperties, LenProperties
  <2>9. m \in Names /\ job[p].todo \subseteq Names BY <2>1, <2>2 DEF SlotsPart
  <2>10. Filled(p)' = Filled(p) \cup {m}
    <3>1. Filled(p) = {s[i][1] : i \in 1 .. n} BY <2>8 DEF Filled, s
    <3>2. Filled(p)' = {job'[p].slots[i][1] : i \in 1 .. (n + 1)} BY <2>8 DEF Filled
    <3>3. 1 .. (n + 1) = (1 .. n) \cup {n + 1} BY <2>8
    <3> QED BY <2>6, <2>8, <3>1, <3>2, <3>3
  <2>11. \A i \in DOMAIN job'[p].slots : job'[p].slots[i][2] = Slot(EnabledRoot, job'[p].slots[i][1])
    <3>1. \A i \in 1 .. n : s[i][2] = Slot(EnabledRoot, s[i][1]) BY <2>2, <2>8 DEF SlotsPart, s
    <3>2. ASSUME NEW i \in 1 .. (n + 1) PROVE job'[p].slots[i][2] = Slot(EnabledRoot, job'[p].slots[i][1])
      <4>1. CASE i \in 1 .. n BY <2>8, <3>1, <4>1
      <4>2. CASE i = n + 1 BY <2>6, <2>8, <4>2
      <4> QED BY <2>8, <4>1, <4>2
    <3> QED BY <2>8, <3>2
  <2>12. Len(job'[p].slots) + Cardinality(job'[p].todo) = Cardinality(Names)
    <3>1. IsFiniteSet(job[p].todo) BY <1>2, <2>9, FS_Subset
    <3>2. Cardinality(job[p].todo \ {m}) = Cardinality(job[p].todo) - 1 /\ Cardinality(job[p].todo) \in Nat
      BY <2>1, <3>1, FS_RemoveElement, FS_CardinalityType
    <3>3. n + Cardinality(job[p].todo) = Cardinality(Names) BY <2>2 DEF SlotsPart, s
    <3>4. Cardinality(job'[p].todo) = Cardinality(job[p].todo \ {m}) BY <2>1
    <3> QED BY <1>2, <2>8, <3>2, <3>3, <3>4
  <2>13. job'[p].todo \subseteq Names /\ Filled(p)' = Names \ job'[p].todo
    BY <2>1, <2>2, <2>9, <2>10 DEF SlotsPart
  <2>14. job'[p].nb = Cardinality(Names) BY <2>2 DEF SlotsPart
  <2> HIDE DEF n
  <2> QED BY <1>1, <2>2, <2>3, <2>11, <2>12, <2>13, <2>14 DEF SlotsPart
<1> QED BY <1>3, <1>4, <1>5, <1>6, <1>7 DEF LoadStep

LEMMA LoadsBegin ==
  ASSUME Typed, LoadsOK, NEW p \in Procs, BeginStep(p)
  PROVE  LoadsOK'
<1>0. job \in [Procs -> Jobs] BY DEF Typed
<1>1. UNCHANGED <<settings, fileVars, torn, newest>> BY LoadBegins
<1>2. ASSUME NEW q \in Procs, Calm(q)' PROVE OnlyLoads
  <2>1. CASE q = p BY <1>2, <2>1, LoadBegins
  <2>2. CASE q # p
    <3>1. job'[q] = job[q] BY <1>2, <2>2, LoadBegins
    <3> QED BY <1>2, <3>1 DEF Calm, LoadsOK
  <2> QED BY <2>1, <2>2
<1>3. Others(p)
  <2>1. \A c \in Jobs : Begin(p, c) => Others(p) BY <1>0, BeginTyped
  <2>2. \E c \in Jobs : Begin(p, c) BY BeginsCommand
  <2> QED BY <2>1, <2>2
<1>4. ASSUME NEW q \in Procs, Calm(q)' PROVE OnlyLoads'
  <2>1. OnlyLoads /\ job'[p].cmd = "load" BY <1>2, <1>4, LoadBegins
  <2>2. \A o \in Procs \ {p} : job'[o].cmd = job[o].cmd /\ job'[o].at = job[o].at
    BY <1>0, <1>3, MarkedTyped DEF Others
  <2> QED BY <2>1, <2>2 DEF OnlyLoads, Running
<1>5. ASSUME NEW q \in Procs \ {p}, Calm(q)' PROVE ListPart(q)' /\ SlotsPart(q)'
  <2>1. job'[q] = job[q] BY <1>5, LoadBegins
  <2>2. ListPart(q) /\ SlotsPart(q) BY <1>5, <2>1 DEF Calm, LoadsOK
  <2> QED BY <1>1, <2>1, <2>2, LoadKept
<1>6. ASSUME Calm(p)' PROVE ListPart(p)' /\ SlotsPart(p)'
  <2>1. /\ ListRoot \notin torn /\ job'[p].at = "list" /\ job'[p].version = newest /\ job'[p].got = <<>>
        /\ job'[p].slots = <<>> /\ job'[p].todo = {} /\ job'[p].nb = 0
    BY <1>6, LoadBegins
  <2>2. ListRoot' = ListRoot BY <1>1, Frozen
  <2> QED BY <1>1, <2>1, <2>2 DEF ListPart, SlotsPart
<1> QED BY <1>4, <1>5, <1>6 DEF LoadsOK

LEMMA LoadsNext == Typed /\ UpdatesOK /\ LoadsOK /\ [Next]_vars => LoadsOK'
<1> SUFFICES ASSUME Typed, UpdatesOK, LoadsOK, [Next]_vars PROVE LoadsOK'
  OBVIOUS
<1>1. CASE UNCHANGED vars
  <2>1. \A q \in Procs : Calm(q)' = Calm(q) BY <1>1 DEF vars, Calm
  <2>2. OnlyLoads' = OnlyLoads BY <1>1 DEF vars, OnlyLoads, Running
  <2>3. ASSUME NEW q \in Procs, Calm(q) PROVE ListPart(q)' /\ SlotsPart(q)'
    BY <1>1, <2>3, LoadKept DEF LoadsOK, vars, history
  <2> QED BY <2>1, <2>2, <2>3 DEF LoadsOK
<1>2. ASSUME NEW p \in Procs, BeginStep(p) PROVE LoadsOK'
  BY <1>2, LoadsBegin
<1>3. ASSUME NEW p \in Procs, Step(p) \/ Dies(p) PROVE LoadsOK'
  <2>1. ASSUME NEW q \in Procs, Calm(q)' PROVE OnlyLoads' /\ ListPart(q)' /\ SlotsPart(q)'
    <3>1. /\ Calm(q) /\ OnlyLoads' /\ UNCHANGED <<settings, fileVars, history>>
          /\ q # p => job'[q] = job[q]
          /\ q = p => LoadStep(p)
      BY <1>3, <2>1, CalmGoesOn
    <3>2. ListPart(q) /\ SlotsPart(q) BY <3>1 DEF LoadsOK
    <3>3. CASE q # p BY <3>1, <3>2, <3>3, LoadKept DEF history
    <3>4. CASE q = p BY <3>1, <3>2, <3>4, ListPartStep, SlotsPartStep
    <3> QED BY <3>1, <3>3, <3>4
  <2> QED BY <2>1 DEF LoadsOK
<1> QED BY <1>1, <1>2, <1>3 DEF Next, BeginStep

(***************************************************************************)
(* What the last command left of a module, and what one that nothing       *)
(* disturbs has done so far: the entries of a module change through        *)
(* commands on it alone.                                                   *)
(***************************************************************************)
ChangeRuns(p, m) == Running(p) /\ job[p].cmd \in Changing /\ job[p].m = m

Removed(m) ==
  IF env_set THEN Entry("env", m) = "none"
  ELSE ~Readable("home", m) /\ ("home" \notin DOMAIN enabled => Entry("global", m) = "none")

StatusFits(m, now) ==
  /\ now = "on" => Entry("home", m) = "link" /\ m \in DOMAIN available
  /\ now = "undone" => "home" \in DOMAIN enabled /\ Entry("home", m) = "none"
  /\ now = "off" => Removed(m)
  /\ now = "installed" => Entry("global", m) = "file" /\ (env_set => Entry("env", m) = "file")

ChangeFits(p) ==
  /\ job[p].at = "check" => Entry("home", job[p].m) = "link"
  /\ job[p].at = "remove" => job[p].root = EntryRoot(job[p].m)

StatusOK ==
  /\ \A m \in Modules : StatusFits(m, status[m])
  /\ \A m \in Modules, p \in Procs : status[m] # "unknown" => ~ChangeRuns(p, m)

ChangesOK ==
  \A p \in Procs :
    Running(p) /\ job[p].cmd \in Changing /\ ~job[p].disturbed =>
      /\ \A q \in Procs \ {p} : ~ChangeRuns(q, job[p].m)
      /\ ChangeFits(p)

LEMMA EntriesInit == Init => StatusOK /\ ChangesOK /\ LoadsOK
<1> SUFFICES ASSUME Init PROVE StatusOK /\ ChangesOK /\ LoadsOK
  OBVIOUS
<1>1. \A p \in Procs : job[p].cmd = "none" /\ ~Running(p)
  <2>1. Idle.cmd = "none" /\ Idle.at = "idle" BY DEF Idle
  <2> QED BY <2>1 DEF Init, Running
<1>2. PICK names \in SUBSET Installed :
        /\ enabled = [r \in GivenRoots |-> [m \in names |-> "file"]]
        /\ status = [m \in Modules |-> IF m \in names THEN "installed" ELSE "unknown"]
  BY DEF Init
<1>3. ASSUME NEW m \in Modules PROVE StatusFits(m, status[m])
  <2>1. CASE m \in names
    <3>1. \A r \in GivenRoots : Entry(r, m) = "file" BY <1>2, <2>1 DEF Entry, EntriesOf
    <3> QED BY <1>2, <2>1, <3>1 DEF StatusFits, GivenRoots
  <2>2. CASE m \notin names BY <1>2, <2>2 DEF StatusFits
  <2> QED BY <2>1, <2>2
<1> QED BY <1>1, <1>3 DEF StatusOK, ChangesOK, LoadsOK, ChangeRuns, Calm

(* The entries of m are as they were. *)
LEMMA EntriesKept ==
  ASSUME NEW m \in Modules, Untouched(m), UNCHANGED settings, DOMAIN enabled \subseteq DOMAIN enabled'
  PROVE  /\ \A now : StatusFits(m, now) => StatusFits(m, now)'
         /\ EntryRoot(m)' = EntryRoot(m)
<1>1. Readable("home", m)' = Readable("home", m) BY DEF Readable, Untouched
<1>2. EntryRoot(m)' = EntryRoot(m) BY <1>1 DEF EntryRoot, GetFile, settings
<1>3. Removed(m) => Removed(m)' BY <1>1 DEF Removed, Untouched, settings
<1>4. ASSUME NEW now, StatusFits(m, now) PROVE StatusFits(m, now)'
  BY <1>3, <1>4 DEF StatusFits, Untouched, settings
<1> QED BY <1>2, <1>4

(* What a command does to its own module *)
LEMMA ChangeOfItsOwn ==
  ASSUME Typed, NEW p \in Procs, ChangeStep(p), ~job[p].disturbed => ChangeFits(p),
         NEW m, m = job[p].m, status[m] = "unknown"
  PROVE  /\ ChangeFits(p)'
         /\ \/ status'[m] = "unknown"
            \/ ~job[p].disturbed /\ StatusFits(m, status[m])' /\ ~Running(p)'
<1>0. /\ job \in [Procs -> Jobs] /\ job[p] \in Jobs /\ FilesTyped /\ PlaceOK(p)
      /\ status \in [Modules -> {"installed", "unknown", "on", "off", "undone"}]
  BY DEF Typed, HistoryTyped
<1>1. m \in Modules /\ UNCHANGED <<settings, list, env_set>> /\ job'[p].m = m
  BY ChangeFrame DEF settings, Alone, Keeps
<1>2. ASSUME UNCHANGED status, job'[p].at \notin {"check", "remove"}
      PROVE  /\ ChangeFits(p)'
             /\ \/ status'[m] = "unknown"
                \/ ~job[p].disturbed /\ StatusFits(m, status[m])' /\ ~Running(p)'
  BY <1>2 DEF ChangeFits
<1>3. ASSUME job'[p].at = "done", NEW now \in {"on", "off", "undone"}, StatusAfter(p, now),
             ~job[p].disturbed => StatusFits(m, now)'
      PROVE  /\ ChangeFits(p)'
             /\ \/ status'[m] = "unknown"
                \/ ~job[p].disturbed /\ StatusFits(m, status[m])' /\ ~Running(p)'
  <2>1. ChangeFits(p)' /\ ~Running(p)' BY <1>3 DEF ChangeFits, Running
  <2>2. CASE job[p].disturbed BY <1>3, <2>1, <2>2 DEF StatusAfter
  <2>3. CASE ~job[p].disturbed
    <3>1. status'[m] = now BY <1>0, <1>1, <1>3, <2>3 DEF StatusAfter
    <3>2. StatusFits(m, status[m])' BY <1>3, <2>3, <3>1 DEF StatusFits
    <3> QED BY <2>1, <2>3, <3>2
  <2> QED BY <2>2, <2>3
<1>4. CASE CreateInHome(p)
  <2>1. UNCHANGED status BY <1>4 DEF CreateInHome, history
  <2>2. job'[p].at \in {"create", "unlink", "done"}
    <3>1. \/ UNCHANGED job \/ job' = [job EXCEPT ![p].at = "unlink"]
          \/ job' = [job EXCEPT ![p].at = "done", ![p].ok = FALSE]
      BY <1>4 DEF CreateInHome, Goto, End
    <3>2. job[p].at = "create" BY <1>4 DEF CreateInHome
    <3> QED BY <1>0, <3>1, <3>2 DEF Jobs
  <2> QED BY <1>2, <2>1, <2>2
<1>5. CASE UnlinkCreated(p)
  <2>1. UNCHANGED status /\ job'[p].at = "symlink" BY <1>0, <1>5 DEF UnlinkCreated, history, Goto, Jobs
  <2> QED BY <1>2, <2>1
<1>6. CASE Symlink(p)
  <2>1. UNCHANGED status /\ UNCHANGED available BY <1>6 DEF Symlink, history
  <2>2. CASE Entry("home", m) = "none"
    <3>1. job'[p].at = "check" /\ Link("home", m, "link") BY <1>0, <1>6, <2>2 DEF Symlink, Goto, Jobs
    <3>2. "home" \in DOMAIN enabled BY <1>0, <1>6 DEF Symlink, PlaceOK, EnableAt
    <3>3. Entry("home", m)' = "link" BY <1>0, <1>1, <2>1, <3>1, <3>2, Linked DEF Now
    <3>4. ChangeFits(p)' BY <1>1, <3>1, <3>3 DEF ChangeFits
    <3> QED BY <2>1, <3>4
  <2>3. CASE Entry("home", m) # "none"
    <3>1. job'[p].at = "done"
      <4>1. job' = [job EXCEPT ![p].at = "done", ![p].ok = FALSE] BY <1>6, <2>3 DEF Symlink, End
      <4> QED BY <1>0, <4>1 DEF Jobs
    <3> QED BY <1>2, <2>1, <3>1
  <2> QED BY <2>2, <2>3
<1>7. CASE CheckLink(p)
  <2>1. UNCHANGED <<enabled, available>> BY <1>7 DEF CheckLink, fileVars
  <2>2. CASE Readable("home", m)
    <3>1. job'[p].at = "done" /\ StatusAfter(p, "on")
      <4>1. job' = [job EXCEPT ![p].at = "done", ![p].ok = TRUE] /\ StatusAfter(p, "on")
        BY <1>7, <2>2 DEF CheckLink, End
      <4> QED BY <1>0, <4>1 DEF Jobs
    <3>2. ASSUME ~job[p].disturbed PROVE StatusFits(m, "on")'
      <4>1. Entry("home", m) = "link" BY <1>7, <3>2 DEF CheckLink, ChangeFits
      <4>2. m \in DOMAIN available BY <2>2, <4>1 DEF Readable
      <4>3. Entry("home", m)' = "link" BY <2>1, <4>1 DEF Entry, EntriesOf
      <4> QED BY <2>1, <4>2, <4>3 DEF StatusFits
    <3> QED BY <1>3, <3>1, <3>2
  <2>3. CASE ~Readable("home", m)
    <3>1. job'[p].at = "undo" /\ UNCHANGED status BY <1>0, <1>7, <2>3 DEF CheckLink, Goto, Jobs
    <3> QED BY <1>2, <3>1
  <2> QED BY <2>2, <2>3
<1>8. CASE UndoLink(p)
  <2>1. job'[p].at = "done" /\ StatusAfter(p, "undone") /\ Unlink("home", m) /\ UNCHANGED available
    BY <1>0, <1>8 DEF UndoLink, End, Jobs
  <2>2. "home" \in DOMAIN enabled BY <1>0, <1>8 DEF UndoLink, PlaceOK, EnableAt
  <2>3. Entry("home", m)' = "none" /\ DOMAIN enabled' = DOMAIN enabled
    BY <1>0, <1>1, <2>1, Unlinked DEF Now
  <2>4. StatusFits(m, "undone")' BY <2>2, <2>3 DEF StatusFits
  <2> QED BY <1>3, <2>1, <2>4
<1>9. CASE FindEntry(p)
  <2>1. UNCHANGED <<enabled, available, status>> BY <1>9 DEF FindEntry, fileVars, history
  <2>2. job'[p].at = "remove" /\ job'[p].root = EntryRoot(m)
    <3> HIDE DEF EntryRoot
    <3> QED BY <1>0, <1>9 DEF FindEntry, Jobs
  <2>3. EntryRoot(m)' = EntryRoot(m)
    BY <1>1, <2>1 DEF EntryRoot, GetFile, Readable, Entry, EntriesOf
  <2>4. ChangeFits(p)'
    <3> HIDE DEF EntryRoot
    <3> QED BY <1>1, <2>2, <2>3 DEF ChangeFits
  <2> QED BY <2>1, <2>4
<1>10. CASE RemoveEntry(p)
  <2> DEFINE r == job[p].root
             there == r \in writable /\ Entry(r, m) # "none"
  <2>1. CASE there
    <3>1. job'[p].at = "done" /\ StatusAfter(p, "off") /\ Unlink(r, m) /\ UNCHANGED available
      BY <1>0, <1>10, <2>1 DEF RemoveEntry, End, Jobs
    <3>2. DOMAIN enabled' = DOMAIN enabled /\ Now(r, m, "none") BY <1>0, <1>1, <3>1, Unlinked
    <3>3. ASSUME ~job[p].disturbed PROVE StatusFits(m, "off")'
      <4>1. r = EntryRoot(m) BY <1>10, <3>3 DEF RemoveEntry, ChangeFits
      <4> HIDE DEF r
      <4>2. CASE env_set
        <5>1. r = "env" BY <4>1, <4>2 DEF EntryRoot, GetFile
        <5>2. Entry("env", m)' = "none" BY <3>2, <5>1 DEF Now
        <5> QED BY <1>1, <4>2, <5>2 DEF StatusFits, Removed
      <4>3. CASE ~env_set /\ Readable("home", m)
        <5>1. r = "home" BY <4>1, <4>3 DEF EntryRoot, GetFile
        <5>2. Entry("home", m)' = "none" BY <3>2, <5>1 DEF Now
        <5>3. "home" \in DOMAIN enabled BY <4>3 DEF Readable, Entry, EntriesOf
        <5>4. ~Readable("home", m)' BY <5>2 DEF Readable
        <5> QED BY <1>1, <3>2, <4>3, <5>3, <5>4 DEF StatusFits, Removed
      <4>4. CASE ~env_set /\ ~Readable("home", m)
        <5>1. r = "global" BY <4>1, <4>4 DEF EntryRoot, GetFile
        <5>2. Entry("global", m)' = "none" /\ Entry("home", m)' = Entry("home", m) BY <3>2, <5>1 DEF Now
        <5>3. ~Readable("home", m)' BY <3>1, <4>4, <5>2 DEF Readable
        <5> QED BY <1>1, <4>4, <5>2, <5>3 DEF StatusFits, Removed
      <4> QED BY <4>2, <4>3, <4>4
    <3> QED BY <1>3, <3>1, <3>3
  <2>2. CASE ~there
    <3>1. job'[p].at = "done" /\ UNCHANGED status
      <4>1. \E ok : job' = [job EXCEPT ![p].at = "done", ![p].ok = ok] BY <1>10 DEF RemoveEntry, End
      <4>2. UNCHANGED status BY <1>10, <2>2 DEF RemoveEntry
      <4> QED BY <1>0, <4>1, <4>2 DEF Jobs
    <3> QED BY <1>2, <3>1
  <2> QED BY <2>1, <2>2
<1> QED BY <1>4, <1>5, <1>6, <1>7, <1>8, <1>9, <1>10 DEF ChangeStep

LEMMA EntriesChange ==
  ASSUME Typed, StatusOK, ChangesOK, NEW p \in Procs, ChangeStep(p)
  PROVE  StatusOK' /\ ChangesOK'
<1>0. PICK m : m = job[p].m OBVIOUS
<1>1. /\ job[p].cmd \in Changing /\ m \in Modules /\ UNCHANGED settings /\ Alone(p)
      /\ DOMAIN enabled \subseteq DOMAIN enabled'
      /\ \A k \in Modules \ {m} : Untouched(k) /\ status'[k] = status[k]
  BY <1>0, ChangeFrame
<1>2. ChangeRuns(p, m) /\ status[m] = "unknown" BY <1>0, <1>1 DEF ChangeRuns, Alone, StatusOK
<1>3. /\ ChangeFits(p)'
      /\ \/ status'[m] = "unknown"
         \/ ~job[p].disturbed /\ StatusFits(m, status[m])' /\ ~Running(p)'
  <2>1. ~job[p].disturbed => ChangeFits(p) BY <1>2 DEF ChangesOK, ChangeRuns
  <2> QED BY <1>0, <1>2, <2>1, ChangeOfItsOwn
<1>4. /\ job'[p].cmd \in Changing /\ job'[p].m = m /\ job'[p].disturbed = job[p].disturbed
      /\ \A q \in Procs \ {p} : job'[q] = job[q]
      /\ \A q \in Procs \ {p} : \A k : ChangeRuns(q, k)' = ChangeRuns(q, k)
  BY <1>0, <1>1 DEF Alone, Keeps, ChangeRuns, Running
<1>5. ~job[p].disturbed => \A q \in Procs \ {p} : ~ChangeRuns(q, m) BY <1>2 DEF ChangesOK, ChangeRuns
<1>6. ASSUME NEW k \in Modules PROVE StatusFits(k, status[k])'
  <2>1. CASE k = m BY <1>3, <2>1 DEF StatusFits
  <2>2. CASE k # m
    <3>1. Untouched(k) /\ status'[k] = status[k] /\ StatusFits(k, status[k]) BY <1>1, <2>2 DEF StatusOK
    <3>2. \A now : StatusFits(k, now) => StatusFits(k, now)' BY <1>1, <3>1, EntriesKept
    <3> QED BY <3>1, <3>2 DEF StatusFits
  <2> QED BY <2>1, <2>2
<1>7. ASSUME NEW k \in Modules, NEW q \in Procs, status'[k] # "unknown" PROVE ~ChangeRuns(q, k)'
  <2>1. CASE k = m
    <3>1. ~job[p].disturbed /\ ~Running(p)' BY <1>3, <1>7, <2>1
    <3> QED BY <1>4, <1>5, <2>1, <3>1 DEF ChangeRuns
  <2>2. CASE k # m
    <3>1. ~ChangeRuns(q, k) BY <1>1, <1>7, <2>2 DEF StatusOK
    <3>2. CASE q = p BY <1>4, <2>2, <3>2 DEF ChangeRuns
    <3>3. CASE q # p BY <1>4, <3>1, <3>3
    <3> QED BY <3>2, <3>3
  <2> QED BY <2>1, <2>2
<1>8. ASSUME NEW q \in Procs, Running(q)', job'[q].cmd \in Changing, ~job'[q].disturbed
      PROVE  /\ \A o \in Procs \ {q} : ~ChangeRuns(o, job[q].m)'
             /\ ChangeFits(q)'
  <2>1. CASE q = p
    <3>1. \A o \in Procs \ {q} : ~ChangeRuns(o, m)' BY <1>4, <1>5, <1>8, <2>1
    <3> QED BY <1>3, <1>4, <2>1, <3>1 DEF ChangeRuns
  <2>2. CASE q # p
    <3>1. job'[q] = job[q] /\ Running(q) BY <1>4, <1>8, <2>2 DEF Running
    <3>2. /\ \A o \in Procs \ {q} : ~ChangeRuns(o, job[q].m)
          /\ ChangeFits(q)
      BY <1>8, <3>1 DEF ChangesOK
    <3>3. job[q].m # m BY <1>2, <2>2, <3>2
    <3>4. job[q].m \in Modules BY <1>8, <3>1 DEF Typed, PlaceOK
    <3>5. PICK k : k = job[q].m OBVIOUS
    <3>6. k \in Modules /\ k # m /\ Untouched(k) /\ k = job'[q].m BY <1>1, <3>1, <3>3, <3>4, <3>5
    <3>7. EntryRoot(k)' = EntryRoot(k) /\ Entry("home", k)' = Entry("home", k)
      BY <1>1, <3>6, EntriesKept DEF Untouched
    <3>8. /\ job'[q].at = "check" => Entry("home", k)' = "link"
          /\ job'[q].at = "remove" => job'[q].root = EntryRoot(k)'
      BY <3>1, <3>2, <3>5, <3>7 DEF ChangeFits
    <3>9. ChangeFits(q)' BY <3>6, <3>8 DEF ChangeFits
    <3>10. \A o \in Procs \ {q} : ~ChangeRuns(o, k)'
      BY <1>4, <2>2, <3>1, <3>2, <3>5, <3>6 DEF ChangeRuns
    <3>11. \A o \in Procs \ {q} : ~ChangeRuns(o, job[q].m)'
      BY <3>6, <3>10 DEF ChangeRuns
    <3> QED BY <3>9, <3>11
  <2> QED BY <2>1, <2>2
<1>9. StatusOK' BY <1>6, <1>7 DEF StatusOK
<1>10. ChangesOK' BY <1>8 DEF ChangesOK
<1> QED BY <1>9, <1>10

LEMMA EntriesBegin ==
  ASSUME Typed, StatusOK, ChangesOK, NEW p \in Procs, BeginStep(p)
  PROVE  StatusOK' /\ ChangesOK'
<1>0. Idle \in Jobs /\ job \in [Procs -> Jobs] BY IdleTyped DEF Typed
<1>1. UNCHANGED <<settings, fileVars>> BY DEF BeginStep, Update, Load, Change
<1>2. \A k \in Modules : Untouched(k) BY <1>1 DEF fileVars, Untouched, Entry, EntriesOf
<1>3. \A k \in Modules : /\ \A now : StatusFits(k, now) => StatusFits(k, now)'
                        /\ EntryRoot(k)' = EntryRoot(k) /\ Entry("home", k)' = Entry("home", k)
  BY <1>1, <1>2, EntriesKept DEF Untouched, fileVars
<1>4. PICK c \in Jobs :
        /\ Begin(p, c)
        /\ \/ c.cmd \in {"update", "load"} /\ UNCHANGED status
           \/ /\ c.cmd \in Changing /\ c.at \in {"create", "find"} /\ c.m \in Modules
              /\ status' = [status EXCEPT ![c.m] = "unknown"]
  <2>1. CASE Update(p)
    <3> DEFINE c == [Idle EXCEPT !.cmd = "update", !.at = "open", !.version = updates']
    <3>1. updates' \in Nat BY <2>1 DEF Update, Typed, HistoryTyped
    <3>2. c \in Jobs /\ c.cmd = "update" BY <1>0, <3>1 DEF Jobs, CommandNames, Places, UpdateAt
    <3> QED BY <2>1, <3>2 DEF Update
  <2>2. CASE Load(p)
    <3> DEFINE c == [Idle EXCEPT !.cmd = "load", !.at = "list", !.version = newest]
    <3>1. c \in Jobs /\ c.cmd = "load" BY <1>0 DEF Jobs, CommandNames, Places, LoadAt, Typed, HistoryTyped
    <3> QED BY <2>2, <3>1 DEF Load
  <2>3. ASSUME NEW m \in Modules \ LongNames, NEW cmd \in Changing, Change(p, cmd, m)
        PROVE  \E c \in Jobs :
                 /\ Begin(p, c)
                 /\ c.cmd \in Changing /\ c.at \in {"create", "find"} /\ c.m \in Modules
                 /\ status' = [status EXCEPT ![c.m] = "unknown"]
    <3> DEFINE c == [Idle EXCEPT !.cmd = cmd, !.at = IF cmd = "enable" THEN "create" ELSE "find", !.m = m]
    <3>1. c \in Jobs /\ c.cmd = cmd /\ c.at \in {"create", "find"} /\ c.m = m
      BY <1>0 DEF Jobs, CommandNames, Places, EnableAt, DisableAt, Changing
    <3>2. Begin(p, c) /\ status' = [status EXCEPT ![m] = "unknown"] BY <2>3 DEF Change
    <3> HIDE DEF c
    <3> QED BY <3>1, <3>2
  <2> QED BY <2>1, <2>2, <2>3 DEF BeginStep
<1>5. /\ Others(p)
      /\ \A q \in Procs \ {p} : Disturb(job[q], c) => job'[q] = Marked(job[q])
  BY <1>0, <1>4, BeginTyped
<1>6. PICK d \in BOOLEAN :
        /\ job'[p] = [c EXCEPT !.disturbed = d]
        /\ ~d => \A q \in Procs \ {p} : Disturb(job[q], c) => ~Running(q)
  BY <1>0, <1>4, BeginTyped
<1>7. job'[p].cmd = c.cmd /\ job'[p].at = c.at /\ job'[p].m = c.m /\ job'[p].disturbed = d BY <1>6 DEF Jobs
<1>8. ASSUME NEW q \in Procs \ {p}
      PROVE  /\ job'[q].cmd = job[q].cmd /\ job'[q].at = job[q].at /\ job'[q].m = job[q].m
             /\ job'[q].root = job[q].root
             /\ ~job'[q].disturbed => ~job[q].disturbed /\ ~Disturb(job[q], c)
  BY <1>0, <1>5, MarkedTyped DEF Others
<1>9. \A q \in Procs \ {p} : \A k : ChangeRuns(q, k)' = ChangeRuns(q, k)
  BY <1>8 DEF ChangeRuns, Running
<1>10. status \in [Modules -> {"installed", "unknown", "on", "off", "undone"}] BY DEF Typed, HistoryTyped
<1>11. \A k \in Modules : \/ status'[k] = status[k] /\ ~ChangeRuns(p, k)'
                          \/ status'[k] = "unknown"
  <2>1. CASE c.cmd \in {"update", "load"} /\ UNCHANGED status
    BY <1>7, <2>1 DEF ChangeRuns, Changing
  <2>2. CASE c.m \in Modules /\ status' = [status EXCEPT ![c.m] = "unknown"]
    BY <1>7, <1>10, <2>2 DEF ChangeRuns
  <2> QED BY <1>4, <2>1, <2>2
<1>12. ASSUME NEW k \in Modules PROVE StatusFits(k, status[k])'
  <2>1. CASE status'[k] = status[k]
    <3>1. StatusFits(k, status[k]) BY DEF StatusOK
    <3>2. \A now : StatusFits(k, now) => StatusFits(k, now)' BY <1>3
    <3> QED BY <2>1, <3>1, <3>2 DEF StatusFits
  <2>2. CASE status'[k] = "unknown" BY <2>2 DEF StatusFits
  <2> QED BY <1>11, <2>1, <2>2
<1>13. ASSUME NEW k \in Modules, NEW q \in Procs, status'[k] # "unknown" PROVE ~ChangeRuns(q, k)'
  <2>1. status'[k] = status[k] /\ ~ChangeRuns(p, k)' BY <1>11, <1>13
  <2>2. ~ChangeRuns(q, k) BY <1>13, <2>1 DEF StatusOK
  <2> QED BY <1>9, <2>1, <2>2
<1>14. ASSUME NEW q \in Procs, Running(q)', job'[q].cmd \in Changing, ~job'[q].disturbed
       PROVE  /\ \A o \in Procs \ {q} : ~ChangeRuns(o, job[q].m)'
              /\ ChangeFits(q)'
  <2>1. CASE q = p
    <3>1. ASSUME NEW o \in Procs \ {p}, ChangeRuns(o, c.m) PROVE FALSE
      <4>1. Disturb(job[o], c) BY <1>7, <1>14, <2>1, <3>1 DEF Disturb, ChangeRuns
      <4> QED BY <1>6, <1>7, <1>14, <2>1, <3>1, <4>1 DEF ChangeRuns
    <3>2. \A o \in Procs \ {p} : ~ChangeRuns(o, c.m)' BY <1>9, <3>1
    <3>3. \A o \in Procs \ {q} : ~ChangeRuns(o, job[q].m)' BY <1>7, <2>1, <3>2 DEF ChangeRuns
    <3>4. ChangeFits(p)' BY <1>4, <1>7, <1>14, <2>1 DEF ChangeFits, Changing
    <3> QED BY <2>1, <3>3, <3>4
  <2>2. CASE q # p
    <3>1. /\ Running(q) /\ job[q].cmd \in Changing /\ ~job[q].disturbed /\ ~Disturb(job[q], c)
          /\ job'[q].m = job[q].m
      BY <1>8, <1>14, <2>2 DEF Running
    <3>2. /\ \A o \in Procs \ {q} : ~ChangeRuns(o, job[q].m)
          /\ ChangeFits(q)
      BY <3>1 DEF ChangesOK
    <3>3. PICK k : k = job[q].m OBVIOUS
    <3>4. k \in Modules /\ k = job'[q].m BY <3>1, <3>3 DEF Typed, PlaceOK
    <3>5. ~ChangeRuns(p, k)' BY <1>7, <3>1, <3>3 DEF ChangeRuns, Disturb
    <3>6. \A o \in Procs \ {q} : ~ChangeRuns(o, k)' BY <1>9, <3>2, <3>3, <3>5
    <3>7. \A o \in Procs \ {q} : ~ChangeRuns(o, job[q].m)' BY <3>4, <3>6 DEF ChangeRuns
    <3>8. EntryRoot(k)' = EntryRoot(k) /\ Entry("home", k)' = Entry("home", k) BY <1>3, <3>4
    <3>9. /\ job'[q].at = "check" => Entry("home", k)' = "link"
          /\ job'[q].at = "remove" => job'[q].root = EntryRoot(k)'
      BY <1>8, <2>2, <3>2, <3>3, <3>8 DEF ChangeFits
    <3>10. ChangeFits(q)' BY <3>4, <3>9 DEF ChangeFits
    <3> QED BY <3>7, <3>10
  <2> QED BY <2>1, <2>2
<1>15. StatusOK' BY <1>12, <1>13 DEF StatusOK
<1>16. ChangesOK' BY <1>14 DEF ChangesOK
<1> QED BY <1>15, <1>16

(* The steps of updates and loads, and dying, touch no entry. *)
LEMMA EntriesElse ==
  ASSUME Typed, StatusOK, ChangesOK, NEW p \in Procs, LoadStep(p) \/ UpdateStep(p) \/ Dies(p)
  PROVE  StatusOK' /\ ChangesOK'
<1>0. job \in [Procs -> Jobs] BY DEF Typed
<1>1. UNCHANGED <<settings, available, enabled, status>>
  BY LoadFrame, UpdateFrame DEF Dies, fileVars, history
<1>2. \A k \in Modules : Untouched(k) BY <1>1 DEF Untouched, Entry, EntriesOf
<1>3. \A k \in Modules : /\ \A now : StatusFits(k, now) => StatusFits(k, now)'
                        /\ EntryRoot(k)' = EntryRoot(k) /\ Entry("home", k)' = Entry("home", k)
  BY <1>1, <1>2, EntriesKept DEF Untouched
<1>4. job'[p].cmd \notin Changing
  <2>1. CASE LoadStep(p) BY <2>1, LoadFrame DEF Alone, Keeps, Changing
  <2>2. CASE UpdateStep(p) BY <2>2, UpdateFrame DEF Changing
  <2>3. CASE Dies(p)
    <3>1. Idle.cmd = "none" BY DEF Idle
    <3> QED BY <1>0, <2>3, <3>1 DEF Dies, Changing
  <2> QED BY <2>1, <2>2, <2>3
<1>5. Others(p)
  <2>1. CASE LoadStep(p) BY <2>1, LoadFrame DEF Alone, Others
  <2>2. CASE UpdateStep(p) BY <2>2, UpdateFrame
  <2>3. CASE Dies(p) BY <1>0, <2>3 DEF Dies, Others
  <2> QED BY <2>1, <2>2, <2>3
<1>6. ASSUME NEW q \in Procs \ {p}
      PROVE  /\ job'[q].cmd = job[q].cmd /\ job'[q].at = job[q].at /\ job'[q].m = job[q].m
             /\ job'[q].root = job[q].root
             /\ ~job'[q].disturbed => ~job[q].disturbed
  BY <1>0, <1>5, MarkedTyped DEF Others
<1>7. \A q \in Procs : \A k : ChangeRuns(q, k)' => ChangeRuns(q, k)
  BY <1>4, <1>6 DEF ChangeRuns, Running
<1>8. StatusOK' BY <1>1, <1>3, <1>7 DEF StatusOK, StatusFits
<1>9. ASSUME NEW q \in Procs, Running(q)', job'[q].cmd \in Changing, ~job'[q].disturbed
      PROVE  /\ \A o \in Procs \ {q} : ~ChangeRuns(o, job[q].m)'
             /\ ChangeFits(q)'
  <2>1. q # p BY <1>4, <1>9
  <2>2. Running(q) /\ job[q].cmd \in Changing /\ ~job[q].disturbed /\ job'[q].m = job[q].m
    BY <1>6, <1>9, <2>1 DEF Running
  <2>3. /\ \A o \in Procs \ {q} : ~ChangeRuns(o, job[q].m)
        /\ ChangeFits(q)
    BY <2>2 DEF ChangesOK
  <2>4. PICK k : k = job[q].m OBVIOUS
  <2>5. k \in Modules /\ k = job'[q].m BY <2>2, <2>4 DEF Typed, PlaceOK
  <2>6. \A o \in Procs \ {q} : ~ChangeRuns(o, k)' BY <1>7, <2>3, <2>4
  <2>7. \A o \in Procs \ {q} : ~ChangeRuns(o, job[q].m)' BY <2>5, <2>6 DEF ChangeRuns
  <2>8. /\ job'[q].at = "check" => Entry("home", k)' = "link"
        /\ job'[q].at = "remove" => job'[q].root = EntryRoot(k)'
    BY <1>3, <1>6, <2>1, <2>3, <2>4, <2>5 DEF ChangeFits
  <2>9. ChangeFits(q)' BY <2>5, <2>8 DEF ChangeFits
  <2> QED BY <2>7, <2>9
<1>10. ChangesOK' BY <1>9 DEF ChangesOK
<1> QED BY <1>8, <1>10

LEMMA EntriesNext == Typed /\ StatusOK /\ ChangesOK /\ [Next]_vars => StatusOK' /\ ChangesOK'
<1> SUFFICES ASSUME Typed, StatusOK, ChangesOK, [Next]_vars PROVE StatusOK' /\ ChangesOK'
  OBVIOUS
<1>1. CASE UNCHANGED vars
  <2>1. \A k \in Modules : StatusFits(k, status[k])' = StatusFits(k, status[k])
    BY <1>1 DEF vars, fileVars, settings, history, StatusFits, Removed, Readable, Entry, EntriesOf
  <2>2. \A p \in Procs : \A k : ChangeRuns(p, k)' = ChangeRuns(p, k) BY <1>1 DEF vars, ChangeRuns, Running
  <2>3. \A p \in Procs : ChangeFits(p)' = ChangeFits(p)
    BY <1>1 DEF vars, fileVars, settings, ChangeFits, EntryRoot, GetFile, Readable, Entry, EntriesOf
  <2>4. UNCHANGED <<job, status>> BY <1>1 DEF vars, history
  <2>5. StatusOK' BY <2>1, <2>2, <2>4 DEF StatusOK
  <2>6. ChangesOK' BY <2>2, <2>3, <2>4 DEF ChangesOK, Running, ChangeRuns
  <2> QED BY <2>5, <2>6
<1>2. CASE Next
  BY <1>2, EntriesBegin, EntriesChange, EntriesElse
  DEF Next, Step, BeginStep, UpdateStep, LoadStep, ChangeStep
<1> QED BY <1>1, <1>2

(***************************************************************************)
(* The inductive invariant, and what follows from it.                      *)
(***************************************************************************)
FilesInv == Typed /\ UpdatesOK /\ LoadsOK /\ StatusOK /\ ChangesOK

(* Whatever the processes do to the data directories, in whatever order,   *)
(* and wherever they are killed: the five parts hold together.             *)
THEOREM FilesInvariant == Spec => []FilesInv
<1>1. Init => FilesInv BY TypedInit, UpdatesInit, EntriesInit DEF FilesInv
<1>2. FilesInv /\ [Next]_vars => FilesInv' BY TypedNext, UpdatesNext, LoadsNext, EntriesNext DEF FilesInv
<1> QED BY <1>1, <1>2, PTL DEF Spec

(* Of the names a load has registered, each has the slot that its entry    *)
(* deserves; a module that has no entry has none.                          *)
LEMMA SlotOfEntry ==
  ASSUME FilesInv, NEW p \in Procs, Loaded(p), NEW m
  PROVE  SlotsOf(p, m) = IF m \in Names THEN {Slot(EnabledRoot, m)} ELSE {}
<1>1. /\ Filled(p) = Names
      /\ \A i \in DOMAIN job[p].slots : job[p].slots[i][2] = Slot(EnabledRoot, job[p].slots[i][1])
  BY DEF FilesInv, LoadsOK, Loaded, Calm, SlotsPart
<1>2. CASE m \in Names
  <2>1. PICK i \in DOMAIN job[p].slots : job[p].slots[i][1] = m BY <1>1, <1>2 DEF Filled
  <2> HIDE DEF Slot
  <2> QED BY <1>1, <1>2, <2>1 DEF SlotsOf
<1>3. CASE m \notin Names
  <2>1. \A i \in DOMAIN job[p].slots : job[p].slots[i][1] # m BY <1>1, <1>3 DEF Filled
  <2> QED BY <1>3, <2>1 DEF SlotsOf
<1> QED BY <1>2, <1>3

LEMMA NamesHaveEntries == \A m : m \in Names <=> EnabledRoot \in DOMAIN enabled /\ m \in DOMAIN enabled[EnabledRoot]
<1>1. DOMAIN <<>> = {} OBVIOUS
<1> QED BY <1>1 DEF Names, EntriesOf

LEMMA EntryOfName ==
  ASSUME FilesInv, NEW m
  PROVE  /\ m \in Names <=> Entry(EnabledRoot, m) # "none"
         /\ m \in Names => Entry(EnabledRoot, m) \in {"file", "link"}
<1>1. \A r \in DOMAIN enabled : \A k \in DOMAIN enabled[r] : enabled[r][k] \in {"file", "link"}
  BY DEF FilesInv, Typed, FilesTyped
<1>2. CASE m \in Names BY <1>1, <1>2, NamesHaveEntries DEF Entry, EntriesOf
<1>3. CASE m \notin Names BY <1>3 DEF Entry, Names
<1> QED BY <1>2, <1>3

(* faup -u replaces the list that the next runs read: what a load that     *)
(* nothing disturbs has read is the whole of the last list downloaded.     *)
THEOREM NewestListIsRead == Spec => []UpdateIsRead
<1>1. FilesInv => UpdateIsRead
  BY DEF FilesInv, LoadsOK, ListPart, UpdateIsRead, Loaded, Calm, OwnListCanChange
<1> QED BY <1>1, FilesInvariant, PTL

(* faup_modules_load_from_datadir counts the modules, then loads them: the *)
(* slots it made are all filled, none twice, and none failed but for a     *)
(* link to a module that is not there.                                     *)
THEOREM SlotsAreFilled == Spec => []EverySlotRegistered
<1>1. ASSUME FilesInv, NEW p \in Procs, Loaded(p)
      PROVE  Len(job[p].slots) = job[p].nb
  <2>1. SlotsPart(p) /\ job[p].at = "done" BY <1>1 DEF FilesInv, LoadsOK, Loaded, Calm
  <2>2. Len(job[p].slots) + Cardinality(job[p].todo) = Cardinality(Names) /\ job[p].todo = {}
        /\ job[p].nb = Cardinality(Names)
    BY <2>1 DEF SlotsPart
  <2>3. Cardinality({}) = 0 BY FS_EmptySet
  <2>4. job[p].slots \in Seq(Modules \X {"code", "empty", "failed"})
    BY <1>1 DEF FilesInv, Typed, Jobs, Slots
  <2>5. Len(job[p].slots) \in Nat BY <2>4, LenProperties
  <2> QED BY <2>2, <2>3, <2>5
<1>2. ASSUME FilesInv, NEW p \in Procs, Loaded(p), NEW i \in DOMAIN job[p].slots,
             job[p].slots[i][2] = "failed"
      PROVE  job[p].slots[i][1] \notin DOMAIN available
  <2> DEFINE m == job[p].slots[i][1]
  <2>1. Slot(EnabledRoot, m) = "failed" /\ m \in Names
    BY <1>2 DEF FilesInv, LoadsOK, Loaded, Calm, SlotsPart, Filled
  <2> HIDE DEF m
  <2>2. Entry(EnabledRoot, m) \in {"file", "link"} BY <1>2, <2>1, EntryOfName
  <2>3. \A k \in DOMAIN available : available[k] # "failed"
    BY <1>2 DEF FilesInv, Typed, FilesTyped, Contents
  <2>4. m \notin DOMAIN available BY <2>1, <2>2, <2>3 DEF Slot, Readable
  <2> QED BY <2>4 DEF m
<1>3. FilesInv => EverySlotRegistered BY <1>1, <1>2 DEF EverySlotRegistered
<1> QED BY <1>3, FilesInvariant, PTL

(* `faup $ modules': a module is loaded after it was enabled with success, *)
(* and is not after it was disabled with success.                          *)
THEOREM EnabledIsLoaded == Spec => []LoadsWhatIsEnabled
<1>1. ASSUME FilesInv, NEW p \in Procs, NEW m \in Modules, Loaded(p)
      PROVE  /\ status[m] = "on" /\ ~env_set => SlotsOf(p, m) = {available[m]}
             /\ status[m] = "off" => SlotsOf(p, m) \subseteq {"failed"}
             /\ status[m] = "undone" /\ ~env_set => SlotsOf(p, m) = {}
             /\ status[m] = "installed" /\ EnabledRoot # "home" => SlotsOf(p, m) = {"code"}
  <2>1. SlotsOf(p, m) = IF m \in Names THEN {Slot(EnabledRoot, m)} ELSE {} BY <1>1, SlotOfEntry
  <2>2. m \in Names <=> Entry(EnabledRoot, m) # "none" BY <1>1, EntryOfName
  <2>3. StatusFits(m, status[m]) BY <1>1 DEF FilesInv, StatusOK
  <2>4. \A r : Entry(r, m) # "none" => r \in DOMAIN enabled
    <3>1. DOMAIN <<>> = {} OBVIOUS
    <3> QED BY <3>1 DEF Entry, EntriesOf
  <2>5. ASSUME status[m] = "on", ~env_set PROVE SlotsOf(p, m) = {available[m]}
    <3>1. Entry("home", m) = "link" /\ m \in DOMAIN available BY <2>3, <2>5 DEF StatusFits
    <3>2. EnabledRoot = "home" BY <2>4, <2>5, <3>1 DEF EnabledRoot, GetFile
    <3>3. Slot("home", m) = available[m] BY <3>1 DEF Slot, Readable
    <3> QED BY <2>1, <2>2, <3>1, <3>2, <3>3
  <2>6. ASSUME status[m] = "off" PROVE SlotsOf(p, m) \subseteq {"failed"}
    <3>1. Removed(m) BY <2>3, <2>6 DEF StatusFits
    <3>2. CASE env_set
      <4>1. EnabledRoot = "env" BY <3>2 DEF EnabledRoot, GetFile
      <4> QED BY <2>1, <2>2, <3>1, <3>2, <4>1 DEF Removed
    <3>3. CASE ~env_set /\ "home" \in DOMAIN enabled
      <4>1. EnabledRoot = "home" /\ ~Readable("home", m)
        BY <3>1, <3>3 DEF EnabledRoot, GetFile, Removed
      <4> QED BY <2>1, <4>1 DEF Slot
    <3>4. CASE ~env_set /\ "home" \notin DOMAIN enabled
      <4>1. EnabledRoot = "global" BY <3>4 DEF EnabledRoot, GetFile
      <4> QED BY <2>1, <2>2, <3>1, <3>4, <4>1 DEF Removed
    <3> QED BY <3>2, <3>3, <3>4
  <2>7. ASSUME status[m] = "undone", ~env_set PROVE SlotsOf(p, m) = {}
    <3>1. EnabledRoot = "home" /\ Entry("home", m) = "none"
      BY <2>3, <2>7 DEF StatusFits, EnabledRoot, GetFile
    <3> QED BY <2>1, <2>2, <3>1
  <2>8. ASSUME status[m] = "installed", EnabledRoot # "home" PROVE SlotsOf(p, m) = {"code"}
    <3>1. Entry(EnabledRoot, m) = "file"
      BY <2>3, <2>8 DEF StatusFits, EnabledRoot, GetFile
    <3>2. Slot(EnabledRoot, m) = "code" BY <2>8, <3>1 DEF Slot, Readable
    <3> QED BY <2>1, <2>2, <3>1, <3>2
  <2> QED BY <2>5, <2>6, <2>7, <2>8
<1>2. FilesInv => LoadsWhatIsEnabled BY <1>1 DEF LoadsWhatIsEnabled
<1> QED BY <1>2, FilesInvariant, PTL

(***************************************************************************)
(* Induction up to a number, with a set in place of a predicate.           *)
(***************************************************************************)
LEMMA UpTo ==
  ASSUME NEW N \in Nat, NEW S, 0 \in S, \A i \in 1 .. N : i - 1 \in S => i \in S
  PROVE  \A i \in 0 .. N : i \in S
<1> DEFINE T == {i \in 0 .. N : i \notin S}
<1>1. SUFFICES ASSUME T # {} PROVE FALSE OBVIOUS
<1>2. T \subseteq Nat OBVIOUS
<1>3. PICK m \in T : \A y \in T : ~(<<y, m>> \in OpToRel(<, Nat))
  <2> HIDE DEF T
  <2> QED BY <1>1, <1>2, NatLessThanWellFounded, WFMin, Zenon
<1>4. m \in 1 .. N
  <2>1. m \in 0 .. N /\ m \notin S BY ONLY m \in T
  <2>2. m # 0 BY ONLY <2>1, 0 \in S
  <2> QED BY <2>1, <2>2
<1>5. m - 1 \notin T
  <2>1. <<m - 1, m>> \in OpToRel(<, Nat) BY <1>4 DEF OpToRel
  <2> HIDE DEF T
  <2> QED BY <1>3, <2>1
<1>6. m - 1 \in S BY ONLY <1>4, <1>5, N \in Nat
<1>7. m \in S BY ONLY <1>4, <1>6, \A i \in 1 .. N : i - 1 \in S => i \in S
<1> QED BY ONLY <1>7, m \in T

StaysIn(T, N, G) == \A i \in 1 .. N : \A x \in T : G[i][x] \in T
Iterates(g, N, a, G) == g[0] = a /\ \A i \in 1 .. N : g[i] = G[i][g[i - 1]]

LEMMA Recursion ==
  ASSUME NEW N \in Nat, NEW T, NEW a \in T, NEW G, StaysIn(T, N, G)
  PROVE  \E g \in [0 .. N -> T] : Iterates(g, N, a, G)
<1> USE DEF StaysIn, Iterates
<1> DEFINE Is(g, n) == Iterates(g, n, a, G)
           S == {n \in 0 .. N : \E g \in [0 .. n -> T] : Is(g, n)}
<1>1. 0 \in S
  <2>1. [i \in 0 .. 0 |-> a] \in [0 .. 0 -> T] OBVIOUS
  <2>2. Is([i \in 0 .. 0 |-> a], 0) OBVIOUS
  <2>3. 0 \in 0 .. N OBVIOUS
  <2> HIDE DEF Is
  <2> QED BY <2>1, <2>2, <2>3
<1>2. ASSUME NEW n \in 1 .. N, n - 1 \in S PROVE n \in S
  <2>1. PICK g \in [0 .. n - 1 -> T] : Is(g, n - 1) BY <1>2
  <2> DEFINE h == [i \in 0 .. n |-> IF i = n THEN G[n][g[n - 1]] ELSE g[i]]
  <2>2. h \in [0 .. n -> T]
    <3>1. ASSUME NEW i \in 0 .. n PROVE h[i] \in T
      <4>1. g[n - 1] \in T OBVIOUS
      <4>2. i # n => g[i] \in T OBVIOUS
      <4> QED BY <4>1, <4>2
    <3> QED BY <3>1
  <2>3. h[0] = a BY <2>1
  <2>4. ASSUME NEW i \in 1 .. n PROVE h[i] = G[i][h[i - 1]]
    <3>1. h[i - 1] = g[i - 1] OBVIOUS
    <3>2. CASE i = n BY <3>1, <3>2
    <3>3. CASE i # n
      <4>1. i \in 1 .. n - 1 BY <3>3
      <4>2. g[i] = G[i][g[i - 1]] BY <2>1, <4>1
      <4>3. h[i] = g[i] BY <3>3
      <4> QED BY <3>1, <4>2, <4>3
    <3> QED BY <3>2, <3>3
  <2>5. Is(h, n) BY <2>3, <2>4
  <2> HIDE DEF h, Is
  <2>6. \E f \in [0 .. n -> T] : Is(f, n) BY <2>2, <2>5
  <2>7. n \in 0 .. N OBVIOUS
  <2> QED BY <2>6, <2>7
<1>3. \A n \in 0 .. N : n \in S
  <2> HIDE DEF S
  <2> QED BY <1>1, <1>2, UpTo
<1>4. N \in S BY <1>3
<1> QED BY <1>4

(* The prefixes of a sequence grow by one element.                         *)
LEMMA PrefixGrows ==
  ASSUME NEW R, NEW t \in Seq(R), NEW i \in 1 .. Len(t)
  PROVE  /\ SubSeq(t, 1, i - 1) \in Seq(R) /\ Len(SubSeq(t, 1, i - 1)) = i - 1
         /\ t[i] \in R
         /\ SubSeq(t, 1, i) = Append(SubSeq(t, 1, i - 1), t[i])
<1>1. SubSeq(t, 1, i - 1) \in Seq(R) /\ Len(SubSeq(t, 1, i - 1)) = i - 1
      /\ SubSeq(t, 1, i) \in Seq(R) /\ Len(SubSeq(t, 1, i)) = i
  OBVIOUS
<1>2. t[i] \in R OBVIOUS
<1>3. ASSUME NEW j \in 1 .. i
      PROVE  SubSeq(t, 1, i)[j] = Append(SubSeq(t, 1, i - 1), t[i])[j]
  OBVIOUS
<1>4. Append(SubSeq(t, 1, i - 1), t[i]) \in Seq(R)
      /\ Len(Append(SubSeq(t, 1, i - 1), t[i])) = i
  BY <1>1, <1>2
<1> QED BY <1>1, <1>2, <1>3, <1>4, SeqEqual

LEMMA PrefixEnds ==
  ASSUME NEW R, NEW t \in Seq(R)
  PROVE  SubSeq(t, 1, 0) = << >> /\ SubSeq(t, 1, Len(t)) = t /\ Len(t) \in Nat
BY SubSeqEmpty, SubSeqFull

(***************************************************************************)
(* What is kept of a sequence.                                             *)
(***************************************************************************)
KeepsAt(f, s, P) ==
  /\ f[0] = << >> /\ At(s, P) = f[Len(s)]
  /\ \A i \in 1 .. Len(s) : f[i] = IF i \in P THEN Append(f[i - 1], s[i]) ELSE f[i - 1]

LEMMA AtLoop ==
  ASSUME NEW R, NEW s \in Seq(R), NEW P
  PROVE  \E f \in [0 .. Len(s) -> Seq(R)] : KeepsAt(f, s, P)
<1> DEFINE N == Len(s)
           G == [i \in 1 .. N |-> [x \in Seq(R) |-> IF i \in P THEN Append(x, s[i]) ELSE x]]
           Eq(f) == f = [i \in 0 .. N |->
                           IF i = 0 THEN << >>
                           ELSE IF i \in P THEN Append(f[i - 1], s[i]) ELSE f[i - 1]]
<1>0. N \in Nat OBVIOUS
<1>1. PICK g \in [0 .. N -> Seq(R)] : Iterates(g, N, << >>, G)
  <2>1. StaysIn(Seq(R), N, G)
    <3>1. ASSUME NEW i \in 1 .. N, NEW x \in Seq(R) PROVE G[i][x] \in Seq(R)
      <4>1. s[i] \in R OBVIOUS
      <4> QED BY <4>1
    <3> HIDE DEF G
    <3> QED BY <3>1 DEF StaysIn
  <2>2. << >> \in Seq(R) OBVIOUS
  <2> HIDE DEF G, N
  <2> QED BY <1>0, <2>1, <2>2, Recursion, Zenon
<1>2. \A i \in 1 .. N : g[i - 1] \in Seq(R) OBVIOUS
<1>3. g[0] = << >> /\ \A i \in 1 .. N : g[i] = IF i \in P THEN Append(g[i - 1], s[i]) ELSE g[i - 1]
  BY <1>1, <1>2 DEF Iterates
<1>4. Eq(g)
  <2>1. ASSUME NEW i \in 0 .. N
        PROVE  g[i] = IF i = 0 THEN << >>
                      ELSE IF i \in P THEN Append(g[i - 1], s[i]) ELSE g[i - 1]
    <3>1. i = 0 \/ i \in 1 .. N BY <1>0
    <3> QED BY <1>3, <3>1, Zenon
  <2> QED BY <2>1
<1>5. \E f : Eq(f) BY <1>4
<1> DEFINE h == CHOOSE f : Eq(f)
<1>6. Eq(h)
  <2> HIDE DEF Eq
  <2> QED BY <1>5
<1>7. At(s, P) = h[N] BY Zenon DEF At
<1> HIDE DEF h
<1>8. h = g
  <2>1. h[0] = << >> /\ \A i \in 1 .. N : h[i] = IF i \in P THEN Append(h[i - 1], s[i]) ELSE h[i - 1]
    <3>1. 0 \in 0 .. N /\ \A i \in 1 .. N : i \in 0 .. N /\ i # 0 BY <1>0
    <3>2. ASSUME NEW i \in 0 .. N
          PROVE  h[i] = IF i = 0 THEN << >>
                        ELSE IF i \in P THEN Append(h[i - 1], s[i]) ELSE h[i - 1]
      BY <1>6, Zenon
    <3> QED BY <3>1, <3>2, Zenon
  <2> DEFINE S == {i \in 0 .. N : h[i] = g[i]}
  <2>2. 0 \in S BY <1>3, <2>1
  <2>3. ASSUME NEW i \in 1 .. N, i - 1 \in S PROVE i \in S
    BY <1>3, <2>1, <2>3
  <2>4. \A i \in 0 .. N : i \in S
    <3> HIDE DEF S
    <3> QED BY <1>0, <2>2, <2>3, UpTo
  <2>5. h = [i \in 0 .. N |-> h[i]] BY <1>6
  <2> QED BY <2>4, <2>5
<1> QED BY <1>3, <1>7, <1>8 DEF KeepsAt

LEMMA AtIsSeq ==
  ASSUME NEW R, NEW s \in Seq(R), NEW P
  PROVE  At(s, P) \in Seq(R)
BY AtLoop DEF KeepsAt

LEMMA AtEmpty ==
  ASSUME NEW P
  PROVE  At(<< >>, P) = << >>
<1>1. PICK s \in Seq({}) : s = << >> BY EmptySeq, Zenon
<1>2. PICK f \in [0 .. Len(s) -> Seq({})] : KeepsAt(f, s, P) BY AtLoop
<1>3. Len(s) = 0 BY <1>1
<1> QED BY <1>1, <1>2, <1>3 DEF KeepsAt

LEMMA AtAppend ==
  ASSUME NEW R, NEW s \in Seq(R), NEW e \in R, NEW P, NEW Q,
         \A i \in 1 .. Len(s) : (i \in P) <=> (i \in Q)
  PROVE  At(Append(s, e), Q) = IF Len(s) + 1 \in Q THEN Append(At(s, P), e) ELSE At(s, P)
<1>1. PICK f \in [0 .. Len(s) -> Seq(R)] : KeepsAt(f, s, P) BY AtLoop
<1> DEFINE t == Append(s, e)
<1>2. t \in Seq(R) /\ Len(t) = Len(s) + 1 /\ t[Len(s) + 1] = e
      /\ \A i \in 1 .. Len(s) : t[i] = s[i]
  OBVIOUS
<1> HIDE DEF t
<1>3. PICK g \in [0 .. Len(t) -> Seq(R)] : KeepsAt(g, t, Q) BY <1>2, AtLoop
<1> DEFINE S == {i \in 0 .. Len(s) : f[i] = g[i]}
<1>4. \A i \in 0 .. Len(s) : i \in S
  <2>1. 0 \in S BY <1>1, <1>3 DEF KeepsAt
  <2>2. ASSUME NEW i \in 1 .. Len(s), i - 1 \in S PROVE i \in S
    <3>1. f[i - 1] = g[i - 1] /\ t[i] = s[i] /\ i \in 1 .. Len(t) BY <1>2, <2>2
    <3> QED BY <1>1, <1>3, <3>1 DEF KeepsAt
  <2>3. Len(s) \in Nat OBVIOUS
  <2> HIDE DEF S
  <2> QED BY <2>1, <2>2, <2>3, UpTo
<1>5. Len(s) \in Nat OBVIOUS
<1>6. f[Len(s)] = g[Len(s)] BY <1>4, <1>5
<1>7. g[Len(s) + 1] = IF Len(s) + 1 \in Q THEN Append(g[Len(s)], e) ELSE g[Len(s)]
  BY <1>2, <1>3, <1>5 DEF KeepsAt
<1> QED BY <1>1, <1>2, <1>3, <1>6, <1>7 DEF KeepsAt, t

(* Only the places within the sequence matter.                             *)
LEMMA AtSame ==
  ASSUME NEW R, NEW s \in Seq(R), NEW P, NEW Q,
         \A i \in 1 .. Len(s) : (i \in P) <=> (i \in Q)
  PROVE  At(s, P) = At(s, Q)
<1>1. CASE s = << >> BY <1>1, AtEmpty
<1>2. CASE s # << >>
  <2>1. PICK t \in Seq(R), e \in R : s = Append(t, e) BY <1>2, SequenceEmptyOrAppend
  <2>2. \A i \in 1 .. Len(t) : (i \in P) <=> (i \in Q) BY <2>1
  <2>3. At(s, P) = IF Len(t) + 1 \in P THEN Append(At(t, P), e) ELSE At(t, P)
    BY <2>1, AtAppend
  <2>4. At(s, Q) = IF Len(t) + 1 \in Q THEN Append(At(t, P), e) ELSE At(t, P)
    BY <2>1, <2>2, AtAppend
  <2>5. (Len(t) + 1 \in P) <=> (Len(t) + 1 \in Q)
    <3>1. Len(t) + 1 \in 1 .. Len(s) BY <2>1
    <3> QED BY <3>1
  <2> QED BY <2>3, <2>4, <2>5
<1> QED BY <1>1, <1>2

LEMMA AtOneMore ==
  ASSUME NEW R, NEW s \in Seq(R), NEW e \in R, NEW P
  PROVE  At(Append(s, e), P) = IF Len(s) + 1 \in P THEN Append(At(s, P), e) ELSE At(s, P)
<1>1. PICK Q : Q = P OBVIOUS
<1>2. \A i \in 1 .. Len(s) : (i \in P) <=> (i \in Q) BY <1>1
<1>3. At(Append(s, e), Q) = IF Len(s) + 1 \in Q THEN Append(At(s, P), e) ELSE At(s, P)
  BY <1>2, AtAppend
<1> QED BY <1>1, <1>3

LEMMA AppendToConcat ==
  ASSUME NEW R, NEW s \in Seq(R), NEW t \in Seq(R), NEW e \in R
  PROVE  s \o Append(t, e) = Append(s \o t, e)
<1>1. <<e>> \in Seq(R) /\ s \o t \in Seq(R) OBVIOUS
<1>2. Append(s \o t, e) = (s \o t) \o <<e>> /\ Append(t, e) = t \o <<e>> BY <1>1, AppendIsConcat
<1>3. (s \o t) \o <<e>> = s \o (t \o <<e>>) BY <1>1, ConcatAssociative
<1> QED BY <1>2, <1>3

SamePlaces(s, U, P) == \A i \in 1 .. Len(s) : (i \in U) <=> (i \in P)
LaterPlaces(s, t, U, Q) == \A i \in 1 .. Len(t) : (Len(s) + i \in U) <=> (i \in Q)

LEMMA AtConcat ==
  ASSUME NEW R, NEW s \in Seq(R), NEW t \in Seq(R), NEW P, NEW Q, NEW U,
         SamePlaces(s, U, P), LaterPlaces(s, t, U, Q)
  PROVE  At(s \o t, U) = At(s, P) \o At(t, Q)
<1> DEFINE p(i) == SubSeq(t, 1, i)
           S == {i \in 0 .. Len(t) : At(s \o p(i), U) = At(s, P) \o At(p(i), Q)}
<1>0. Len(s) \in Nat /\ Len(t) \in Nat OBVIOUS
<1>1. 0 \in S
  <2>1. p(0) = << >> BY PrefixEnds
  <2>2. s \o p(0) = s /\ At(p(0), Q) = << >>
    <3>1. At(<< >>, Q) = << >> BY AtEmpty
    <3>2. s \o << >> = s OBVIOUS
    <3> QED BY <2>1, <3>1, <3>2
  <2>3. At(s, P) \in Seq(R) BY AtIsSeq
  <2>7. \A i \in 1 .. Len(s) : (i \in U) <=> (i \in P) BY DEF SamePlaces
  <2>4. At(s, U) = At(s, P) BY <2>7, AtSame
  <2>5. At(s, P) \o << >> = At(s, P) BY <2>3
  <2>6. At(s \o p(0), U) = At(s, P) \o At(p(0), Q) BY <2>2, <2>4, <2>5
  <2> QED BY <1>0, <2>6
<1>2. ASSUME NEW i \in 1 .. Len(t), i - 1 \in S PROVE i \in S
  <2>1. /\ p(i - 1) \in Seq(R) /\ Len(p(i - 1)) = i - 1 /\ t[i] \in R
        /\ p(i) = Append(p(i - 1), t[i])
    BY PrefixGrows
  <2>2. At(s \o p(i - 1), U) = At(s, P) \o At(p(i - 1), Q) BY <1>2
  <2>3. (Len(s) + i \in U) <=> (i \in Q) BY DEF LaterPlaces
  <2>4. At(s \o p(i), U) = At(s, P) \o At(p(i), Q)
    <3> HIDE DEF p, S
    <3>1. PICK q \in Seq(R), e \in R : q = p(i - 1) /\ e = t[i] BY <2>1
    <3>2. Len(s) + Len(q) + 1 = Len(s) + i /\ Len(q) + 1 = i
      <4>1. Len(q) = i - 1 BY <2>1, <3>1
      <4> QED BY <1>0, <4>1
    <3>3. At(s \o q, U) = At(s, P) \o At(q, Q) BY <2>2, <3>1
    <3>4. PICK x \in Seq(R) : x = s \o q BY ConcatProperties, Zenon
    <3>7. s \o Append(q, e) = Append(x, e) BY <3>4, AppendToConcat
    <3>8. Len(x) + 1 = Len(s) + i BY <3>2, <3>4
    <3>9. At(Append(x, e), U) = IF Len(x) + 1 \in U THEN Append(At(x, U), e) ELSE At(x, U)
      BY AtOneMore
    <3>10. At(Append(q, e), Q) = IF Len(q) + 1 \in Q THEN Append(At(q, Q), e) ELSE At(q, Q)
      BY AtOneMore
    <3>11. PICK a \in Seq(R), b \in Seq(R) : a = At(s, P) /\ b = At(q, Q) BY AtIsSeq
    <3>12. a \o Append(b, e) = Append(a \o b, e) BY AppendToConcat
    <3>13. CASE i \in Q BY <2>3, <3>2, <3>3, <3>4, <3>7, <3>8, <3>9, <3>10, <3>11, <3>12, <3>13, <2>1, <3>1
    <3>14. CASE i \notin Q BY <2>3, <3>2, <3>3, <3>4, <3>7, <3>8, <3>9, <3>10, <3>11, <3>14, <2>1, <3>1
    <3> QED BY <3>13, <3>14
  <2> QED BY <2>4
<1>3. Len(t) \in S
  <2>1. \A i \in 0 .. Len(t) : i \in S
    <3> HIDE DEF S
    <3> QED BY <1>0, <1>1, <1>2, UpTo
  <2> QED BY <1>0, <2>1
<1> QED BY <1>3, PrefixEnds

LEMMA AtAll ==
  ASSUME NEW R, NEW t \in Seq(R), NEW P, \A i \in 1 .. Len(t) : i \in P
  PROVE  At(t, P) = t
<1> DEFINE p(i) == SubSeq(t, 1, i)
           S == {i \in 0 .. Len(t) : At(p(i), P) = p(i)}
<1>1. 0 \in S
  <2>1. p(0) = << >> /\ At(<< >>, P) = << >> /\ 0 \in 0 .. Len(t) BY PrefixEnds, AtEmpty
  <2> QED BY <2>1
<1>2. ASSUME NEW i \in 1 .. Len(t), i - 1 \in S PROVE i \in S
  <2>1. /\ p(i - 1) \in Seq(R) /\ Len(p(i - 1)) + 1 = i /\ t[i] \in R
        /\ p(i) = Append(p(i - 1), t[i])
    BY PrefixGrows
  <2>2. At(p(i), P) = Append(At(p(i - 1), P), t[i])
    <3> HIDE DEF p, S
    <3> QED BY <2>1, AtOneMore
  <2> QED BY <1>2, <2>1, <2>2
<1>3. Len(t) \in S
  <2>1. \A i \in 0 .. Len(t) : i \in S
    <3> HIDE DEF S
    <3> QED BY <1>1, <1>2, PrefixEnds, UpTo
  <2> QED BY <2>1, PrefixEnds
<1> QED BY <1>3, PrefixEnds

LEMMA AtNone ==
  ASSUME NEW R, NEW t \in Seq(R), NEW P, \A i \in 1 .. Len(t) : i \notin P
  PROVE  At(t, P) = << >>
<1> DEFINE p(i) == SubSeq(t, 1, i)
           S == {i \in 0 .. Len(t) : At(p(i), P) = << >>}
<1>1. 0 \in S
  <2>1. p(0) = << >> /\ At(<< >>, P) = << >> /\ 0 \in 0 .. Len(t) BY PrefixEnds, AtEmpty
  <2> QED BY <2>1
<1>2. ASSUME NEW i \in 1 .. Len(t), i - 1 \in S PROVE i \in S
  <2>1. /\ p(i - 1) \in Seq(R) /\ Len(p(i - 1)) + 1 = i /\ t[i] \in R
        /\ p(i) = Append(p(i - 1), t[i])
    BY PrefixGrows
  <2>2. At(p(i), P) = At(p(i - 1), P)
    <3> HIDE DEF p, S
    <3> QED BY <2>1, AtOneMore
  <2> QED BY <1>2, <2>1, <2>2
<1>3. Len(t) \in S
  <2>1. \A i \in 0 .. Len(t) : i \in S
    <3> HIDE DEF S
    <3> QED BY <1>1, <1>2, PrefixEnds, UpTo
  <2> QED BY <2>1, PrefixEnds
<1> QED BY <1>3, PrefixEnds

(* The places that are kept, in order.                                     *)
KeptPlaces(at, s, P) ==
  /\ \A k \in 1 .. Len(At(s, P)) : at[k] \in 1 .. Len(s) /\ at[k] \in P /\ At(s, P)[k] = s[at[k]]
  /\ \A j, k \in 1 .. Len(At(s, P)) : j < k => at[j] < at[k]
  /\ \A i \in 1 .. Len(s) : i \in P => \E k \in 1 .. Len(At(s, P)) : at[k] = i

LEMMA AtPlacesGrow ==
  ASSUME NEW R, NEW q \in Seq(R), NEW e \in R, NEW P,
         NEW at \in Seq(Nat), Len(at) = Len(At(q, P)), KeptPlaces(at, q, P)
  PROVE  \E bt \in Seq(Nat) : Len(bt) = Len(At(Append(q, e), P)) /\ KeptPlaces(bt, Append(q, e), P)
<1> DEFINE r == Append(q, e)
<1>1. At(q, P) \in Seq(R) BY AtIsSeq
<1>2. PICK a \in Seq(R) : a = At(q, P) BY <1>1
<1>3. At(r, P) = IF Len(q) + 1 \in P THEN Append(a, e) ELSE a
  BY <1>2, AtOneMore
<1>4. /\ Len(r) = Len(q) + 1 /\ r[Len(q) + 1] = e /\ Len(q) \in Nat /\ Len(a) \in Nat
      /\ \A i \in 1 .. Len(q) : r[i] = q[i]
  OBVIOUS
<1>5. /\ \A k \in 1 .. Len(a) : at[k] \in 1 .. Len(q) /\ at[k] \in P /\ a[k] = q[at[k]]
      /\ \A j, k \in 1 .. Len(a) : j < k => at[j] < at[k]
      /\ \A i \in 1 .. Len(q) : i \in P => \E k \in 1 .. Len(a) : at[k] = i
  BY <1>2 DEF KeptPlaces
<1>6. Len(at) = Len(a) BY <1>2
<1> HIDE DEF r
<1>7. CASE Len(q) + 1 \notin P
  <2>1. At(r, P) = a BY <1>3, <1>7
  <2>2. \A k \in 1 .. Len(a) : at[k] \in 1 .. Len(r) /\ at[k] \in P /\ a[k] = r[at[k]]
    <3>1. ASSUME NEW k \in 1 .. Len(a) PROVE at[k] \in 1 .. Len(r) /\ at[k] \in P /\ a[k] = r[at[k]]
      <4>1. PICK i \in 1 .. Len(q) : i = at[k] BY <1>5
      <4>2. a[k] = q[i] /\ i \in P BY <1>5, <4>1
      <4> QED BY <1>4, <4>1, <4>2
    <3> QED BY <3>1
  <2>3. \A i \in 1 .. Len(r) : i \in P => \E k \in 1 .. Len(a) : at[k] = i
    <3>1. ASSUME NEW i \in 1 .. Len(r), i \in P PROVE \E k \in 1 .. Len(a) : at[k] = i
      <4>1. i \in 1 .. Len(q) BY <1>4, <1>7, <3>1
      <4> QED BY <1>5, <3>1, <4>1
    <3> QED BY <3>1
  <2>4. KeptPlaces(at, r, P) BY <1>5, <2>1, <2>2, <2>3, Zenon DEF KeptPlaces
  <2> QED BY <1>6, <2>1, <2>4 DEF r
<1>8. CASE Len(q) + 1 \in P
  <2>1. PICK n \in Nat : n = Len(q) + 1 BY <1>4
  <2>2. PICK b \in Seq(R) : b = Append(a, e) BY AppendProperties, Zenon
  <2>3. At(r, P) = b BY <1>3, <1>8, <2>2
  <2>4. /\ Len(b) = Len(a) + 1 /\ b[Len(a) + 1] = e /\ \A k \in 1 .. Len(a) : b[k] = a[k]
    BY <2>2
  <2>5. PICK bt \in Seq(Nat) : bt = Append(at, n) BY AppendProperties, Zenon
  <2>6. /\ Len(bt) = Len(a) + 1 /\ bt[Len(a) + 1] = n /\ \A k \in 1 .. Len(a) : bt[k] = at[k]
    BY <1>6, <2>5
  <2>7. \A k \in 1 .. Len(b) : bt[k] \in 1 .. Len(r) /\ bt[k] \in P /\ b[k] = r[bt[k]]
    <3>1. ASSUME NEW k \in 1 .. Len(b) PROVE bt[k] \in 1 .. Len(r) /\ bt[k] \in P /\ b[k] = r[bt[k]]
      <4>1. CASE k \in 1 .. Len(a)
        <5>1. PICK i \in 1 .. Len(q) : i = at[k] BY <1>5, <4>1
        <5>2. a[k] = q[i] /\ i \in P BY <1>5, <4>1, <5>1
        <5>3. bt[k] = i /\ b[k] = a[k] BY <2>4, <2>6, <4>1, <5>1
        <5> QED BY <1>4, <5>1, <5>2, <5>3
      <4>2. CASE k = Len(a) + 1
        <5>1. bt[k] = n /\ b[k] = e BY <2>4, <2>6, <4>2
        <5> QED BY <1>4, <1>8, <2>1, <5>1
      <4> QED BY <1>4, <2>4, <4>1, <4>2
    <3> QED BY <3>1
  <2>8. \A j, k \in 1 .. Len(b) : j < k => bt[j] < bt[k]
    <3>1. ASSUME NEW j \in 1 .. Len(b), NEW k \in 1 .. Len(b), j < k PROVE bt[j] < bt[k]
      <4>1. j \in 1 .. Len(a) BY <1>4, <2>4, <3>1
      <4>2. PICK x \in 1 .. Len(q) : x = at[j] BY <1>5, <4>1
      <4>3. bt[j] = x BY <2>6, <4>1, <4>2
      <4>4. CASE k \in 1 .. Len(a) BY <1>5, <2>6, <3>1, <4>1, <4>4
      <4>5. CASE k = Len(a) + 1 BY <1>4, <2>1, <2>6, <4>2, <4>3, <4>5
      <4> QED BY <1>4, <2>4, <4>4, <4>5
    <3> QED BY <3>1
  <2>9. \A i \in 1 .. Len(r) : i \in P => \E k \in 1 .. Len(b) : bt[k] = i
    <3>1. ASSUME NEW i \in 1 .. Len(r), i \in P PROVE \E k \in 1 .. Len(b) : bt[k] = i
      <4>1. CASE i \in 1 .. Len(q)
        <5>1. PICK k \in 1 .. Len(a) : at[k] = i BY <1>5, <3>1, <4>1
        <5>2. k \in 1 .. Len(b) /\ bt[k] = i BY <1>4, <2>4, <2>6, <5>1
        <5> QED BY <5>2
      <4>2. CASE i = n
        <5>1. Len(a) + 1 \in 1 .. Len(b) /\ bt[Len(a) + 1] = i BY <1>4, <2>4, <2>6, <4>2
        <5> QED BY <5>1
      <4> QED BY <1>4, <2>1, <4>1, <4>2
    <3> QED BY <3>1
  <2>10. KeptPlaces(bt, r, P) BY <2>3, <2>7, <2>8, <2>9, Zenon DEF KeptPlaces
  <2> QED BY <2>3, <2>4, <2>6, <2>10 DEF r
<1> QED BY <1>7, <1>8

LEMMA AtPlaces ==
  ASSUME NEW R, NEW s \in Seq(R), NEW P
  PROVE  \E at \in Seq(Nat) : Len(at) = Len(At(s, P)) /\ KeptPlaces(at, s, P)
<1> DEFINE Has(q) == \E at \in Seq(Nat) : Len(at) = Len(At(q, P)) /\ KeptPlaces(at, q, P)
           p(i) == SubSeq(s, 1, i)
           S == {i \in 0 .. Len(s) : Has(p(i))}
<1>1. 0 \in S
  <2>1. p(0) = << >> /\ At(<< >>, P) = << >> /\ 0 \in 0 .. Len(s) BY PrefixEnds, AtEmpty
  <2>2. PICK at \in Seq(Nat) : at = << >> BY EmptySeq, Zenon
  <2>3. Len(at) = 0 /\ Len(At(<< >>, P)) = 0 BY <2>1, <2>2
  <2>4. KeptPlaces(at, << >>, P) BY <2>3 DEF KeptPlaces
  <2> QED BY <2>1, <2>3, <2>4
<1>2. ASSUME NEW i \in 1 .. Len(s), i - 1 \in S PROVE i \in S
  <2>1. p(i - 1) \in Seq(R) /\ s[i] \in R /\ p(i) = Append(p(i - 1), s[i]) BY PrefixGrows
  <2>2. Has(p(i - 1)) BY <1>2
  <2> HIDE DEF p
  <2>3. PICK q \in Seq(R), e \in R : q = p(i - 1) /\ e = s[i] BY <2>1
  <2>4. PICK at \in Seq(Nat) : Len(at) = Len(At(q, P)) /\ KeptPlaces(at, q, P) BY <2>2, <2>3
  <2>5. Has(Append(q, e)) BY <2>4, AtPlacesGrow
  <2> HIDE DEF Has
  <2>6. Has(p(i)) BY <2>1, <2>3, <2>5
  <2>7. i \in 0 .. Len(s) OBVIOUS
  <2> QED BY <2>6, <2>7
<1>3. Len(s) \in S
  <2>1. \A i \in 0 .. Len(s) : i \in S
    <3> HIDE DEF S
    <3> QED BY <1>1, <1>2, PrefixEnds, UpTo
  <2> QED BY <2>1, PrefixEnds
<1> QED BY <1>3, PrefixEnds

(* Keeping places and mapping what is there go together.                   *)
Mapped(r, s, g) == Len(r) = Len(s) /\ \A i \in 1 .. Len(s) : r[i] = g[s[i]]

LEMMA AtMapped ==
  ASSUME NEW R, NEW s \in Seq(R), NEW T, NEW r \in Seq(T), NEW g, NEW P,
         Mapped(r, s, g)
  PROVE  Mapped(At(r, P), At(s, P), g)
<1>0. Len(r) = Len(s) /\ \A i \in 1 .. Len(s) : r[i] = g[s[i]] BY DEF Mapped
<1> DEFINE ps(i) == SubSeq(s, 1, i)
           pr(i) == SubSeq(r, 1, i)
           Has(x, y) == /\ Len(At(y, P)) = Len(At(x, P))
                        /\ \A k \in 1 .. Len(At(x, P)) : At(y, P)[k] = g[At(x, P)[k]]
           S == {i \in 0 .. Len(s) : Has(ps(i), pr(i))}
<1>1. 0 \in S
  <2>1. ps(0) = << >> /\ pr(0) = << >> /\ At(<< >>, P) = << >> /\ 0 \in 0 .. Len(s) BY PrefixEnds, AtEmpty
  <2>2. Len(At(<< >>, P)) = 0 BY <2>1
  <2>3. Has(<< >>, << >>) BY <2>2
  <2> HIDE DEF Has
  <2> QED BY <2>1, <2>3
<1>2. ASSUME NEW i \in 1 .. Len(s), i - 1 \in S PROVE i \in S
  <2>1. ps(i - 1) \in Seq(R) /\ s[i] \in R /\ ps(i) = Append(ps(i - 1), s[i]) /\ Len(ps(i - 1)) = i - 1
    BY PrefixGrows
  <2>0. i \in 1 .. Len(r) BY <1>0
  <2>2. pr(i - 1) \in Seq(T) /\ r[i] \in T /\ pr(i) = Append(pr(i - 1), r[i]) /\ Len(pr(i - 1)) = i - 1
    BY <2>0, PrefixGrows
  <2>3. Has(ps(i - 1), pr(i - 1)) /\ r[i] = g[s[i]] BY <1>0, <1>2
  <2>4. Has(ps(i), pr(i))
    <3> HIDE DEF ps, pr, S
    <3>1. PICK x \in Seq(R), e \in R : x = ps(i - 1) /\ e = s[i] BY <2>1
    <3>2. PICK y \in Seq(T), f \in T : y = pr(i - 1) /\ f = r[i] BY <2>2
    <3>3. Len(x) + 1 = i /\ Len(y) + 1 = i BY <2>1, <2>2, <3>1, <3>2
    <3>4. At(Append(x, e), P) = IF Len(x) + 1 \in P THEN Append(At(x, P), e) ELSE At(x, P) BY AtOneMore
    <3>5. At(Append(y, f), P) = IF Len(y) + 1 \in P THEN Append(At(y, P), f) ELSE At(y, P) BY AtOneMore
    <3>6. PICK a \in Seq(R), b \in Seq(T) : a = At(x, P) /\ b = At(y, P) BY AtIsSeq
    <3>7. Len(b) = Len(a) /\ \A k \in 1 .. Len(a) : b[k] = g[a[k]] BY <2>3, <3>1, <3>2, <3>6
    <3>8. CASE i \notin P
      <4>1. At(Append(x, e), P) = At(x, P) /\ At(Append(y, f), P) = At(y, P) BY <3>3, <3>4, <3>5, <3>8
      <4> QED BY <2>1, <2>2, <2>3, <3>1, <3>2, <4>1
    <3>9. CASE i \in P
      <4>1. At(Append(x, e), P) = Append(a, e) /\ At(Append(y, f), P) = Append(b, f)
        BY <3>3, <3>4, <3>5, <3>6, <3>9
      <4>2. f = g[e] BY <2>3, <3>1, <3>2
      <4>3. Len(Append(b, f)) = Len(Append(a, e)) BY <3>7
      <4>4. ASSUME NEW k \in 1 .. Len(Append(a, e)) PROVE Append(b, f)[k] = g[Append(a, e)[k]]
        <5>1. Len(a) \in Nat /\ Len(Append(a, e)) = Len(a) + 1 OBVIOUS
        <5>2. CASE k = Len(a) + 1
          <6>1. Append(a, e)[k] = e BY <5>2
          <6>2. Append(b, f)[k] = f BY <3>7, <5>2
          <6> QED BY <4>2, <6>1, <6>2
        <5>3. CASE k \in 1 .. Len(a)
          <6>1. Append(a, e)[k] = a[k] BY <5>3
          <6>2. Append(b, f)[k] = b[k] BY <3>7, <5>3
          <6>3. b[k] = g[a[k]] BY <3>7, <5>3
          <6> QED BY <6>1, <6>2, <6>3
        <5>4. k = Len(a) + 1 \/ k \in 1 .. Len(a) BY <5>1
        <5> QED BY <5>2, <5>3, <5>4, Zenon
      <4>5. Has(Append(x, e), Append(y, f)) BY <4>1, <4>3, <4>4
      <4> HIDE DEF Has
      <4> QED BY <2>1, <2>2, <3>1, <3>2, <4>5
    <3> QED BY <3>8, <3>9
  <2> QED BY <2>4
<1>3. Len(s) \in S
  <2>1. \A i \in 0 .. Len(s) : i \in S
    <3> HIDE DEF S
    <3> QED BY <1>1, <1>2, PrefixEnds, UpTo
  <2> QED BY <2>1, PrefixEnds
<1>4. ps(Len(s)) = s /\ pr(Len(s)) = r BY <1>0, PrefixEnds
<1> QED BY <1>3, <1>4 DEF Mapped

(***************************************************************************)
(* How a sequence is cut into pieces.                                      *)
(***************************************************************************)
Cuts(R) == [pieces : Seq(Seq(R)), rest : Seq(R)]
CutStep(c, e, ends) ==
  IF ends THEN [pieces |-> Append(c.pieces, Append(c.rest, e)), rest |-> << >>]
  ELSE [pieces |-> c.pieces, rest |-> Append(c.rest, e)]
CutsAt(f, s, P) ==
  /\ f[0] = [pieces |-> << >>, rest |-> << >>] /\ CutAfter(s, P) = f[Len(s)]
  /\ \A i \in 1 .. Len(s) : f[i] = CutStep(f[i - 1], s[i], i \in P)

LEMMA CutStepIsCut ==
  ASSUME NEW R, NEW c \in Cuts(R), NEW e \in R, NEW ends
  PROVE  CutStep(c, e, ends) \in Cuts(R)
<1>1. c.pieces \in Seq(Seq(R)) /\ c.rest \in Seq(R) BY DEF Cuts
<1>2. PICK x \in Seq(R) : x = Append(c.rest, e) BY <1>1, AppendProperties, Zenon
<1>3. PICK y \in Seq(Seq(R)) : y = Append(c.pieces, x) BY <1>1, AppendProperties, Zenon
<1>4. << >> \in Seq(R) BY EmptySeq, Zenon
<1>5. [pieces |-> y, rest |-> << >>] \in Cuts(R) /\ [pieces |-> c.pieces, rest |-> x] \in Cuts(R)
  BY <1>1, <1>4 DEF Cuts
<1> QED BY <1>2, <1>3, <1>5 DEF CutStep

LEMMA CutLoop ==
  ASSUME NEW R, NEW s \in Seq(R), NEW P
  PROVE  \E f \in [0 .. Len(s) -> Cuts(R)] : CutsAt(f, s, P)
<1> DEFINE N == Len(s)
           G == [i \in 1 .. N |-> [x \in Cuts(R) |-> CutStep(x, s[i], i \in P)]]
           none == [pieces |-> << >>, rest |-> << >>]
           Body(f, i) ==
             IF i = 0 THEN [pieces |-> << >>, rest |-> << >>]
             ELSE LET before == f[i - 1]
                      piece == Append(before.rest, s[i])
                  IN IF i \in P THEN [pieces |-> Append(before.pieces, piece), rest |-> << >>]
                     ELSE [pieces |-> before.pieces, rest |-> piece]
           Eq(f) == f = [i \in 0 .. N |->
                           IF i = 0 THEN [pieces |-> << >>, rest |-> << >>]
                           ELSE LET before == f[i - 1]
                                    piece == Append(before.rest, s[i])
                                IN IF i \in P THEN [pieces |-> Append(before.pieces, piece), rest |-> << >>]
                                   ELSE [pieces |-> before.pieces, rest |-> piece]]
<1>0. N \in Nat OBVIOUS
<1>1. PICK g \in [0 .. N -> Cuts(R)] : Iterates(g, N, none, G)
  <2>1. StaysIn(Cuts(R), N, G)
    <3>1. ASSUME NEW i \in 1 .. N, NEW x \in Cuts(R) PROVE G[i][x] \in Cuts(R)
      <4>1. s[i] \in R OBVIOUS
      <4>2. CutStep(x, s[i], i \in P) \in Cuts(R) BY <4>1, CutStepIsCut
      <4> QED BY <4>2
    <3> HIDE DEF G
    <3> QED BY <3>1 DEF StaysIn
  <2>2. none \in Cuts(R)
    <3>1. << >> \in Seq(R) /\ << >> \in Seq(Seq(R)) BY EmptySeq, Zenon
    <3> QED BY <3>1 DEF Cuts
  <2> HIDE DEF G, N, none
  <2> QED BY <1>0, <2>1, <2>2, Recursion, Zenon
<1>2. \A i \in 1 .. N : g[i - 1] \in Cuts(R) OBVIOUS
<1>3. g[0] = none /\ \A i \in 1 .. N : g[i] = CutStep(g[i - 1], s[i], i \in P)
  BY <1>1, <1>2 DEF Iterates
<1>4. Eq(g)
  <2>1. ASSUME NEW i \in 0 .. N PROVE g[i] = Body(g, i)
    <3>1. i = 0 \/ (i # 0 /\ i \in 1 .. N) BY <1>0
    <3>2. CASE i = 0 BY <1>3, <3>2, Zenon
    <3>3. CASE i # 0 /\ i \in 1 .. N
      <4>1. g[i] = CutStep(g[i - 1], s[i], i \in P) BY <1>3, <3>3, Zenon
      <4> QED BY <4>1, <3>3, Zenon DEF CutStep
    <3> QED BY <3>1, <3>2, <3>3
  <2>2. g = [i \in 0 .. N |-> g[i]] OBVIOUS
  <2> QED BY <2>1, <2>2, Zenon
<1>5. \E f : Eq(f) BY <1>4
<1> DEFINE h == CHOOSE f : Eq(f)
<1>6. Eq(h)
  <2> HIDE DEF Eq
  <2> QED BY <1>5
<1>7. CutAfter(s, P) = h[N] BY Zenon DEF CutAfter
<1> HIDE DEF h
<1>8. h = g
  <2>1. h[0] = none /\ \A i \in 1 .. N : h[i] = CutStep(h[i - 1], s[i], i \in P)
    <3>1. 0 \in 0 .. N /\ \A i \in 1 .. N : i \in 0 .. N /\ i # 0 BY <1>0
    <3>2. ASSUME NEW i \in 0 .. N PROVE h[i] = Body(h, i)
      BY <1>6, Zenon
    <3>3. h[0] = none BY <3>1, <3>2, Zenon
    <3>4. ASSUME NEW i \in 1 .. N PROVE h[i] = CutStep(h[i - 1], s[i], i \in P)
      BY <3>1, <3>2, Zenon DEF CutStep
    <3> QED BY <3>3, <3>4
  <2> DEFINE S == {i \in 0 .. N : h[i] = g[i]}
  <2>2. 0 \in S BY <1>0, <1>3, <2>1
  <2>3. ASSUME NEW i \in 1 .. N, i - 1 \in S PROVE i \in S
    <3>1. h[i - 1] = g[i - 1] BY <2>3
    <3>2. h[i] = g[i] BY <1>3, <2>1, <3>1, Zenon
    <3>3. i \in 0 .. N BY <1>0
    <3> QED BY <3>2, <3>3
  <2>4. \A i \in 0 .. N : i \in S
    <3> HIDE DEF S
    <3> QED BY <1>0, <2>2, <2>3, UpTo
  <2>5. h = [i \in 0 .. N |-> h[i]] BY <1>6, Zenon
  <2>6. g = [i \in 0 .. N |-> g[i]] OBVIOUS
  <2>7. \A i \in 0 .. N : h[i] = g[i] BY <2>4
  <2> QED BY <2>5, <2>6, <2>7, Zenon
<1> QED BY <1>3, <1>7, <1>8 DEF CutsAt

LEMMA CutIsCut ==
  ASSUME NEW R, NEW s \in Seq(R), NEW P
  PROVE  CutAfter(s, P) \in Cuts(R)
<1>1. PICK f \in [0 .. Len(s) -> Cuts(R)] : CutsAt(f, s, P) BY CutLoop
<1>2. f[Len(s)] \in Cuts(R) OBVIOUS
<1> QED BY <1>1, <1>2 DEF CutsAt

LEMMA CutEmpty ==
  ASSUME NEW P
  PROVE  CutAfter(<< >>, P) = [pieces |-> << >>, rest |-> << >>]
<1>1. PICK s \in Seq({}) : s = << >> BY EmptySeq, Zenon
<1>2. PICK f \in [0 .. Len(s) -> Cuts({})] : CutsAt(f, s, P) BY CutLoop
<1>3. Len(s) = 0 BY <1>1
<1> QED BY <1>1, <1>2, <1>3 DEF CutsAt

LEMMA CutAppend ==
  ASSUME NEW R, NEW s \in Seq(R), NEW e \in R, NEW P, NEW Q,
         \A i \in 1 .. Len(s) : (i \in P) <=> (i \in Q)
  PROVE  CutAfter(Append(s, e), Q) = CutStep(CutAfter(s, P), e, Len(s) + 1 \in Q)
<1>1. PICK f \in [0 .. Len(s) -> Cuts(R)] : CutsAt(f, s, P) BY CutLoop
<1> DEFINE t == Append(s, e)
<1>2. t \in Seq(R) /\ Len(t) = Len(s) + 1 /\ t[Len(s) + 1] = e
      /\ \A i \in 1 .. Len(s) : t[i] = s[i]
  OBVIOUS
<1> HIDE DEF t
<1>3. PICK g \in [0 .. Len(t) -> Cuts(R)] : CutsAt(g, t, Q) BY <1>2, CutLoop
<1>5. Len(s) \in Nat OBVIOUS
<1> DEFINE S == {i \in 0 .. Len(s) : f[i] = g[i]}
<1>4. \A i \in 0 .. Len(s) : i \in S
  <2>1. 0 \in S BY <1>1, <1>3, <1>5 DEF CutsAt
  <2>2. ASSUME NEW i \in 1 .. Len(s), i - 1 \in S PROVE i \in S
    <3>1. f[i - 1] = g[i - 1] /\ t[i] = s[i] /\ i \in 1 .. Len(t) BY <1>2, <1>5, <2>2
    <3>2. f[i] = CutStep(f[i - 1], s[i], i \in P) /\ g[i] = CutStep(g[i - 1], t[i], i \in Q)
      BY <1>1, <1>3, <3>1, Zenon DEF CutsAt
    <3>3. f[i] = g[i] BY <3>1, <3>2, Zenon DEF CutStep
    <3>4. i \in 0 .. Len(s) BY <1>5
    <3> QED BY <3>3, <3>4
  <2> HIDE DEF S
  <2> QED BY <1>5, <2>1, <2>2, UpTo
<1>6. f[Len(s)] = g[Len(s)] BY <1>4, <1>5
<1>7. Len(t) \in 1 .. Len(t) /\ Len(t) - 1 = Len(s) BY <1>2, <1>5
<1>8. g[Len(t)] = CutStep(g[Len(s)], e, Len(s) + 1 \in Q)
  <2>1. g[Len(t)] = CutStep(g[Len(t) - 1], t[Len(t)], Len(t) \in Q) BY <1>3, <1>7, Zenon DEF CutsAt
  <2> QED BY <1>2, <1>7, <2>1
<1>9. CutAfter(t, Q) = g[Len(t)] /\ CutAfter(s, P) = f[Len(s)] BY <1>1, <1>3 DEF CutsAt
<1> QED BY <1>6, <1>8, <1>9 DEF t

LEMMA CutSame ==
  ASSUME NEW R, NEW s \in Seq(R), NEW P, NEW Q,
         \A i \in 1 .. Len(s) : (i \in P) <=> (i \in Q)
  PROVE  CutAfter(s, P) = CutAfter(s, Q)
<1>1. CASE s = << >>
  <2>1. CutAfter(<< >>, P) = CutAfter(<< >>, Q)
    <3>1. PICK V : V = Q OBVIOUS
    <3>2. CutAfter(<< >>, P) = CutAfter(<< >>, V) BY CutEmpty
    <3> QED BY <3>1, <3>2
  <2> QED BY <1>1, <2>1
<1>2. CASE s # << >>
  <2>1. PICK t \in Seq(R), e \in R : s = Append(t, e) BY <1>2, SequenceEmptyOrAppend
  <2>2. \A i \in 1 .. Len(t) : (i \in P) <=> (i \in Q) BY <2>1
  <2>3. CutAfter(s, Q) = CutStep(CutAfter(t, P), e, Len(t) + 1 \in Q) BY <2>1, <2>2, CutAppend
  <2>4. CutAfter(s, P) = CutStep(CutAfter(t, P), e, Len(t) + 1 \in P)
    <3>1. PICK U : U = P OBVIOUS
    <3>2. CutAfter(Append(t, e), U) = CutStep(CutAfter(t, P), e, Len(t) + 1 \in U) BY <3>1, CutAppend
    <3> QED BY <2>1, <3>1, <3>2
  <2>5. (Len(t) + 1 \in P) <=> (Len(t) + 1 \in Q)
    <3>1. Len(t) + 1 \in 1 .. Len(s) BY <2>1
    <3> QED BY <3>1
  <2>6. CASE Len(t) + 1 \in P BY <2>3, <2>4, <2>5, <2>6 DEF CutStep
  <2>7. CASE Len(t) + 1 \notin P BY <2>3, <2>4, <2>5, <2>7 DEF CutStep
  <2> QED BY <2>6, <2>7
<1> QED BY <1>1, <1>2

(* Elements behind which nothing is cut are part of what is left.          *)
LEMMA CutWithin ==
  ASSUME NEW R, NEW s \in Seq(R), NEW t \in Seq(R), NEW P, NEW U,
         \A i \in 1 .. Len(s) : (i \in U) <=> (i \in P),
         \A i \in 1 .. Len(t) : Len(s) + i \notin U
  PROVE  CutAfter(s \o t, U) =
           [pieces |-> CutAfter(s, P).pieces, rest |-> CutAfter(s, P).rest \o t]
<1> DEFINE p(i) == SubSeq(t, 1, i)
           Is(x) == CutAfter(s \o x, U) =
                      [pieces |-> CutAfter(s, P).pieces, rest |-> CutAfter(s, P).rest \o x]
           S == {i \in 0 .. Len(t) : Is(p(i))}
<1>0. Len(s) \in Nat /\ Len(t) \in Nat OBVIOUS
<1>c. PICK c \in Cuts(R) : c = CutAfter(s, P) BY CutIsCut
<1>d. c.pieces \in Seq(Seq(R)) /\ c.rest \in Seq(R) /\ c = [pieces |-> c.pieces, rest |-> c.rest]
  BY DEF Cuts
<1>1. 0 \in S
  <2>1. p(0) = << >> BY PrefixEnds
  <2>2. s \o << >> = s /\ c.rest \o << >> = c.rest BY <1>d
  <2>3. CutAfter(s, U) = c BY <1>c, CutSame
  <2>4. Is(<< >>) BY <1>c, <1>d, <2>2, <2>3
  <2>5. 0 \in 0 .. Len(t) BY <1>0
  <2> HIDE DEF Is
  <2> QED BY <2>1, <2>4, <2>5
<1>2. ASSUME NEW i \in 1 .. Len(t), i - 1 \in S PROVE i \in S
  <2>1. /\ p(i - 1) \in Seq(R) /\ Len(p(i - 1)) = i - 1 /\ t[i] \in R
        /\ p(i) = Append(p(i - 1), t[i])
    BY PrefixGrows
  <2>2. Is(p(i - 1)) BY <1>2
  <2>3. Len(s) + i \notin U OBVIOUS
  <2>4. Is(p(i))
    <3> HIDE DEF p, S
    <3>1. PICK q \in Seq(R), e \in R : q = p(i - 1) /\ e = t[i] BY <2>1
    <3>2. PICK x \in Seq(R) : x = s \o q BY ConcatProperties, Zenon
    <3>3. Len(x) + 1 = Len(s) + i
      <4>1. Len(q) = i - 1 BY <2>1, <3>1
      <4>2. Len(x) = Len(s) + Len(q) BY <3>2
      <4> QED BY <1>0, <4>1, <4>2
    <3>4. s \o Append(q, e) = Append(x, e) BY <3>2, AppendToConcat
    <3>5. CutAfter(Append(x, e), U) = CutStep(CutAfter(x, U), e, Len(x) + 1 \in U)
      <4>1. PICK V : V = U OBVIOUS
      <4>2. CutAfter(Append(x, e), V) = CutStep(CutAfter(x, U), e, Len(x) + 1 \in V) BY <4>1, CutAppend
      <4> QED BY <4>1, <4>2
    <3>6. CutAfter(x, U) = [pieces |-> c.pieces, rest |-> c.rest \o q] BY <1>c, <2>2, <3>1, <3>2
    <3>7. c.rest \o Append(q, e) = Append(c.rest \o q, e) BY <1>d, AppendToConcat
    <3>8. CutAfter(Append(x, e), U) = [pieces |-> c.pieces, rest |-> Append(c.rest \o q, e)]
      BY <2>3, <3>3, <3>5, <3>6 DEF CutStep
    <3>9. p(i) = Append(q, e) BY <2>1, <3>1
    <3> QED BY <1>c, <3>4, <3>7, <3>8, <3>9
  <2> HIDE DEF Is
  <2>5. i \in 0 .. Len(t) BY <1>0
  <2> QED BY <2>4, <2>5
<1>3. Len(t) \in S
  <2> HIDE DEF S
  <2>1. \A i \in 0 .. Len(t) : i \in S BY <1>0, <1>1, <1>2, UpTo
  <2>2. Len(t) \in 0 .. Len(t) BY <1>0
  <2> QED BY <2>1, <2>2
<1>4. Is(p(Len(t)))
  <2> HIDE DEF Is
  <2> QED BY <1>3
<1>5. p(Len(t)) = t BY PrefixEnds
<1> HIDE DEF p
<1> QED BY <1>4, <1>5

(* A piece, cut behind its last element.                                   *)
LEMMA CutPiece ==
  ASSUME NEW R, NEW s \in Seq(R), NEW t \in Seq(R), NEW e \in R, NEW P, NEW U,
         \A i \in 1 .. Len(s) : (i \in U) <=> (i \in P),
         \A i \in 1 .. Len(t) : Len(s) + i \notin U,
         Len(s) + Len(t) + 1 \in U,
         CutAfter(s, P).rest = << >>
  PROVE  CutAfter(s \o Append(t, e), U) =
           [pieces |-> Append(CutAfter(s, P).pieces, Append(t, e)), rest |-> << >>]
<1>c. PICK c \in Cuts(R) : c = CutAfter(s, P) BY CutIsCut
<1>1. CutAfter(s \o t, U) = [pieces |-> c.pieces, rest |-> c.rest \o t] BY <1>c, CutWithin
<1>2. c.rest \o t = t BY <1>c
<1>3. PICK x \in Seq(R) : x = s \o t BY ConcatProperties, Zenon
<1>4. s \o Append(t, e) = Append(x, e) BY <1>3, AppendToConcat
<1>5. CutAfter(Append(x, e), U) = CutStep(CutAfter(x, U), e, Len(x) + 1 \in U)
  <2>1. PICK V : V = U OBVIOUS
  <2>2. CutAfter(Append(x, e), V) = CutStep(CutAfter(x, U), e, Len(x) + 1 \in V) BY <2>1, CutAppend
  <2> QED BY <2>1, <2>2
<1>6. Len(x) + 1 \in U
  <2>1. Len(x) + 1 = Len(s) + Len(t) + 1 BY <1>3
  <2> QED BY <2>1
<1>7. CutAfter(x, U) = [pieces |-> c.pieces, rest |-> t] BY <1>1, <1>2, <1>3
<1>8. CutAfter(Append(x, e), U) = [pieces |-> Append(c.pieces, Append(t, e)), rest |-> << >>]
  BY <1>5, <1>6, <1>7 DEF CutStep
<1> QED BY <1>c, <1>4, <1>8

(***************************************************************************)
(* Cells: how many there are, whose they are and what ends them.           *)
(***************************************************************************)
FieldNames == ToSet(Fields)

LEMMA FieldsAre ==
  /\ Fields \in Seq(FieldNames) /\ Len(Fields) = 14
  /\ \A a, b \in 1 .. 14 : Fields[a] = Fields[b] => a = b
  /\ Fields[1] = "none" /\ Fields[2] = "line"
  /\ \A f \in FieldNames : \E b \in 1 .. 14 : f = Fields[b]
<1>0. Len(Fields) = 14 /\ DOMAIN Fields = 1 .. 14 /\ Fields = [i \in 1 .. 14 |-> Fields[i]]
  BY DEF Fields
<1>5. \A i \in 1 .. 14 : Fields[i] \in FieldNames BY <1>0, Zenon DEF FieldNames, ToSet
<1>1. Fields \in Seq(FieldNames) /\ Len(Fields) = 14 BY <1>0, <1>5
<1>2. Fields[1] = "none" /\ Fields[2] = "line" BY DEF Fields
<1>3. \A a, b \in 1 .. 14 : Fields[a] = Fields[b] => a = b BY SMTT(60) DEF Fields
<1>4. \A f \in FieldNames : \E b \in 1 .. 14 : f = Fields[b]
  <2>1. DOMAIN Fields = 1 .. 14 BY <1>1
  <2> QED BY <2>1, Zenon DEF FieldNames, ToSet
<1> QED BY <1>1, <1>2, <1>3, <1>4

LEMMA BitIs == \A b \in 1 .. 14 : Bit(Fields[b]) = b /\ Fields[b] \in FieldNames
<1>1. SUFFICES ASSUME NEW b \in 1 .. 14 PROVE Bit(Fields[b]) = b /\ Fields[b] \in FieldNames OBVIOUS
<1>2. DOMAIN Fields = 1 .. 14 BY FieldsAre
<1>3. Bit(Fields[b]) \in 1 .. 14 /\ Fields[Bit(Fields[b])] = Fields[b] BY <1>2, Zenon DEF Bit
<1>4. Bit(Fields[b]) = b BY <1>3, FieldsAre
<1>5. Fields[b] \in FieldNames BY <1>2, Zenon DEF FieldNames, ToSet
<1> QED BY <1>4, <1>5

LEMMA ColumnsAre ==
  /\ HeaderColumns \in Seq(FieldNames) /\ Len(HeaderColumns) = 13
  /\ \A i \in 1 .. 13 : HeaderColumns[i] = Fields[i + 1]
  /\ RowColumns \in Seq(FieldNames) /\ Len(RowColumns) = 12
  /\ \A i \in 1 .. 12 : RowColumns[i] = Fields[i + 2]
<1>0. Fields \in Seq(FieldNames) /\ Len(Fields) = 14 BY FieldsAre
<1>4. Fields # << >> BY <1>0
<1>5. PICK h : h = Tail(Fields) OBVIOUS
<1>8. h \in Seq(FieldNames) /\ Len(h) = Len(Fields) - 1 /\ \A i \in 1 .. Len(h) : h[i] = Fields[i + 1]
  BY <1>0, <1>4, <1>5, HeadTailProperties, Zenon
<1>9. Len(Fields) - 1 = 13 BY <1>0
<1>1. h \in Seq(FieldNames) /\ Len(h) = 13 /\ \A i \in 1 .. 13 : h[i] = Fields[i + 1]
  BY <1>8, <1>9, Zenon
<1>6. h # << >>
  <2>1. Len(h) # 0 BY <1>1
  <2> QED BY <2>1
<1>7. PICK r : r = Tail(h) OBVIOUS
<1>10. r \in Seq(FieldNames) /\ Len(r) = Len(h) - 1 /\ \A i \in 1 .. Len(r) : r[i] = h[i + 1]
  BY <1>1, <1>6, <1>7, HeadTailProperties, Zenon
<1>11. Len(h) - 1 = 12 BY <1>1
<1>2. r \in Seq(FieldNames) /\ Len(r) = 12 /\ \A i \in 1 .. 12 : r[i] = h[i + 1]
  BY <1>10, <1>11, Zenon
<1>3. \A i \in 1 .. 12 : r[i] = Fields[i + 2]
  <2>1. SUFFICES ASSUME NEW i \in 1 .. 12 PROVE r[i] = Fields[i + 2] OBVIOUS
  <2>2. i + 1 \in 1 .. 13 /\ (i + 1) + 1 = i + 2 OBVIOUS
  <2>3. h[i + 1] = Fields[(i + 1) + 1] BY <1>1, <2>2
  <2> QED BY <1>2, <2>2, <2>3
<1> QED BY <1>1, <1>2, <1>3, <1>5, <1>7 DEF HeaderColumns, RowColumns

LEMMA OneThenMore ==
  ASSUME NEW R, NEW e \in R, NEW t \in Seq(R)
  PROVE  /\ <<e>> \o t \in Seq(R) /\ Len(<<e>> \o t) = 1 + Len(t)
         /\ (<<e>> \o t)[1] = e /\ \A i \in 1 .. Len(t) : (<<e>> \o t)[i + 1] = t[i]
<1>1. PICK s \in Seq(R) : s = <<e>> /\ Len(s) = 1 /\ s[1] = e
  <2>1. <<e>> \in Seq(R) /\ Len(<<e>>) = 1 /\ <<e>>[1] = e OBVIOUS
  <2> QED BY <2>1, Zenon
<1>2. /\ s \o t \in Seq(R) /\ Len(s \o t) = Len(s) + Len(t)
      /\ \A i \in 1 .. Len(s) + Len(t) : (s \o t)[i] = IF i <= Len(s) THEN s[i] ELSE t[i - Len(s)]
  BY ConcatProperties, Zenon
<1>3. PICK n \in Nat : n = Len(t) OBVIOUS
<1>4. \A i \in 1 .. 1 + n : (s \o t)[i] = IF i <= 1 THEN s[i] ELSE t[i - 1]
  BY <1>1, <1>2, <1>3, Zenon
<1>5. /\ 1 \in 1 .. 1 + n /\ 1 <= 1
      /\ \A i \in 1 .. n : i + 1 \in 1 .. 1 + n /\ ~(i + 1 <= 1) /\ (i + 1) - 1 = i
  OBVIOUS
<1>6. (s \o t)[1] = e BY <1>1, <1>4, <1>5, Zenon
<1>7. ASSUME NEW i \in 1 .. n PROVE (s \o t)[i + 1] = t[i]
  <2>1. (s \o t)[i + 1] = IF i + 1 <= 1 THEN s[i + 1] ELSE t[(i + 1) - 1] BY <1>4, <1>5, Zenon
  <2> QED BY <1>5, <2>1, Zenon
<1> QED BY <1>1, <1>2, <1>3, <1>6, <1>7, Zenon

CellSet(S) == [column : FieldNames, of : S, ends : {"separator", "newline"}]
Made(columns, fields, of) == [i \in DOMAIN columns |-> Cell(columns[i], fields, of)]

LEMMA MadeAre ==
  ASSUME NEW columns \in Seq(FieldNames), NEW fields, NEW S, NEW of \in S
  PROVE  /\ Made(columns, fields, of) \in Seq(CellSet(S))
         /\ Len(Made(columns, fields, of)) = Len(columns)
         /\ \A i \in 1 .. Len(columns) : Made(columns, fields, of)[i] = Cell(columns[i], fields, of)
<1>1. PICK n \in Nat : n = Len(columns) OBVIOUS
<1>2. DOMAIN columns = 1 .. n BY <1>1
<1>3. ASSUME NEW i \in 1 .. n PROVE Cell(columns[i], fields, of) \in CellSet(S)
  <2>1. columns[i] \in FieldNames BY <1>1
  <2> QED BY <2>1 DEF Cell, CellSet
<1>4. Made(columns, fields, of) = [i \in 1 .. n |-> Cell(columns[i], fields, of)]
  BY <1>2 DEF Made
<1> DEFINE m == [i \in 1 .. n |-> Cell(columns[i], fields, of)]
<1>5. m \in [1 .. n -> CellSet(S)] BY <1>3
<1>6. m \in Seq(CellSet(S)) /\ Len(m) = n BY <1>5
<1>7. \A i \in 1 .. n : m[i] = Cell(columns[i], fields, of) OBVIOUS
<1> QED BY <1>1, <1>4, <1>6, <1>7

GoodCells(c, of) ==
  /\ Len(c) > 0
  /\ \A k \in 1 .. Len(c) :
       /\ c[k].of = of /\ c[k].column \in FieldNames
       /\ c[k].ends = IF k < Len(c) THEN "separator" ELSE "newline"

LEMMA CellsAreGood ==
  ASSUME NEW n \in 1 .. 2, NEW columns \in Seq(FieldNames), Len(columns) = 14 - n,
         \A i \in 1 .. 14 - n : columns[i] = Fields[i + n],
         NEW fields \in SUBSET FieldNames, fields \cap UrlFields # {}, NEW S, NEW of \in S
  PROVE  Cells(columns, fields, of) \in Seq(CellSet(S)) /\ GoodCells(Cells(columns, fields, of), of)
<1> DEFINE P == {i \in DOMAIN columns : columns[i] \in fields}
<1>n. n \in Nat /\ 14 - n \in Nat /\ n <= 2 /\ n >= 1 OBVIOUS
<1>1m. PICK m : m = Made(columns, fields, of) OBVIOUS
<1>1. /\ m \in Seq(CellSet(S)) /\ m = Made(columns, fields, of) /\ Len(m) = 14 - n
      /\ \A i \in 1 .. 14 - n : m[i] = Cell(columns[i], fields, of)
  <2>1. columns \in Seq(FieldNames) /\ Len(columns) = 14 - n OBVIOUS
  <2>2. /\ m \in Seq(CellSet(S)) /\ Len(m) = Len(columns)
        /\ \A i \in 1 .. Len(columns) : m[i] = Cell(columns[i], fields, of)
    BY <1>1m, <2>1, MadeAre, Zenon
  <2> QED BY <1>1m, <2>1, <2>2, Zenon
<1>2. PICK c \in Seq(CellSet(S)) : c = At(m, P) BY <1>1, AtIsSeq, Zenon
<1>3. c = Cells(columns, fields, of) BY <1>1, <1>2 DEF Cells, Made
<1>4. PICK at \in Seq(Nat) : Len(at) = Len(At(m, P)) /\ KeptPlaces(at, m, P) BY <1>1, AtPlaces, Zenon
<1>5. Len(at) = Len(c) /\ Len(c) \in Nat BY <1>2, <1>4
<1>6. DOMAIN columns = 1 .. 14 - n OBVIOUS
<1>7. /\ \A k \in 1 .. Len(c) : at[k] \in 1 .. 14 - n /\ at[k] \in P /\ c[k] = m[at[k]]
      /\ \A j, k \in 1 .. Len(c) : j < k => at[j] < at[k]
      /\ \A i \in 1 .. 14 - n : i \in P => \E k \in 1 .. Len(c) : at[k] = i
  BY <1>1, <1>2, <1>4 DEF KeptPlaces
<1>8. \A i \in 1 .. 14 - n : (i \in P) <=> (Fields[i + n] \in fields) BY <1>6
<1> HIDE DEF P
<1>9. ASSUME NEW f \in fields, NEW i \in 0 .. 14 - n, Bit(f) > i + n
      PROVE  \E k \in 1 .. Len(c) : at[k] > i
  <2>1. PICK b \in 1 .. 14 : f = Fields[b] BY FieldsAre
  <2>2. b > i + n BY <1>9, <2>1, BitIs
  <2>3. PICK j \in 1 .. 14 - n : j = b - n /\ j > i BY <2>2
  <2>4. j \in P
    <3>1. j + n = b BY <2>3
    <3> QED BY <1>8, <2>1, <3>1
  <2> QED BY <1>7, <2>3, <2>4
<1>10. Len(c) > 0
  <2>1. PICK f \in fields : f \in UrlFields OBVIOUS
  <2>2. f \in FieldNames /\ f # "none" /\ f # "line" BY <2>1 DEF UrlFields, FieldNames
  <2>3. PICK b \in 1 .. 14 : f = Fields[b] BY <2>2, FieldsAre
  <2>4. b # 1 /\ b # 2 BY <2>2, <2>3, FieldsAre
  <2>8. Bit(f) = b BY <2>3, BitIs
  <2>5. Bit(f) > 0 + n BY <1>n, <2>4, <2>8
  <2>6. 0 \in 0 .. 14 - n OBVIOUS
  <2>7. \E k \in 1 .. Len(c) : at[k] > 0 BY <1>9, <2>5, <2>6
  <2> QED BY <1>5, <2>7
<1>11. ASSUME NEW k \in 1 .. Len(c)
       PROVE  /\ c[k].of = of /\ c[k].column \in FieldNames
              /\ c[k].ends = IF k < Len(c) THEN "separator" ELSE "newline"
  <2>1. PICK i \in 1 .. 14 - n : i = at[k] BY <1>7
  <2>2. PICK f \in FieldNames : f = Fields[i + n] /\ Bit(f) = i + n
    <3>1. i + n \in 1 .. 14 OBVIOUS
    <3> QED BY <3>1, BitIs
  <2>3. c[k] = Cell(f, fields, of)
    <3>1. c[k] = m[i] BY <1>7, <2>1
    <3>2. m[i] = Cell(columns[i], fields, of) BY <1>1
    <3>3. columns[i] = f BY <2>2
    <3> QED BY <3>1, <3>2, <3>3
  <2>4. HasGreaterThan(fields, f) <=> k < Len(c)
    <3>1. ASSUME k < Len(c) PROVE HasGreaterThan(fields, f)
      <4>1. k + 1 \in 1 .. Len(c) /\ k < k + 1 BY <1>5, <3>1
      <4>2. PICK j \in 1 .. 14 - n : j = at[k + 1] /\ j > i /\ j \in P BY <1>7, <2>1, <4>1
      <4>3. Fields[j + n] \in fields BY <1>8, <4>2
      <4>6. j + n \in 1 .. 14 BY <1>n
      <4>8. i \in Int /\ j \in Int /\ n \in Int /\ j > i BY <1>n, <4>2
      <4>7. j + n > i + n BY ONLY <4>8
      <4>4. j + n \in 1 .. 14 /\ j + n > i + n BY <4>6, <4>7
      <4>5. Bit(Fields[j + n]) > Bit(f) BY <2>2, <4>4, BitIs
      <4> QED BY <4>3, <4>5 DEF HasGreaterThan
    <3>2. ASSUME HasGreaterThan(fields, f) PROVE k < Len(c)
      <4>1. PICK h \in fields : Bit(h) > i + n BY <2>2, <3>2 DEF HasGreaterThan
      <4>4. i \in 0 .. 14 - n BY <1>n
      <4>2. PICK l \in 1 .. Len(c) : at[l] > i BY <1>9, <4>1, <4>4
      <4>3. k < l
        <5>1. PICK j \in 1 .. 14 - n : j = at[l] BY <1>7
        <5>2. l # k BY <2>1, <4>2
        <5>3. ~(l < k) BY <1>7, <2>1, <4>2, <5>1
        <5> QED BY <1>5, <5>2, <5>3
      <4> QED BY <1>5, <4>3
    <3> QED BY <3>1, <3>2
  <2>5. CASE k < Len(c) BY <2>2, <2>3, <2>4, <2>5 DEF Cell
  <2>6. CASE ~(k < Len(c)) BY <2>2, <2>3, <2>4, <2>6 DEF Cell
  <2> QED BY <2>5, <2>6
<1>12. GoodCells(c, of) BY <1>10, <1>11 DEF GoodCells
<1> QED BY <1>3, <1>12

(* Which cells there are does not depend on whose they are.                *)
LEMMA CellsAlike ==
  ASSUME NEW columns \in Seq(FieldNames), NEW fields, NEW S, NEW of \in S, NEW also \in S
  PROVE  LET c == Cells(columns, fields, of)
             d == Cells(columns, fields, also)
         IN /\ c \in Seq(CellSet(S)) /\ d \in Seq(CellSet(S)) /\ Len(d) = Len(c)
            /\ \A k \in 1 .. Len(c) : d[k].column = c[k].column
<1> DEFINE P == {i \in DOMAIN columns : columns[i] \in fields}
           g == [x \in CellSet(S) |-> [column |-> x.column, of |-> also, ends |-> x.ends]]
<1>1m. PICK m : m = Made(columns, fields, of) OBVIOUS
<1>1. /\ m \in Seq(CellSet(S)) /\ m = Made(columns, fields, of) /\ Len(m) = Len(columns)
      /\ \A i \in 1 .. Len(columns) : m[i] = Cell(columns[i], fields, of)
  <2>1. columns \in Seq(FieldNames) /\ Len(columns) = Len(columns) OBVIOUS
  <2>2. /\ m \in Seq(CellSet(S)) /\ Len(m) = Len(columns)
        /\ \A i \in 1 .. Len(columns) : m[i] = Cell(columns[i], fields, of)
    BY <1>1m, <2>1, MadeAre, Zenon
  <2> QED BY <1>1m, <2>1, <2>2, Zenon
<1>2m. PICK q : q = Made(columns, fields, also) OBVIOUS
<1>2. /\ q \in Seq(CellSet(S)) /\ q = Made(columns, fields, also) /\ Len(q) = Len(columns)
      /\ \A i \in 1 .. Len(columns) : q[i] = Cell(columns[i], fields, also)
  <2>1. columns \in Seq(FieldNames) /\ Len(columns) = Len(columns) OBVIOUS
  <2>2. /\ q \in Seq(CellSet(S)) /\ Len(q) = Len(columns)
        /\ \A i \in 1 .. Len(columns) : q[i] = Cell(columns[i], fields, also)
    BY <1>2m, <2>1, MadeAre, Zenon
  <2> QED BY <1>2m, <2>1, <2>2, Zenon
<1>3. ASSUME NEW i \in 1 .. Len(m) PROVE q[i] = g[m[i]]
  <2>1. m[i] = Cell(columns[i], fields, of) /\ q[i] = Cell(columns[i], fields, also) /\ m[i] \in CellSet(S)
    BY <1>1, <1>2
  <2>2. g[m[i]] = [column |-> m[i].column, of |-> also, ends |-> m[i].ends] BY <2>1
  <2> QED BY <2>1, <2>2 DEF Cell
<1>4. PICK c \in Seq(CellSet(S)) : c = At(m, P) BY <1>1, AtIsSeq, Zenon
<1>5. PICK d \in Seq(CellSet(S)) : d = At(q, P) BY <1>2, AtIsSeq, Zenon
<1>6. c = Cells(columns, fields, of) /\ d = Cells(columns, fields, also)
  BY <1>1, <1>2, <1>4, <1>5 DEF Cells, Made
<1> HIDE DEF P, g
<1>7. Len(At(q, P)) = Len(At(m, P)) /\ \A k \in 1 .. Len(At(m, P)) : At(q, P)[k] = g[At(m, P)[k]]
  <2>1. Len(q) = Len(m) /\ m \in Seq(CellSet(S)) /\ q \in Seq(CellSet(S)) BY <1>1, <1>2
  <2>2. PICK G : G = g OBVIOUS
  <2>3. \A i \in 1 .. Len(m) : q[i] = G[m[i]] BY <1>3, <2>2
  <2>4. PICK R : R = CellSet(S) OBVIOUS
  <2>5. PICK x \in Seq(R), y \in Seq(R) : x = m /\ y = q BY <2>1, <2>4
  <2>8. PICK p : p = P OBVIOUS
  <2>6. Mapped(y, x, G) BY <2>1, <2>3, <2>5 DEF Mapped
  <2>7. Mapped(At(y, p), At(x, p), G) BY <2>6, AtMapped
  <2> QED BY <2>2, <2>5, <2>7, <2>8 DEF Mapped
<1>8. ASSUME NEW k \in 1 .. Len(c) PROVE d[k].column = c[k].column
  <2>1. d[k] = g[c[k]] BY <1>4, <1>5, <1>7
  <2>2. c[k] \in CellSet(S) OBVIOUS
  <2> QED BY <2>1, <2>2 DEF g
<1> QED BY <1>4, <1>5, <1>6, <1>7, <1>8

(* The header has one column more than a row, when lines are numbered.     *)
LEMMA HeaderIsLineAndRow ==
  ASSUME NEW fields, NEW S, NEW of \in S
  PROVE  Cells(HeaderColumns, fields, of) =
           (IF "line" \in fields THEN <<Cell("line", fields, of)>> ELSE << >>)
             \o Cells(RowColumns, fields, of)
<1> DEFINE U == {i \in DOMAIN HeaderColumns : HeaderColumns[i] \in fields}
           Q == {i \in DOMAIN RowColumns : RowColumns[i] \in fields}
           P == {i \in {1} : "line" \in fields}
           line == Cell("line", fields, of)
<1> HIDE DEF U, P, Q, line
<1>1m. PICK h : h = Made(HeaderColumns, fields, of) OBVIOUS
<1>1. /\ h \in Seq(CellSet(S)) /\ h = Made(HeaderColumns, fields, of) /\ Len(h) = 13
      /\ \A i \in 1 .. 13 : h[i] = Cell(HeaderColumns[i], fields, of)
  <2>1. HeaderColumns \in Seq(FieldNames) /\ Len(HeaderColumns) = 13 BY ColumnsAre
  <2>3. PICK columns \in Seq(FieldNames) : columns = HeaderColumns BY <2>1
  <2>4. /\ Made(columns, fields, of) \in Seq(CellSet(S))
        /\ Len(Made(columns, fields, of)) = Len(columns)
        /\ \A i \in 1 .. Len(columns) : Made(columns, fields, of)[i] = Cell(columns[i], fields, of)
    BY MadeAre
  <2>2. /\ h \in Seq(CellSet(S)) /\ Len(h) = Len(HeaderColumns)
        /\ \A i \in 1 .. Len(HeaderColumns) : h[i] = Cell(HeaderColumns[i], fields, of)
    BY <1>1m, <2>3, <2>4, Zenon
  <2> QED BY <1>1m, <2>1, <2>2, Zenon
<1>2m. PICK r : r = Made(RowColumns, fields, of) OBVIOUS
<1>2. /\ r \in Seq(CellSet(S)) /\ r = Made(RowColumns, fields, of) /\ Len(r) = 12
      /\ \A i \in 1 .. 12 : r[i] = Cell(RowColumns[i], fields, of)
  <2>1. RowColumns \in Seq(FieldNames) /\ Len(RowColumns) = 12 BY ColumnsAre
  <2>3. PICK columns \in Seq(FieldNames) : columns = RowColumns BY <2>1
  <2>4. /\ Made(columns, fields, of) \in Seq(CellSet(S))
        /\ Len(Made(columns, fields, of)) = Len(columns)
        /\ \A i \in 1 .. Len(columns) : Made(columns, fields, of)[i] = Cell(columns[i], fields, of)
    BY MadeAre
  <2>2. /\ r \in Seq(CellSet(S)) /\ Len(r) = Len(RowColumns)
        /\ \A i \in 1 .. Len(RowColumns) : r[i] = Cell(RowColumns[i], fields, of)
    BY <1>2m, <2>3, <2>4, Zenon
  <2> QED BY <1>2m, <2>1, <2>2, Zenon
<1>3. line \in CellSet(S)
  <2>1. "line" \in FieldNames
    <3>1. Fields[2] \in FieldNames BY BitIs
    <3> QED BY <3>1, FieldsAre
  <2> QED BY <2>1 DEF Cell, CellSet, line
<1>4. PICK s \in Seq(CellSet(S)) : s = <<line>> /\ Len(s) = 1 /\ s[1] = line
  <2>1. <<line>> \in Seq(CellSet(S)) BY <1>3
  <2> QED BY <2>1
<1>5. h = s \o r
  <2>1. PICK x \in Seq(CellSet(S)) : x = s \o r BY <1>2, ConcatProperties, Zenon
  <2>5. PICK z \in Seq(CellSet(S)) : z = r /\ Len(z) = 12 BY <1>2
  <2>9. PICK R : R = CellSet(S) OBVIOUS
  <2>7. PICK e \in R, y \in Seq(R) : e = line /\ y = z BY <1>3, <2>5, <2>9
  <2>8. /\ Len(<<e>> \o y) = 1 + Len(y) /\ (<<e>> \o y)[1] = e
        /\ \A i \in 1 .. Len(y) : (<<e>> \o y)[i + 1] = y[i]
    BY OneThenMore
  <2>6. Len(x) = 1 + Len(z) /\ x[1] = line /\ \A i \in 1 .. Len(z) : x[i + 1] = z[i]
    BY <1>4, <2>1, <2>5, <2>7, <2>8, Zenon
  <2>2. Len(x) = 13 /\ x[1] = line /\ \A i \in 1 .. 12 : x[i + 1] = r[i] BY <2>5, <2>6
  <2>3. ASSUME NEW i \in 1 .. 13 PROVE h[i] = x[i]
    <3>1. CASE i = 1
      <4>1. HeaderColumns[1] = "line"
        <5>1. HeaderColumns[1] = Fields[1 + 1] BY ColumnsAre
        <5> QED BY <5>1, FieldsAre
      <4> QED BY <1>1, <2>2, <3>1, <4>1 DEF line
    <3>2. CASE i # 1
      <4>1. PICK j \in 1 .. 12 : i = j + 1
        <5>1. i - 1 \in 1 .. 12 /\ i = (i - 1) + 1 BY <3>2
        <5> QED BY <5>1
      <4>2. HeaderColumns[j + 1] = RowColumns[j]
        <5>1. j + 1 \in 1 .. 13 /\ (j + 1) + 1 = j + 2 OBVIOUS
        <5>2. HeaderColumns[j + 1] = Fields[(j + 1) + 1] BY <5>1, ColumnsAre
        <5> QED BY <5>1, <5>2, ColumnsAre
      <4> QED BY <1>1, <1>2, <2>2, <4>1, <4>2
    <3> QED BY <3>1, <3>2
  <2>4. h = x BY <1>1, <2>2, <2>3, SeqEqual
  <2> QED BY <2>1, <2>4
<1>6. Cells(HeaderColumns, fields, of) = At(h, U) /\ Cells(RowColumns, fields, of) = At(r, Q)
  BY <1>1, <1>2 DEF Cells, Made, U, Q
<1>7. \A i \in 1 .. Len(s) : (i \in U) <=> (i \in P)
  <2>1. HeaderColumns[1] = "line"
    <3>1. HeaderColumns[1] = Fields[1 + 1] BY ColumnsAre
    <3> QED BY <3>1, FieldsAre
  <2>2. 1 \in DOMAIN HeaderColumns BY ColumnsAre
  <2>3. (1 \in U) <=> (1 \in P) BY <2>1, <2>2 DEF U, P
  <2> QED BY <1>4, <2>3
<1>8. \A i \in 1 .. Len(r) : (Len(s) + i \in U) <=> (i \in Q)
  <2>1. SUFFICES ASSUME NEW i \in 1 .. 12 PROVE (1 + i \in U) <=> (i \in Q) BY <1>2, <1>4
  <2>2. 1 + i \in DOMAIN HeaderColumns /\ i \in DOMAIN RowColumns BY ColumnsAre
  <2>3. HeaderColumns[1 + i] = RowColumns[i]
    <3>1. i + 1 \in 1 .. 13 /\ (i + 1) + 1 = i + 2 /\ 1 + i = i + 1 OBVIOUS
    <3>2. HeaderColumns[i + 1] = Fields[(i + 1) + 1] BY <3>1, ColumnsAre
    <3> QED BY <3>1, <3>2, ColumnsAre
  <2> QED BY <2>2, <2>3 DEF U, Q
<1>9. At(s \o r, U) = At(s, P) \o At(r, Q)
  <2>5. PICK R : R = CellSet(S) OBVIOUS
  <2>1. PICK y \in Seq(R), z \in Seq(R) : y = s /\ z = r BY <1>2, <2>5
  <2>6. PICK u, p, q : u = U /\ p = P /\ q = Q OBVIOUS
  <2>2. SamePlaces(y, u, p) BY <1>7, <2>1, <2>6 DEF SamePlaces
  <2>3. LaterPlaces(y, z, u, q) BY <1>8, <2>1, <2>6 DEF LaterPlaces
  <2>4. At(y \o z, u) = At(y, p) \o At(z, q) BY <2>2, <2>3, AtConcat
  <2> QED BY <2>1, <2>4, <2>6
<1>10. At(s, P) = IF "line" \in fields THEN <<line>> ELSE << >>
  <2>1. CASE "line" \in fields
    <3>1. \A i \in 1 .. Len(s) : i \in P BY <1>4, <2>1 DEF P
    <3>2. At(s, P) = s BY <3>1, AtAll
    <3> QED BY <1>4, <2>1, <3>2
  <2>2. CASE "line" \notin fields
    <3>1. \A i \in 1 .. Len(s) : i \notin P BY <2>2 DEF P
    <3>2. At(s, P) = << >> BY <3>1, AtNone
    <3> QED BY <2>2, <3>2
  <2> QED BY <2>1, <2>2
<1> QED BY <1>5, <1>6, <1>9, <1>10 DEF line

(***************************************************************************)
(* What the modules make of a URL.                                         *)
(***************************************************************************)
UrlOf(text, changed) == [text |-> text, changed |-> changed, placed |-> << >>]
UrlSet(T, M) == [text : T, changed : Seq(M), placed : Seq(M)]

CallModule(url, found, m) ==
  CASE m \in Transforms -> <<Changed(IF found = << >> THEN url ELSE found[1], m)>>
    [] m \in Nils -> << >>
    [] OTHER -> found
Founds(t, M) == {<< >>} \cup {<<UrlOf(t, c)>> : c \in Seq(M)}
CallsOf(g, url, chain) ==
  /\ g[0] = << >> /\ DecodeUrlStart(chain, url) = IF g[Len(chain)] = << >> THEN url ELSE g[Len(chain)][1]
  /\ \A i \in 1 .. Len(chain) : g[i] = CallModule(url, g[i - 1], chain[i])

LEMMA ChangedIs ==
  ASSUME NEW t, NEW M, NEW c \in Seq(M), NEW m \in M
  PROVE  Changed(UrlOf(t, c), m) = UrlOf(t, Append(c, m)) /\ Append(c, m) \in Seq(M)
<1>1. Append(c, m) \in Seq(M) BY AppendProperties, Zenon
<1>2. Changed(UrlOf(t, c), m) = UrlOf(t, Append(c, m)) BY DEF Changed, UrlOf
<1> QED BY <1>1, <1>2

LEMMA CallIsFound ==
  ASSUME NEW t, NEW M, NEW found \in Founds(t, M), NEW m \in M
  PROVE  CallModule(UrlOf(t, << >>), found, m) \in Founds(t, M)
<1>1. CASE m \in Transforms
  <2>1. PICK c \in Seq(M) : (IF found = << >> THEN UrlOf(t, << >>) ELSE found[1]) = UrlOf(t, c)
    <3>1. CASE found = << >>
      <4>1. << >> \in Seq(M) BY EmptySeq, Zenon
      <4> QED BY <3>1, <4>1
    <3>2. CASE found # << >>
      <4>1. PICK c \in Seq(M) : found = <<UrlOf(t, c)>> BY <3>2 DEF Founds
      <4>2. found[1] = UrlOf(t, c) BY <4>1
      <4> QED BY <3>2, <4>2
    <3> QED BY <3>1, <3>2
  <2>2. Changed(UrlOf(t, c), m) = UrlOf(t, Append(c, m)) /\ Append(c, m) \in Seq(M) BY ChangedIs
  <2>3. CallModule(UrlOf(t, << >>), found, m) = <<UrlOf(t, Append(c, m))>>
    BY <1>1, <2>1, <2>2, HooksAssumption DEF CallModule
  <2> QED BY <2>2, <2>3 DEF Founds
<1>2. CASE m \notin Transforms /\ m \in Nils
  <2>1. CallModule(UrlOf(t, << >>), found, m) = << >> BY <1>2 DEF CallModule
  <2> QED BY <2>1 DEF Founds
<1>3. CASE m \notin Transforms /\ m \notin Nils
  <2>1. CallModule(UrlOf(t, << >>), found, m) = found BY <1>3 DEF CallModule
  <2> QED BY <2>1
<1> QED BY <1>1, <1>2, <1>3

LEMMA CallLoop ==
  ASSUME NEW t, NEW M, NEW chain \in Seq(M)
  PROVE  \E g \in [0 .. Len(chain) -> Founds(t, M)] : CallsOf(g, UrlOf(t, << >>), chain)
<1> DEFINE N == Len(chain)
           url == UrlOf(t, << >>)
           X == Founds(t, M)
           G == [i \in 1 .. N |-> [x \in X |-> CallModule(url, x, chain[i])]]
           Body(f, i) == IF i = 0 THEN << >> ELSE CallModule(url, f[i - 1], chain[i])
           Eq(f) == f = [i \in 0 .. N |-> IF i = 0 THEN << >> ELSE CallModule(url, f[i - 1], chain[i])]
<1> HIDE DEF X, url
<1>0. N \in Nat OBVIOUS
<1>1. PICK g \in [0 .. N -> X] : Iterates(g, N, << >>, G)
  <2>1. StaysIn(X, N, G)
    <3>1. ASSUME NEW i \in 1 .. N, NEW x \in X PROVE G[i][x] \in X
      <4>1. chain[i] \in M OBVIOUS
      <4>2. CallModule(url, x, chain[i]) \in X BY <4>1, CallIsFound DEF X, url
      <4> QED BY <4>2
    <3> HIDE DEF G
    <3> QED BY <3>1 DEF StaysIn
  <2>2. << >> \in X BY DEF X, Founds
  <2> HIDE DEF G, N
  <2> QED BY <1>0, <2>1, <2>2, Recursion, Zenon
<1>2. \A i \in 1 .. N : g[i - 1] \in X OBVIOUS
<1>3. g[0] = << >> /\ \A i \in 1 .. N : g[i] = CallModule(url, g[i - 1], chain[i])
  BY <1>1, <1>2 DEF Iterates
<1>4. Eq(g)
  <2>1. ASSUME NEW i \in 0 .. N PROVE g[i] = Body(g, i)
    <3>1. i = 0 \/ (i # 0 /\ i \in 1 .. N) BY <1>0
    <3>2. CASE i = 0 BY <1>3, <3>2, Zenon
    <3>3. CASE i # 0 /\ i \in 1 .. N BY <1>3, <3>3, Zenon
    <3> QED BY <3>1, <3>2, <3>3
  <2>2. g = [i \in 0 .. N |-> g[i]] OBVIOUS
  <2> QED BY <2>1, <2>2, Zenon
<1>5. \E f : Eq(f) BY <1>4
<1> DEFINE h == CHOOSE f : Eq(f)
<1>6. Eq(h)
  <2> HIDE DEF Eq
  <2> QED BY <1>5
<1>7. DecodeUrlStart(chain, url) = IF h[N] = << >> THEN url ELSE h[N][1]
  BY Zenon DEF DecodeUrlStart, CallModule
<1> HIDE DEF h
<1>8. h = g
  <2>1. h[0] = << >> /\ \A i \in 1 .. N : h[i] = CallModule(url, h[i - 1], chain[i])
    <3>1. 0 \in 0 .. N /\ \A i \in 1 .. N : i \in 0 .. N /\ i # 0 BY <1>0
    <3>2. ASSUME NEW i \in 0 .. N PROVE h[i] = Body(h, i)
      BY <1>6, Zenon
    <3>3. h[0] = << >> BY <3>1, <3>2, Zenon
    <3>4. ASSUME NEW i \in 1 .. N PROVE h[i] = CallModule(url, h[i - 1], chain[i])
      BY <3>1, <3>2, Zenon
    <3> QED BY <3>3, <3>4
  <2> DEFINE S == {i \in 0 .. N : h[i] = g[i]}
  <2>2. 0 \in S BY <1>0, <1>3, <2>1
  <2>3. ASSUME NEW i \in 1 .. N, i - 1 \in S PROVE i \in S
    <3>1. h[i - 1] = g[i - 1] BY <2>3
    <3>2. h[i] = g[i] BY <1>3, <2>1, <3>1, Zenon
    <3>3. i \in 0 .. N BY <1>0
    <3> QED BY <3>2, <3>3
  <2>4. \A i \in 0 .. N : i \in S
    <3> HIDE DEF S
    <3> QED BY <1>0, <2>2, <2>3, UpTo
  <2>5. h = [i \in 0 .. N |-> h[i]] BY <1>6, Zenon
  <2>6. g = [i \in 0 .. N |-> g[i]] OBVIOUS
  <2>7. \A i \in 0 .. N : h[i] = g[i] BY <2>4
  <2> QED BY <2>5, <2>6, <2>7, Zenon
<1> QED BY <1>3, <1>7, <1>8 DEF CallsOf, X, url

(* The decoder is given the text, changed by some of the modules; by those *)
(* that change it, in their order, when every one of them returns a string.*)
LEMMA DecodeUrlStartIs ==
  ASSUME NEW t, NEW M, NEW chain \in Seq(M)
  PROVE  \E c \in Seq(M) :
           /\ DecodeUrlStart(chain, UrlOf(t, << >>)) = UrlOf(t, c)
           /\ (\A i \in 1 .. Len(chain) : chain[i] \notin Nils) => c = Those(chain, Transforms)
<1> DEFINE N == Len(chain)
           url == UrlOf(t, << >>)
           P == {i \in DOMAIN chain : chain[i] \in Transforms}
           Wrap(c) == IF c = << >> THEN << >> ELSE <<UrlOf(t, c)>>
<1>10. N \in Nat OBVIOUS
<1>11. << >> \in Seq(M) BY EmptySeq, Zenon
<1>0. N \in Nat /\ << >> \in Seq(M) BY <1>10, <1>11
<1>1. PICK g \in [0 .. N -> Founds(t, M)] : CallsOf(g, url, chain) BY CallLoop, Zenon
<1>2. PICK d \in Founds(t, M) : d = g[N] BY <1>0, <1>1
<1>3. PICK c \in Seq(M) : (IF d = << >> THEN url ELSE d[1]) = UrlOf(t, c)
  <2>1. CASE d = << >> BY <1>0, <2>1
  <2>2. CASE d # << >>
    <3>1. PICK c \in Seq(M) : d = <<UrlOf(t, c)>> BY <2>2 DEF Founds
    <3>2. d[1] = UrlOf(t, c) BY <3>1
    <3> QED BY <2>2, <3>2
  <2> QED BY <2>1, <2>2
<1>4. DecodeUrlStart(chain, url) = UrlOf(t, c) BY <1>1, <1>2, <1>3 DEF CallsOf
<1>5. ASSUME \A i \in 1 .. N : chain[i] \notin Nils PROVE c = Those(chain, Transforms)
  <2> HIDE DEF P, Wrap, url
  <2>1. PICK f \in [0 .. N -> Seq(M)] : KeepsAt(f, chain, P) BY AtLoop, Zenon
  <2> DEFINE S == {i \in 0 .. N : g[i] = Wrap(f[i])}
  <2>2. 0 \in S
    <3>1. g[0] = << >> /\ f[0] = << >> BY <1>1, <2>1 DEF CallsOf, KeepsAt, url
    <3> QED BY <1>0, <3>1 DEF Wrap
  <2>3. ASSUME NEW i \in 1 .. N, i - 1 \in S PROVE i \in S
    <3>1. i \in 0 .. N /\ i - 1 \in 0 .. N /\ i \in DOMAIN chain BY <1>0
    <3>2. PICK b \in Seq(M) : b = f[i - 1] BY <2>1, <3>1
    <3>3. PICK m \in M : m = chain[i] BY <3>1
    <3>4. g[i - 1] = Wrap(b) BY <2>3, <3>2
    <3>5. g[i] = CallModule(url, Wrap(b), m) BY <1>1, <3>3, <3>4 DEF CallsOf
    <3>6. f[i] = IF i \in P THEN Append(b, m) ELSE b BY <2>1, <3>2, <3>3 DEF KeepsAt
    <3>7. m \notin Nils BY <1>5, <3>3
    <3>8. CASE m \in Transforms
      <4>1. f[i] = Append(b, m) /\ Append(b, m) # << >>
        <5>1. i \in P BY <3>1, <3>3, <3>8 DEF P
        <5>3. Len(Append(b, m)) # 0 OBVIOUS
        <5>4. PICK n : n = Append(b, m) OBVIOUS
        <5>5. n # << >> BY ONLY <5>3, <5>4
        <5>2. Append(b, m) # << >> BY <5>4, <5>5
        <5> QED BY <3>6, <5>1, <5>2
      <4>2. (IF Wrap(b) = << >> THEN url ELSE Wrap(b)[1]) = UrlOf(t, b)
        <5>1. CASE b = << >> BY <5>1 DEF Wrap, url
        <5>2. CASE b # << >>
          <6>1. Wrap(b) = <<UrlOf(t, b)>> BY <5>2 DEF Wrap
          <6>2. Wrap(b) # << >> /\ Wrap(b)[1] = UrlOf(t, b) BY <6>1
          <6> QED BY <6>2
        <5> QED BY <5>1, <5>2
      <4>3. Changed(UrlOf(t, b), m) = UrlOf(t, Append(b, m)) BY ChangedIs, Zenon
      <4>4. g[i] = <<UrlOf(t, Append(b, m))>> BY <3>5, <3>7, <3>8, <4>2, <4>3 DEF CallModule
      <4>5. g[i] = Wrap(f[i]) BY <4>1, <4>4 DEF Wrap
      <4> QED BY <3>1, <4>5
    <3>9. CASE m \notin Transforms
      <4>1. i \notin P BY <3>3, <3>9 DEF P
      <4>2. f[i] = b BY <3>6, <4>1
      <4>3. g[i] = Wrap(b) BY <3>5, <3>7, <3>9 DEF CallModule
      <4> QED BY <3>1, <4>2, <4>3
    <3> QED BY <3>8, <3>9
  <2>4. N \in S
    <3>1. \A i \in 0 .. N : i \in S
      <4> HIDE DEF S
      <4> QED BY <1>0, <2>2, <2>3, UpTo
    <3> QED BY <1>0, <3>1
  <2>5. Those(chain, Transforms) = f[N] BY <2>1 DEF Those, KeepsAt, P
  <2>6. PICK b \in Seq(M) : b = f[N] BY <1>0, <2>1
  <2>7. d = Wrap(b) BY <1>2, <2>4, <2>6
  <2>8. UrlOf(t, c) = UrlOf(t, b)
    <3>1. CASE b = << >> BY <1>3, <2>7, <3>1 DEF Wrap, url
    <3>2. CASE b # << >>
      <4>1. d = <<UrlOf(t, b)>> BY <2>7, <3>2 DEF Wrap
      <4>2. d # << >> /\ d[1] = UrlOf(t, b) BY <4>1
      <4> QED BY <1>3, <4>2
    <3> QED BY <3>1, <3>2
  <2>9. UrlOf(t, c).changed = c /\ UrlOf(t, b).changed = b BY DEF UrlOf
  <2> QED BY <2>5, <2>6, <2>8, <2>9
<1> QED BY <1>4, <1>5

(***************************************************************************)
(* What is kept, and where is cut, by what the elements are.               *)
(***************************************************************************)
Joined(x, s, t) ==
  /\ Len(x) = Len(s) + Len(t) /\ \A i \in 1 .. Len(s) : x[i] = s[i]
  /\ \A i \in 1 .. Len(t) : x[Len(s) + i] = t[i]
NoLaterPlace(s, t, U) == \A i \in 1 .. Len(t) : Len(s) + i \notin U

LEMMA CutPiecePlaces ==
  ASSUME NEW R, NEW s \in Seq(R), NEW t \in Seq(R), NEW e \in R, NEW P, NEW U,
         SamePlaces(s, U, P), NoLaterPlace(s, t, U), Len(s) + Len(t) + 1 \in U,
         CutAfter(s, P).rest = << >>
  PROVE  CutAfter(s \o Append(t, e), U) =
           [pieces |-> Append(CutAfter(s, P).pieces, Append(t, e)), rest |-> << >>]
BY CutPiece DEF SamePlaces, NoLaterPlace

LEMMA ConcatIs ==
  ASSUME NEW R, NEW s \in Seq(R), NEW t \in Seq(R)
  PROVE  s \o t \in Seq(R) /\ Joined(s \o t, s, t)
<1>1. PICK m \in Nat, n \in Nat : m = Len(s) /\ n = Len(t) OBVIOUS
<1>2. /\ s \o t \in Seq(R) /\ Len(s \o t) = Len(s) + Len(t)
      /\ \A i \in 1 .. Len(s) + Len(t) : (s \o t)[i] = IF i <= Len(s) THEN s[i] ELSE t[i - Len(s)]
  BY ConcatProperties, Zenon
<1>3. \A i \in 1 .. m + n : (s \o t)[i] = IF i <= m THEN s[i] ELSE t[i - m] BY <1>1, <1>2, Zenon
<1>4. \A i \in 1 .. m : i \in 1 .. m + n /\ i <= m OBVIOUS
<1>5. \A i \in 1 .. n : m + i \in 1 .. m + n /\ ~(m + i <= m) /\ (m + i) - m = i OBVIOUS
<1>6. \A i \in 1 .. m : (s \o t)[i] = s[i] BY <1>3, <1>4, Zenon
<1>7. \A i \in 1 .. n : (s \o t)[m + i] = t[i] BY <1>3, <1>5, Zenon
<1> QED BY <1>1, <1>2, <1>6, <1>7, Zenon DEF Joined

LEMMA ThoseIsSeq ==
  ASSUME NEW R, NEW s \in Seq(R), NEW Z
  PROVE  Those(s, Z) \in Seq(R)
<1>1. PICK P : P = {i \in DOMAIN s : s[i] \in Z} OBVIOUS
<1>2. At(s, P) \in Seq(R) BY AtIsSeq, Zenon
<1> QED BY <1>1, <1>2, Zenon DEF Those

LEMMA ThoseConcat ==
  ASSUME NEW R, NEW s \in Seq(R), NEW t \in Seq(R), NEW Z
  PROVE  Those(s \o t, Z) = Those(s, Z) \o Those(t, Z)
<1>1. PICK x \in Seq(R) : x = s \o t BY ConcatIs, Zenon
<1>9. Joined(x, s, t) BY <1>1, ConcatIs, Zenon
<1>2. Len(x) = Len(s) + Len(t) /\ (\A i \in 1 .. Len(s) : x[i] = s[i])
      /\ (\A i \in 1 .. Len(t) : x[Len(s) + i] = t[i])
  BY <1>9 DEF Joined
<1>3. PICK P : P = {i \in DOMAIN s : s[i] \in Z} OBVIOUS
<1>4. PICK Q : Q = {i \in DOMAIN t : t[i] \in Z} OBVIOUS
<1>5. PICK U : U = {i \in DOMAIN x : x[i] \in Z} OBVIOUS
<1>6. \A i \in 1 .. Len(s) : (i \in U) <=> (i \in P)
  <2>1. \A i \in 1 .. Len(s) : i \in DOMAIN s /\ i \in DOMAIN x BY <1>2
  <2> QED BY <1>2, <1>3, <1>5, <2>1
<1>7. \A i \in 1 .. Len(t) : (Len(s) + i \in U) <=> (i \in Q)
  <2>1. \A i \in 1 .. Len(t) : i \in DOMAIN t /\ Len(s) + i \in DOMAIN x BY <1>2
  <2> QED BY <1>2, <1>4, <1>5, <2>1
<1>8. At(s \o t, U) = At(s, P) \o At(t, Q)
  <2>1. SamePlaces(s, U, P) BY <1>6 DEF SamePlaces
  <2>2. LaterPlaces(s, t, U, Q) BY <1>7 DEF LaterPlaces
  <2> QED BY <2>1, <2>2, AtConcat
<1> QED BY <1>1, <1>3, <1>4, <1>5, <1>8, Zenon DEF Those

LEMMA ThoseAll ==
  ASSUME NEW R, NEW s \in Seq(R), NEW Z, \A i \in 1 .. Len(s) : s[i] \in Z
  PROVE  Those(s, Z) = s
<1>1. PICK P : P = {i \in DOMAIN s : s[i] \in Z} OBVIOUS
<1>2. \A i \in 1 .. Len(s) : i \in P BY <1>1
<1>3. At(s, P) = s BY <1>2, AtAll
<1> QED BY <1>1, <1>3, Zenon DEF Those

LEMMA ThoseNone ==
  ASSUME NEW R, NEW s \in Seq(R), NEW Z, \A i \in 1 .. Len(s) : s[i] \notin Z
  PROVE  Those(s, Z) = << >>
<1>1. PICK P : P = {i \in DOMAIN s : s[i] \in Z} OBVIOUS
<1>2. \A i \in 1 .. Len(s) : i \notin P BY <1>1
<1>3. At(s, P) = << >> BY <1>2, AtNone
<1> QED BY <1>1, <1>3, Zenon DEF Those

LEMMA ThoseEmpty ==
  ASSUME NEW Z
  PROVE  Those(<< >>, Z) = << >>
<1>1. PICK P : P = {i \in DOMAIN << >> : << >>[i] \in Z} OBVIOUS
<1>2. At(<< >>, P) = << >> BY AtEmpty, Zenon
<1> QED BY <1>1, <1>2, Zenon DEF Those

LEMMA ThoseOneMore ==
  ASSUME NEW R, NEW s \in Seq(R), NEW e \in R, NEW Z
  PROVE  Those(Append(s, e), Z) = IF e \in Z THEN Append(Those(s, Z), e) ELSE Those(s, Z)
<1>0. PICK n \in Nat : n = Len(s) OBVIOUS
<1>1. PICK x \in Seq(R) : x = Append(s, e) BY AppendProperties, Zenon
<1>2. Len(x) = n + 1 /\ (\A i \in 1 .. n : x[i] = s[i]) /\ x[n + 1] = e BY <1>0, <1>1
<1>3. PICK P : P = {i \in DOMAIN s : s[i] \in Z} OBVIOUS
<1>5. PICK U : U = {i \in DOMAIN x : x[i] \in Z} OBVIOUS
<1>9. DOMAIN s = 1 .. n /\ DOMAIN x = 1 .. n + 1 BY <1>0, <1>2
<1>6. \A i \in 1 .. Len(s) : (i \in P) <=> (i \in U)
  <2>1. \A i \in 1 .. n : i \in 1 .. n + 1 OBVIOUS
  <2> QED BY <1>0, <1>2, <1>3, <1>5, <1>9, <2>1, Zenon
<1>7. (Len(s) + 1 \in U) <=> (e \in Z)
  <2>1. n + 1 \in 1 .. n + 1 OBVIOUS
  <2> QED BY <1>0, <1>2, <1>5, <1>9, <2>1, Zenon
<1>8. At(Append(s, e), U) = IF Len(s) + 1 \in U THEN Append(At(s, P), e) ELSE At(s, P)
  BY <1>6, AtAppend
<1>10. Those(Append(s, e), Z) = At(Append(s, e), U) /\ Those(s, Z) = At(s, P)
  BY <1>1, <1>3, <1>5, Zenon DEF Those
<1> QED BY <1>7, <1>8, <1>10, Zenon

CutBehind(s, Z) == CutAfter(s, {i \in DOMAIN s : s[i] \in Z})

LEMMA CutBehindEmpty ==
  ASSUME NEW Z
  PROVE  CutBehind(<< >>, Z) = [pieces |-> << >>, rest |-> << >>]
<1>1. PICK P : P = {i \in DOMAIN << >> : << >>[i] \in Z} OBVIOUS
<1>2. CutAfter(<< >>, P) = [pieces |-> << >>, rest |-> << >>] BY CutEmpty, Zenon
<1> QED BY <1>1, <1>2, Zenon DEF CutBehind

LEMMA CutBehindIs ==
  ASSUME NEW R, NEW s \in Seq(R), NEW Z
  PROVE  CutBehind(s, Z).pieces \in Seq(Seq(R)) /\ CutBehind(s, Z).rest \in Seq(R)
<1>1. PICK P : P = {i \in DOMAIN s : s[i] \in Z} OBVIOUS
<1>2. PICK c \in Cuts(R) : c = CutAfter(s, P) BY CutIsCut, Zenon
<1>3. c.pieces \in Seq(Seq(R)) /\ c.rest \in Seq(R) BY DEF Cuts
<1> QED BY <1>1, <1>2, <1>3, Zenon DEF CutBehind

EndsOnce(t, Z) == Len(t) > 0 /\ \A k \in 1 .. Len(t) : (t[k] \in Z) <=> (k = Len(t))

(* A piece behind whole pieces is a piece.                                 *)
LEMMA PieceAdded ==
  ASSUME NEW R, NEW s \in Seq(R), NEW t \in Seq(R), NEW Z, EndsOnce(t, Z), CutBehind(s, Z).rest = << >>
  PROVE  CutBehind(s \o t, Z) = [pieces |-> Append(CutBehind(s, Z).pieces, t), rest |-> << >>]
<1>0. PICK m \in Nat, n \in Nat : m = Len(s) /\ n = Len(t) OBVIOUS
<1>1. PICK x \in Seq(R) : x = s \o t BY ConcatIs, Zenon
<1>9. Joined(x, s, t) BY <1>1, ConcatIs, Zenon
<1>2. Len(x) = m + n /\ (\A i \in 1 .. m : x[i] = s[i]) /\ (\A i \in 1 .. n : x[m + i] = t[i])
  BY <1>0, <1>9, Zenon DEF Joined
<1>3. n > 0 /\ \A k \in 1 .. n : (t[k] \in Z) <=> (k = n) BY <1>0 DEF EndsOnce
<1>4. PICK f \in Seq(R), e \in R : t = Append(f, e) /\ Len(f) = n - 1
  <2>1. n \in 1 .. Len(t) BY <1>0, <1>3
  <2>2. SubSeq(t, 1, n - 1) \in Seq(R) /\ Len(SubSeq(t, 1, n - 1)) = n - 1 /\ t[n] \in R
        /\ SubSeq(t, 1, n) = Append(SubSeq(t, 1, n - 1), t[n])
    BY <2>1, PrefixGrows, Zenon
  <2>3. SubSeq(t, 1, n) = t BY <1>0, PrefixEnds, Zenon
  <2> QED BY <2>2, <2>3
<1>5. PICK P : P = {i \in DOMAIN s : s[i] \in Z} OBVIOUS
<1>6. PICK U : U = {i \in DOMAIN x : x[i] \in Z} OBVIOUS
<1>7. DOMAIN s = 1 .. m /\ DOMAIN x = 1 .. m + n BY <1>0, <1>2
<1>8. \A i \in 1 .. Len(s) : (i \in U) <=> (i \in P)
  <2>1. \A i \in 1 .. m : i \in 1 .. m + n OBVIOUS
  <2> QED BY <1>0, <1>2, <1>5, <1>6, <1>7, <2>1, Zenon
<1>10. \A i \in 1 .. n : (m + i \in U) <=> (i = n)
  <2>1. \A i \in 1 .. n : m + i \in 1 .. m + n OBVIOUS
  <2> QED BY <1>2, <1>3, <1>6, <1>7, <2>1, Zenon
<1>11. \A i \in 1 .. Len(f) : Len(s) + i \notin U
  <2>1. \A i \in 1 .. Len(f) : i \in 1 .. n /\ i # n BY <1>4
  <2> QED BY <1>0, <1>10, <2>1
<1>12. Len(s) + Len(f) + 1 \in U
  <2>1. n \in 1 .. n /\ m + (n - 1) + 1 = m + n BY <1>3
  <2> QED BY <1>0, <1>4, <1>10, <2>1
<1>13. CutBehind(s, Z) = CutAfter(s, P) BY <1>5, Zenon DEF CutBehind
<1>14. CutAfter(s, P).rest = << >> BY <1>13
<1>15. CutAfter(s \o Append(f, e), U) = [pieces |-> Append(CutAfter(s, P).pieces, Append(f, e)), rest |-> << >>]
  <2>1. SamePlaces(s, U, P) BY <1>8 DEF SamePlaces
  <2>2. NoLaterPlace(s, f, U) BY <1>11 DEF NoLaterPlace
  <2> QED BY <1>12, <1>14, <2>1, <2>2, CutPiecePlaces
<1>16. CutBehind(s \o t, Z) = CutAfter(s \o t, U) BY <1>1, <1>6, Zenon DEF CutBehind
<1> QED BY <1>4, <1>13, <1>15, <1>16, Zenon

LEMMA RestAdded ==
  ASSUME NEW R, NEW s \in Seq(R), NEW t \in Seq(R), NEW Z, \A k \in 1 .. Len(t) : t[k] \notin Z,
         CutBehind(s, Z).rest = << >>
  PROVE  CutBehind(s \o t, Z) = [pieces |-> CutBehind(s, Z).pieces, rest |-> t]
<1>0. PICK m \in Nat, n \in Nat : m = Len(s) /\ n = Len(t) OBVIOUS
<1>1. PICK x \in Seq(R) : x = s \o t BY ConcatIs, Zenon
<1>9. Joined(x, s, t) BY <1>1, ConcatIs, Zenon
<1>2. Len(x) = m + n /\ (\A i \in 1 .. m : x[i] = s[i]) /\ (\A i \in 1 .. n : x[m + i] = t[i])
  BY <1>0, <1>9, Zenon DEF Joined
<1>5. PICK P : P = {i \in DOMAIN s : s[i] \in Z} OBVIOUS
<1>6. PICK U : U = {i \in DOMAIN x : x[i] \in Z} OBVIOUS
<1>7. DOMAIN s = 1 .. m /\ DOMAIN x = 1 .. m + n BY <1>0, <1>2
<1>8. \A i \in 1 .. Len(s) : (i \in U) <=> (i \in P)
  <2>1. \A i \in 1 .. m : i \in 1 .. m + n OBVIOUS
  <2> QED BY <1>0, <1>2, <1>5, <1>6, <1>7, <2>1, Zenon
<1>10. \A i \in 1 .. Len(t) : Len(s) + i \notin U
  <2>1. \A i \in 1 .. n : m + i \in 1 .. m + n OBVIOUS
  <2> QED BY <1>0, <1>2, <1>6, <1>7, <2>1, Zenon
<1>13. CutBehind(s, Z) = CutAfter(s, P) BY <1>5, Zenon DEF CutBehind
<1>14. << >> \o t = t BY ConcatEmptySeq, Zenon
<1>15. CutAfter(s \o t, U) = [pieces |-> CutAfter(s, P).pieces, rest |-> CutAfter(s, P).rest \o t]
  BY <1>8, <1>10, CutWithin
<1>16. CutBehind(s \o t, Z) = CutAfter(s \o t, U) BY <1>1, <1>6, Zenon DEF CutBehind
<1> QED BY <1>13, <1>14, <1>15, <1>16, Zenon

(***************************************************************************)
(* What is printed for one URL.                                            *)
(***************************************************************************)
WordSet == UNION {Range(c) : c \in Commands}
Chars == UNION {Range(s) : s \in Streams}
Texts == WordSet \cup Seq(Chars)
ModuleNames == Range(Enabled) \cup WordSet
Urls == UrlSet(Texts, ModuleNames)
Whose == Urls \cup {HeaderText} \cup Nat
AnyCell ==
  [column : FieldNames \cup {"open", "close"}, of : Whose, ends : {"separator", "newline"}]
ModuleCells == [column : {"module"}, of : Urls, ends : ModuleNames]
OutCells == AnyCell \cup ModuleCells

OptsSet ==
  [print_header : BOOLEAN, print_line : BOOLEAN, input_source : {"argument", "pipe", "file"},
   current_line : Nat, output : {"csv", "json", "module"}, exec_modules : {"path", "noexec", "arg"},
   modules_argv : Seq(WordSet), fields : SUBSET FieldNames, snapshot_name : BOOLEAN, quiet : BOOLEAN,
   empty_lines_processed : BOOLEAN, skip_file_check : BOOLEAN, compare : BOOLEAN]

LEMMA UrlIsNoHeader == \A u \in Urls : u # HeaderText
<1>1. SUFFICES ASSUME NEW u \in Urls, u = HeaderText PROVE FALSE OBVIOUS
<1>2. "text" \in DOMAIN u BY DEF Urls, UrlSet
<1>3. "text" \notin DOMAIN HeaderText BY DEF HeaderText
<1> QED BY <1>1, <1>2, <1>3

LEMMA NoOtherColumn == "module" \notin FieldNames /\ "open" \notin FieldNames /\ "close" \notin FieldNames
<1>1. SUFFICES ASSUME NEW f \in FieldNames PROVE f # "module" /\ f # "open" /\ f # "close" OBVIOUS
<1>2. PICK b \in 1 .. 14 : f = Fields[b] BY FieldsAre
<1>3. Fields[b] # "module" /\ Fields[b] # "open" /\ Fields[b] # "close" BY SMTT(30) DEF Fields
<1> QED BY <1>2, <1>3

LEMMA CellsAreAny ==
  ASSUME NEW s \in Seq(CellSet(Whose))
  PROVE  s \in Seq(AnyCell) /\ \A i \in 1 .. Len(s) : s[i] \in CellSet(Whose) /\ s[i].column \in FieldNames
<1>1. \A c \in CellSet(Whose) : c \in AnyCell /\ c.column \in FieldNames BY DEF CellSet, AnyCell
<1>2. \A i \in 1 .. Len(s) : s[i] \in CellSet(Whose) OBVIOUS
<1>3. s = [i \in 1 .. Len(s) |-> s[i]] /\ Len(s) \in Nat OBVIOUS
<1>4. \A i \in 1 .. Len(s) : s[i] \in AnyCell BY <1>1, <1>2
<1>5. s \in [1 .. Len(s) -> AnyCell] BY <1>3, <1>4
<1>6. s \in Seq(AnyCell) BY <1>3, <1>5
<1> QED BY <1>1, <1>2, <1>6

(* One line of CSV, or one object, and whose it is.                        *)
Whole(output, line) ==
  \A i \in DOMAIN line :
    LET inside == output = "csv" \/ i \in 2 .. Len(line) - 2
    IN /\ line[i].column = "line" \/ line[i].of = Of(line)
       /\ line[i].ends = IF inside /\ i < Len(line) THEN "separator" ELSE "newline"
Columns(line) == [i \in DOMAIN line |-> line[i].column]
Ending(output) == {c \in AnyCell : IF output = "json" THEN c.column = "close" ELSE c.ends = "newline"}
GoodLine(output, line, of) ==
  line \in Seq(AnyCell) /\ Len(line) > 0 /\ EndsOnce(line, Ending(output)) /\ Whole(output, line) /\ Of(line) = of

LEMMA OfLast ==
  ASSUME NEW R, NEW s \in Seq(R), Len(s) > 0
  PROVE  Of(s) = s[Len(s)].of
BY DEF Of, Last

LEMMA CellsAreLine ==
  ASSUME NEW c \in Seq(CellSet(Whose)), NEW of, GoodCells(c, of)
  PROVE  GoodLine("csv", c, of)
<1>1. PICK n \in Nat : n = Len(c) OBVIOUS
<1>2. n > 0 /\ \A k \in 1 .. n : c[k].of = of /\ c[k].ends = IF k < n THEN "separator" ELSE "newline"
  BY <1>1 DEF GoodCells
<1>3. c \in Seq(AnyCell) /\ \A k \in 1 .. n : c[k] \in AnyCell
  <2>1. c \in Seq(AnyCell) BY CellsAreAny
  <2> QED BY <1>1, <2>1
<1>4. Of(c) = of
  <2>1. Of(c) = c[n].of BY <1>1, <1>2, OfLast
  <2>2. n \in 1 .. n BY <1>2
  <2> QED BY <1>2, <2>1, <2>2
<1>5. EndsOnce(c, Ending("csv"))
  <2>1. ASSUME NEW k \in 1 .. n PROVE (c[k] \in Ending("csv")) <=> (k = n)
    <3>1. (c[k] \in Ending("csv")) <=> (c[k].ends = "newline") BY <1>3 DEF Ending
    <3>2. CASE k < n BY <1>2, <3>1, <3>2
    <3>3. CASE k = n BY <1>2, <3>1, <3>3
    <3> QED BY <3>2, <3>3
  <2> QED BY <1>1, <1>2, <2>1 DEF EndsOnce
<1>6. Whole("csv", c)
  <2>1. DOMAIN c = 1 .. n BY <1>1
  <2> QED BY <1>1, <1>2, <1>4, <2>1, Zenon DEF Whole
<1> QED BY <1>1, <1>2, <1>3, <1>4, <1>5, <1>6 DEF GoodLine

(* The number in front of a row. *)
LEMMA NumberedLine ==
  ASSUME NEW c \in Seq(CellSet(Whose)), NEW of, GoodCells(c, of), NEW n \in Nat, NEW e,
         e = [column |-> "line", of |-> n, ends |-> "separator"]
  PROVE  GoodLine("csv", <<e>> \o c, of) /\ (<<e>> \o c)[1].of = n
<1>1. PICK m \in Nat : m = Len(c) OBVIOUS
<1>2. m > 0 /\ \A k \in 1 .. m : c[k].of = of /\ c[k].ends = IF k < m THEN "separator" ELSE "newline"
  BY <1>1 DEF GoodCells
<1>3. PICK d \in Seq(AnyCell) : d = c BY CellsAreAny
<1>4. e \in AnyCell
  <2>1. "line" \in FieldNames
    <3>1. Fields[2] \in FieldNames BY BitIs
    <3> QED BY <3>1, FieldsAre
  <2> QED BY <2>1 DEF AnyCell, Whose
<1>5. PICK r : r = <<e>> \o c OBVIOUS
<1>6. r \in Seq(AnyCell) /\ Len(r) = 1 + Len(c) /\ r[1] = e /\ \A i \in 1 .. Len(c) : r[i + 1] = c[i]
  <2>1. PICK R : R = AnyCell OBVIOUS
  <2>2. PICK x \in R, y \in Seq(R) : x = e /\ y = c BY <1>3, <1>4, <2>1
  <2>3. /\ <<x>> \o y \in Seq(R) /\ Len(<<x>> \o y) = 1 + Len(y)
        /\ (<<x>> \o y)[1] = x /\ \A i \in 1 .. Len(y) : (<<x>> \o y)[i + 1] = y[i]
    BY OneThenMore
  <2> QED BY <1>5, <2>1, <2>2, <2>3, Zenon
<1>7. Len(r) = m + 1 /\ r[1] = e /\ \A i \in 1 .. m : r[i + 1] = c[i] BY <1>1, <1>6
<1>8. ASSUME NEW k \in 1 .. m + 1
      PROVE  /\ r[k].column = "line" \/ r[k].of = of
             /\ r[k].ends = IF k < m + 1 THEN "separator" ELSE "newline"
             /\ r[k] \in AnyCell
  <2>1. r[k] \in AnyCell BY <1>6, <1>7
  <2>2. CASE k = 1
    <3>1. r[k] = e /\ k < m + 1 BY <1>2, <1>7, <2>2
    <3> QED BY <2>1, <3>1
  <2>3. CASE k # 1
    <3>1. k - 1 \in 1 .. m /\ (k - 1) + 1 = k /\ (k - 1 < m <=> k < m + 1) BY <2>3
    <3>2. r[k] = c[k - 1] BY <1>7, <3>1
    <3> QED BY <1>2, <2>1, <3>1, <3>2
  <2> QED BY <2>2, <2>3
<1>9. Of(r) = of
  <2>1. Of(r) = r[m + 1].of BY <1>6, <1>7, OfLast
  <2>2. m \in 1 .. m BY <1>2
  <2>3. r[m + 1] = c[m] BY <1>7, <2>2
  <2> QED BY <1>2, <2>1, <2>2, <2>3
<1>10. EndsOnce(r, Ending("csv"))
  <2>1. ASSUME NEW k \in 1 .. m + 1 PROVE (r[k] \in Ending("csv")) <=> (k = m + 1)
    <3>1. (r[k] \in Ending("csv")) <=> (r[k].ends = "newline") BY <1>8 DEF Ending
    <3>2. CASE k < m + 1 BY <1>8, <3>1, <3>2
    <3>3. CASE k = m + 1 BY <1>8, <3>1, <3>3
    <3> QED BY <3>2, <3>3
  <2> QED BY <1>7, <2>1 DEF EndsOnce
<1>11. Whole("csv", r)
  <2>1. DOMAIN r = 1 .. m + 1 BY <1>6, <1>7
  <2> QED BY <1>7, <1>8, <1>9, <2>1, Zenon DEF Whole
<1>12. r[1].of = n BY <1>7
<1> QED BY <1>5, <1>6, <1>7, <1>9, <1>10, <1>11, <1>12 DEF GoodLine

LEMMA ObjectLine ==
  ASSUME NEW c \in Seq(CellSet(Whose)), NEW of \in Whose, GoodCells(c, of), NEW a, NEW b,
         a = [column |-> "open", of |-> of, ends |-> "newline"],
         b = [column |-> "close", of |-> of, ends |-> "newline"]
  PROVE  GoodLine("json", <<a>> \o c \o <<b>>, of)
<1>1. PICK m \in Nat : m = Len(c) OBVIOUS
<1>2. m > 0 /\ \A k \in 1 .. m : /\ c[k].of = of /\ c[k].column \in FieldNames
                                 /\ c[k].ends = IF k < m THEN "separator" ELSE "newline"
  BY <1>1 DEF GoodCells
<1>3. PICK d \in Seq(AnyCell) : d = c BY CellsAreAny
<1>4. a \in AnyCell /\ b \in AnyCell BY DEF AnyCell
<1>5. PICK r : r = <<a>> \o c OBVIOUS
<1>6. r \in Seq(AnyCell) /\ Len(r) = 1 + Len(c) /\ r[1] = a /\ \A i \in 1 .. Len(c) : r[i + 1] = c[i]
  <2>1. PICK R : R = AnyCell OBVIOUS
  <2>2. PICK x \in R, y \in Seq(R) : x = a /\ y = c BY <1>3, <1>4, <2>1
  <2>3. /\ <<x>> \o y \in Seq(R) /\ Len(<<x>> \o y) = 1 + Len(y)
        /\ (<<x>> \o y)[1] = x /\ \A i \in 1 .. Len(y) : (<<x>> \o y)[i + 1] = y[i]
    BY OneThenMore
  <2> QED BY <1>5, <2>1, <2>2, <2>3, Zenon
<1>7. Len(r) = m + 1 /\ r[1] = a /\ \A i \in 1 .. m : r[i + 1] = c[i] BY <1>1, <1>6
<1>8. PICK s : s = Append(r, b) OBVIOUS
<1>9. s \in Seq(AnyCell) /\ Len(s) = m + 2 /\ s[m + 2] = b /\ \A i \in 1 .. m + 1 : s[i] = r[i]
  <2>1. s \in Seq(AnyCell) BY <1>4, <1>6, <1>8, AppendProperties, Zenon
  <2>2. Len(s) = (m + 1) + 1 /\ s[(m + 1) + 1] = b /\ \A i \in 1 .. m + 1 : s[i] = r[i]
    BY <1>4, <1>6, <1>7, <1>8
  <2> QED BY <2>1, <2>2
<1>10. s = <<a>> \o c \o <<b>>
  <2>1. PICK x \in Seq(AnyCell), y \in AnyCell : x = r /\ y = b BY <1>4, <1>6
  <2>2. Append(x, y) = x \o <<y>> BY AppendIsConcat, Zenon
  <2> QED BY <1>5, <1>8, <2>1, <2>2, Zenon
<1>11. ASSUME NEW k \in 1 .. m + 2
       PROVE  /\ s[k].of = of /\ s[k] \in AnyCell
              /\ s[k].ends = IF k \in 2 .. m THEN "separator" ELSE "newline"
              /\ s[k].column = "close" <=> k = m + 2
  <2>1. s[k] \in AnyCell BY <1>9
  <2>2. CASE k = 1
    <3>1. s[k] = a /\ k # m + 2 /\ k \notin 2 .. m BY <1>7, <1>9, <2>2
    <3> QED BY <2>1, <3>1
  <2>3. CASE k = m + 2
    <3>1. s[k] = b /\ k \notin 2 .. m BY <1>9, <2>3
    <3> QED BY <2>1, <2>3, <3>1
  <2>4. CASE k # 1 /\ k # m + 2
    <3>1. k - 1 \in 1 .. m /\ (k - 1) + 1 = k /\ k \in 1 .. m + 1 /\ (k - 1 < m <=> k \in 2 .. m) BY <2>4
    <3>2. s[k] = c[k - 1] BY <1>7, <1>9, <3>1
    <3>3. s[k].column \in FieldNames BY <1>2, <3>1, <3>2
    <3>4. s[k].column # "close" BY <3>3, NoOtherColumn
    <3> QED BY <1>2, <2>1, <2>4, <3>1, <3>2, <3>4
  <2> QED BY <2>2, <2>3, <2>4
<1>12. Of(s) = of
  <2>1. Of(s) = s[m + 2].of BY <1>9, OfLast
  <2>2. m + 2 \in 1 .. m + 2 OBVIOUS
  <2> QED BY <1>11, <2>1, <2>2
<1>13. EndsOnce(s, Ending("json"))
  <2>1. ASSUME NEW k \in 1 .. m + 2 PROVE (s[k] \in Ending("json")) <=> (k = m + 2)
    <3>1. (s[k] \in Ending("json")) <=> (s[k].column = "close") BY <1>11 DEF Ending
    <3> QED BY <1>11, <3>1
  <2> QED BY <1>9, <2>1 DEF EndsOnce
<1>14. Whole("json", s)
  <2>1. DOMAIN s = 1 .. m + 2 /\ Len(s) = m + 2 BY <1>9
  <2>2. \A k \in 1 .. m + 2 : k \in 2 .. (m + 2) - 2 <=> k \in 2 .. m OBVIOUS
  <2>3. \A k \in 2 .. m : k < m + 2 OBVIOUS
  <2>4. ASSUME NEW k \in 1 .. m + 2
        PROVE  /\ s[k].of = Of(s)
               /\ s[k].ends = IF ("json" = "csv" \/ k \in 2 .. Len(s) - 2) /\ k < Len(s)
                              THEN "separator" ELSE "newline"
    <3>1. CASE k \in 2 .. m BY <1>11, <1>12, <2>1, <2>2, <2>3, <3>1
    <3>2. CASE k \notin 2 .. m BY <1>11, <1>12, <2>1, <2>2, <3>2
    <3> QED BY <3>1, <3>2
  <2> QED BY <2>1, <2>4, Zenon DEF Whole
<1>15. Len(s) > 0 BY <1>9
<1> QED BY <1>9, <1>10, <1>12, <1>13, <1>14, <1>15, Zenon DEF GoodLine

(***************************************************************************)
(* Output: the header, a row, an object.                                   *)
(***************************************************************************)
LEMMA SameColumns ==
  ASSUME NEW R, NEW s \in Seq(R), NEW t \in Seq(R), Len(s) = Len(t),
         \A i \in 1 .. Len(s) : s[i].column = t[i].column
  PROVE  Columns(s) = Columns(t)
<1>1. DOMAIN s = 1 .. Len(s) /\ DOMAIN t = 1 .. Len(s) OBVIOUS
<1> QED BY <1>1 DEF Columns

LEMMA RowHasColumns ==
  ASSUME NEW fields \in SUBSET FieldNames, NEW of \in Whose, "line" \notin fields
  PROVE  Columns(Cells(RowColumns, fields, of)) = Columns(Cells(HeaderColumns, fields, HeaderText))
<1>0. HeaderText \in Whose BY DEF Whose
<1>1. PICK W : W = Whose OBVIOUS
<1>2. PICK h \in W : h = HeaderText BY <1>0, <1>1
<1>3. Cells(HeaderColumns, fields, h) = << >> \o Cells(RowColumns, fields, h)
  BY HeaderIsLineAndRow
<1>4. PICK r \in Seq(FieldNames) : r = RowColumns BY ColumnsAre
<1>5. PICK g \in W : g = of BY <1>1
<1>6. LET c == Cells(r, fields, g)
          d == Cells(r, fields, h)
      IN /\ c \in Seq(CellSet(W)) /\ d \in Seq(CellSet(W)) /\ Len(d) = Len(c)
         /\ \A k \in 1 .. Len(c) : d[k].column = c[k].column
  BY CellsAlike
<1>7. PICK R : R = CellSet(W) OBVIOUS
<1>8. PICK c \in Seq(R), d \in Seq(R) : c = Cells(r, fields, g) /\ d = Cells(r, fields, h)
  BY <1>6, <1>7
<1>9. Len(c) = Len(d) /\ \A k \in 1 .. Len(c) : c[k].column = d[k].column BY <1>6, <1>8
<1>10. Columns(c) = Columns(d) BY <1>9, SameColumns
<1>11. << >> \o d = d BY ConcatEmptySeq, Zenon
<1> QED BY <1>2, <1>3, <1>4, <1>5, <1>8, <1>10, <1>11, Zenon

LEMMA NumberedHasColumns ==
  ASSUME NEW fields \in SUBSET FieldNames, NEW of \in Whose, "line" \in fields, NEW n \in Nat, NEW e,
         e = [column |-> "line", of |-> n, ends |-> "separator"]
  PROVE  Columns(<<e>> \o Cells(RowColumns, fields, of)) = Columns(Cells(HeaderColumns, fields, HeaderText))
<1>0. HeaderText \in Whose /\ n \in Whose BY DEF Whose
<1>1. PICK W : W = Whose OBVIOUS
<1>2. PICK h \in W : h = HeaderText BY <1>0, <1>1
<1>3. PICK l : l = Cell("line", fields, h) OBVIOUS
<1>12. Cells(HeaderColumns, fields, h) = <<l>> \o Cells(RowColumns, fields, h)
  BY <1>3, HeaderIsLineAndRow
<1>4. PICK r \in Seq(FieldNames) : r = RowColumns BY ColumnsAre
<1>5. PICK g \in W : g = of BY <1>1
<1>6. LET c == Cells(r, fields, g)
          d == Cells(r, fields, h)
      IN /\ c \in Seq(CellSet(W)) /\ d \in Seq(CellSet(W)) /\ Len(d) = Len(c)
         /\ \A k \in 1 .. Len(c) : d[k].column = c[k].column
  BY CellsAlike
<1>7. PICK R : R = CellSet(W) OBVIOUS
<1>8. PICK c \in Seq(R), d \in Seq(R) : c = Cells(r, fields, g) /\ d = Cells(r, fields, h)
  BY <1>6, <1>7
<1>9. Len(c) = Len(d) /\ \A k \in 1 .. Len(c) : c[k].column = d[k].column BY <1>6, <1>8
<1>13. e \in R /\ l \in R /\ e.column = l.column
  <2>1. "line" \in FieldNames OBVIOUS
  <2>2. e \in CellSet(W) /\ l \in CellSet(W) BY <1>0, <1>1, <1>3, <2>1 DEF CellSet, Cell
  <2>3. e.column = l.column BY <1>3 DEF Cell
  <2> QED BY <1>7, <2>2, <2>3
<1>14. /\ <<e>> \o c \in Seq(R) /\ Len(<<e>> \o c) = 1 + Len(c) /\ (<<e>> \o c)[1] = e
       /\ \A i \in 1 .. Len(c) : (<<e>> \o c)[i + 1] = c[i]
  BY <1>13, OneThenMore
<1>15. /\ <<l>> \o d \in Seq(R) /\ Len(<<l>> \o d) = 1 + Len(d) /\ (<<l>> \o d)[1] = l
       /\ \A i \in 1 .. Len(d) : (<<l>> \o d)[i + 1] = d[i]
  BY <1>13, OneThenMore
<1>16. PICK x \in Seq(R), y \in Seq(R) : x = <<e>> \o c /\ y = <<l>> \o d BY <1>14, <1>15
<1>17. PICK m \in Nat : m = Len(c) OBVIOUS
<1>18. /\ Len(x) = 1 + m /\ Len(y) = 1 + m /\ x[1] = e /\ y[1] = l
       /\ \A i \in 1 .. m : x[i + 1] = c[i] /\ y[i + 1] = d[i]
  BY <1>9, <1>14, <1>15, <1>16, <1>17
<1>19. ASSUME NEW i \in 1 .. 1 + m PROVE x[i].column = y[i].column
  <2>1. CASE i = 1 BY <1>13, <1>18, <2>1
  <2>2. CASE i # 1
    <3>1. i - 1 \in 1 .. m /\ (i - 1) + 1 = i BY <2>2
    <3>2. x[i] = c[i - 1] /\ y[i] = d[i - 1] BY <1>18, <3>1
    <3> QED BY <1>9, <1>17, <3>1, <3>2
  <2> QED BY <2>1, <2>2
<1>20. Columns(x) = Columns(y)
  <2>1. Len(x) = Len(y) /\ \A i \in 1 .. Len(x) : x[i].column = y[i].column BY <1>18, <1>19
  <2> QED BY <2>1, SameColumns
<1> QED BY <1>2, <1>4, <1>5, <1>8, <1>12, <1>16, <1>20, Zenon

PieceOk(o, line) ==
  /\ Whole(o.output, line)
  /\ o.output = "csv" /\ (o.print_line => "line" \in o.fields) =>
       Columns(line) = Columns(Cells(HeaderColumns, o.fields, HeaderText))
Selects(o) == o.fields \cap UrlFields # {}
Numbered(o) == "line" \in o.fields => o.print_line
RowSet == {line \in Seq(AnyCell) : Of(line) # HeaderText}
RowAbout(o, row, url) ==
  /\ row \in Seq(AnyCell) /\ Of(row) = url
  /\ o.output = "csv" /\ o.print_line => row[1].of = LineNumber(o)

LEMMA HeaderLine ==
  ASSUME NEW o \in OptsSet, Selects(o), NEW h, h = Cells(HeaderColumns, o.fields, HeaderText)
  PROVE  GoodLine("csv", h, HeaderText)
<1>0. HeaderText \in Whose BY DEF Whose
<1>1. PICK W, F, x : W = Whose /\ F = o.fields /\ x = HeaderText OBVIOUS
<1>2. F \in SUBSET FieldNames /\ F \cap UrlFields # {} /\ x \in W BY <1>0, <1>1 DEF OptsSet, Selects
<1>3. PICK r \in Seq(FieldNames) : r = HeaderColumns BY ColumnsAre
<1>4. PICK n \in 1 .. 2 : n = 1 OBVIOUS
<1>5. Len(r) = 14 - n /\ \A i \in 1 .. 14 - n : r[i] = Fields[i + n] BY <1>3, <1>4, ColumnsAre
<1>6. Cells(r, F, x) \in Seq(CellSet(W)) /\ GoodCells(Cells(r, F, x), x) BY <1>2, <1>5, CellsAreGood
<1>7. h \in Seq(CellSet(Whose)) /\ GoodCells(h, HeaderText) BY <1>1, <1>3, <1>6
<1> QED BY <1>7, CellsAreLine

LEMMA RowCells ==
  ASSUME NEW o \in OptsSet, Selects(o), NEW url \in Whose, NEW c, c = Cells(RowColumns, o.fields, url)
  PROVE  c \in Seq(CellSet(Whose)) /\ GoodCells(c, url)
<1>1. PICK W, F : W = Whose /\ F = o.fields OBVIOUS
<1>2. F \in SUBSET FieldNames /\ F \cap UrlFields # {} BY <1>1 DEF OptsSet, Selects
<1>3. PICK r \in Seq(FieldNames) : r = RowColumns BY ColumnsAre
<1>4. PICK n \in 1 .. 2 : n = 2 OBVIOUS
<1>5. Len(r) = 14 - n /\ \A i \in 1 .. 14 - n : r[i] = Fields[i + n] BY <1>3, <1>4, ColumnsAre
<1>6. PICK x \in W : x = url BY <1>1
<1>7. Cells(r, F, x) \in Seq(CellSet(W)) /\ GoodCells(Cells(r, F, x), x) BY <1>2, <1>5, CellsAreGood
<1> QED BY <1>1, <1>3, <1>6, <1>7

LEMMA LineNumberIs == \A o \in OptsSet : LineNumber(o) \in Nat
BY DEF LineNumber, OptsSet

(* A row of CSV, with its number in front of it or without.                *)
LEMMA RowLine ==
  ASSUME NEW o \in OptsSet, Selects(o), Numbered(o), o.output = "csv", NEW url \in Urls,
         NEW row, row = CsvLine(o) \o CsvRow(o, url)
  PROVE  GoodLine("csv", row, url) /\ PieceOk(o, row) /\ RowAbout(o, row, url)
<1>0. url \in Whose BY DEF Whose
<1>1. PICK c : c = Cells(RowColumns, o.fields, url) OBVIOUS
<1>2. c \in Seq(CellSet(Whose)) /\ GoodCells(c, url) BY <1>0, <1>1, RowCells
<1>3. CsvRow(o, url) = c BY <1>1 DEF CsvRow
<1>4. o.fields \in SUBSET FieldNames /\ o.print_line \in BOOLEAN BY DEF OptsSet
<1>5. CASE ~o.print_line
  <2>1. << >> \o c = c BY <1>2, ConcatEmptySeq, Zenon
  <2>2. row = c BY <1>3, <1>5, <2>1 DEF CsvLine
  <2>3. GoodLine("csv", row, url) BY <1>2, <2>2, CellsAreLine
  <2>4. "line" \notin o.fields BY <1>5 DEF Numbered
  <2>5. Columns(row) = Columns(Cells(HeaderColumns, o.fields, HeaderText))
    BY <1>0, <1>1, <1>4, <2>2, <2>4, RowHasColumns
  <2>6. PieceOk(o, row) BY <2>3, <2>5 DEF PieceOk, GoodLine
  <2>7. RowAbout(o, row, url) BY <1>5, <2>3 DEF RowAbout, GoodLine
  <2> QED BY <2>3, <2>6, <2>7
<1>6. CASE o.print_line
  <2>1. PICK n \in Nat : n = LineNumber(o) BY LineNumberIs
  <2>2. PICK e : e = [column |-> "line", of |-> n, ends |-> "separator"] OBVIOUS
  <2>3. row = <<e>> \o c BY <1>3, <1>6, <2>1, <2>2 DEF CsvLine
  <2>4. GoodLine("csv", row, url) /\ row[1].of = n BY <1>2, <2>2, <2>3, NumberedLine
  <2>5. ASSUME "line" \in o.fields
        PROVE  Columns(row) = Columns(Cells(HeaderColumns, o.fields, HeaderText))
    BY <1>0, <1>1, <1>4, <2>2, <2>3, <2>5, NumberedHasColumns
  <2>6. PieceOk(o, row) BY <1>6, <2>4, <2>5 DEF PieceOk, GoodLine
  <2>7. RowAbout(o, row, url) BY <2>1, <2>4 DEF RowAbout, GoodLine
  <2> QED BY <2>4, <2>6, <2>7
<1> QED BY <1>4, <1>5, <1>6

GoodShown(o, s) ==
  /\ s \in Seq(AnyCell) /\ CutBehind(s, Ending(o.output)).rest = << >>
  /\ \A k \in 1 .. Len(CutBehind(s, Ending(o.output)).pieces) :
       PieceOk(o, CutBehind(s, Ending(o.output)).pieces[k])
RowsIn(o, s) == Those(CutBehind(s, Ending(o.output)).pieces, RowSet)

LEMMA NothingShown == \A o : GoodShown(o, << >>) /\ RowsIn(o, << >>) = << >>
<1>1. SUFFICES ASSUME NEW o PROVE GoodShown(o, << >>) /\ RowsIn(o, << >>) = << >> OBVIOUS
<1>2. PICK Z : Z = Ending(o.output) OBVIOUS
<1>3. CutBehind(<< >>, Z) = [pieces |-> << >>, rest |-> << >>] BY CutBehindEmpty
<1>4. CutBehind(<< >>, Z).pieces = << >> /\ CutBehind(<< >>, Z).rest = << >> BY <1>3
<1>5. << >> \in Seq(AnyCell) BY EmptySeq, Zenon
<1>6. Those(<< >>, RowSet) = << >> BY ThoseEmpty
<1>7. \A k \in 1 .. Len(<< >>) : PieceOk(o, << >>[k]) OBVIOUS
<1> QED BY <1>2, <1>4, <1>5, <1>6, <1>7, Zenon DEF GoodShown, RowsIn

LEMMA LineAdded ==
  ASSUME NEW o, NEW s, GoodShown(o, s), NEW line, NEW of, GoodLine(o.output, line, of), PieceOk(o, line)
  PROVE  /\ GoodShown(o, s \o line)
         /\ RowsIn(o, s \o line) = IF of # HeaderText THEN Append(RowsIn(o, s), line) ELSE RowsIn(o, s)
<1>1. PICK Z : Z = Ending(o.output) OBVIOUS
<1>2. s \in Seq(AnyCell) /\ CutBehind(s, Z).rest = << >> BY <1>1 DEF GoodShown
<1>3. line \in Seq(AnyCell) /\ EndsOnce(line, Z) /\ Of(line) = of BY <1>1 DEF GoodLine
<1>14. PICK R : R = AnyCell OBVIOUS
<1>15. PICK x \in Seq(R), y \in Seq(R) : x = s /\ y = line BY <1>2, <1>3, <1>14
<1>4. R = AnyCell /\ x = s /\ y = line BY <1>14, <1>15
<1>5. CutBehind(x \o y, Z) = [pieces |-> Append(CutBehind(x, Z).pieces, y), rest |-> << >>]
  BY <1>2, <1>3, <1>4, PieceAdded
<1>6. PICK p \in Seq(Seq(R)) : p = CutBehind(x, Z).pieces BY CutBehindIs
<1>7. CutBehind(x \o y, Z).pieces = Append(p, y) /\ CutBehind(x \o y, Z).rest = << >> BY <1>5, <1>6
<1>8. x \o y \in Seq(R) BY ConcatIs
<1>9. ASSUME NEW k \in 1 .. Len(Append(p, y)) PROVE PieceOk(o, Append(p, y)[k])
  <2>1. PICK n \in Nat : n = Len(p) OBVIOUS
  <2>2. Len(Append(p, y)) = n + 1 BY <2>1
  <2>3. CASE k = n + 1
    <3>1. Append(p, y)[k] = line BY <1>4, <2>1, <2>3
    <3> QED BY <3>1
  <2>4. CASE k \in 1 .. n
    <3>1. Append(p, y)[k] = p[k] BY <2>1, <2>4
    <3>2. PieceOk(o, p[k]) BY <1>1, <1>4, <1>6, <2>1, <2>4 DEF GoodShown
    <3> QED BY <3>1, <3>2
  <2>5. k = n + 1 \/ k \in 1 .. n BY <2>2
  <2> QED BY <2>3, <2>4, <2>5
<1>10. GoodShown(o, s \o line) BY <1>1, <1>4, <1>7, <1>8, <1>9, Zenon DEF GoodShown
<1>11. Those(Append(p, y), RowSet) = IF y \in RowSet THEN Append(Those(p, RowSet), y) ELSE Those(p, RowSet)
  BY ThoseOneMore
<1>12. (y \in RowSet) <=> (of # HeaderText) BY <1>3, <1>4 DEF RowSet
<1>13. RowsIn(o, s \o line) = Those(Append(p, y), RowSet) /\ RowsIn(o, s) = Those(p, RowSet)
  BY <1>1, <1>4, <1>6, <1>7, Zenon DEF RowsIn
<1> QED BY <1>4, <1>10, <1>11, <1>12, <1>13, Zenon

(* What Output prints behind what was printed before.                      *)
LEMMA OutputAdded ==
  ASSUME NEW o \in OptsSet, Selects(o), Numbered(o), NEW url \in Urls, NEW s, GoodShown(o, s)
  PROVE  /\ Output(o, url) \in Seq(AnyCell) /\ GoodShown(o, s \o Output(o, url))
         /\ ~o.quiet /\ o.output # "module" =>
              \E row : /\ RowAbout(o, row, url)
                       /\ RowsIn(o, s \o Output(o, url)) = Append(RowsIn(o, s), row)
<1>0. /\ o.output \in {"csv", "json", "module"} /\ o.quiet \in BOOLEAN /\ o.print_header \in BOOLEAN
      /\ s \in Seq(AnyCell) /\ url # HeaderText /\ url \in Whose
  BY UrlIsNoHeader DEF OptsSet, GoodShown, Whose
<1>1. CASE o.quiet \/ o.output = "module"
  <2>1. Output(o, url) = << >> BY <1>1 DEF Output
  <2>2. << >> \in Seq(AnyCell) BY EmptySeq, Zenon
  <2>3. s \o << >> = s BY <1>0, ConcatEmptySeq, Zenon
  <2> QED BY <1>1, <2>1, <2>2, <2>3
<1>2. CASE ~o.quiet /\ o.output = "json"
  <2>1. PICK c : c = Cells(RowColumns, o.fields, url) OBVIOUS
  <2>2. c \in Seq(CellSet(Whose)) /\ GoodCells(c, url) BY <1>0, <2>1, RowCells
  <2>3. PICK a : a = [column |-> "open", of |-> url, ends |-> "newline"] OBVIOUS
  <2>4. PICK b : b = [column |-> "close", of |-> url, ends |-> "newline"] OBVIOUS
  <2>5. PICK line : line = <<a>> \o c \o <<b>> OBVIOUS
  <2>6. GoodLine("json", line, url) BY <1>0, <2>2, <2>3, <2>4, <2>5, ObjectLine
  <2>7. Output(o, url) = JsonObject(o, url) BY <1>2 DEF Output
  <2>8. Output(o, url) = line BY <2>1, <2>3, <2>4, <2>5, <2>7 DEF JsonObject
  <2>9. PieceOk(o, line) BY <1>2, <2>6 DEF PieceOk, GoodLine
  <2>10. RowAbout(o, line, url) BY <1>2, <2>6 DEF RowAbout, GoodLine
  <2>11. GoodLine(o.output, line, url) /\ line \in Seq(AnyCell) BY <1>2, <2>6 DEF GoodLine
  <2>12. GoodShown(o, s \o line) /\ RowsIn(o, s \o line) = Append(RowsIn(o, s), line)
    BY <1>0, <2>9, <2>11, LineAdded
  <2> QED BY <2>8, <2>10, <2>11, <2>12
<1>3. CASE ~o.quiet /\ o.output = "csv"
  <2>1. PICK row : row = CsvLine(o) \o CsvRow(o, url) OBVIOUS
  <2>2. GoodLine("csv", row, url) /\ PieceOk(o, row) /\ RowAbout(o, row, url) BY <1>3, <2>1, RowLine
  <2>3. GoodLine(o.output, row, url) /\ row \in Seq(AnyCell) BY <1>3, <2>2 DEF GoodLine
  <2>4. Output(o, url) = CsvHeader(o) \o CsvLine(o) \o CsvRow(o, url) BY <1>3 DEF Output
  <2>12. CsvLine(o) \in Seq(AnyCell) /\ CsvRow(o, url) \in Seq(AnyCell)
    <3>1. PICK c : c = Cells(RowColumns, o.fields, url) OBVIOUS
    <3>2. c \in Seq(CellSet(Whose)) BY <1>0, <3>1, RowCells
    <3>3. CsvRow(o, url) \in Seq(AnyCell) BY <3>1, <3>2, CellsAreAny DEF CsvRow
    <3>4. CASE o.print_line
      <4>1. PICK n \in Nat : n = LineNumber(o) BY LineNumberIs
      <4>2. "line" \in FieldNames
        <5>1. Fields[2] \in FieldNames BY BitIs
        <5> QED BY <5>1, FieldsAre
      <4>3. [column |-> "line", of |-> n, ends |-> "separator"] \in AnyCell BY <4>2 DEF AnyCell, Whose
      <4>4. <<[column |-> "line", of |-> n, ends |-> "separator"]>> \in Seq(AnyCell) BY <4>3
      <4> QED BY <3>3, <3>4, <4>1, <4>4 DEF CsvLine
    <3>5. CASE ~o.print_line
      <4>1. << >> \in Seq(AnyCell) BY EmptySeq, Zenon
      <4> QED BY <3>3, <3>5, <4>1 DEF CsvLine
    <3> QED BY <3>4, <3>5
  <2>5. CASE ~o.print_header
    <3>1. << >> \o CsvLine(o) = CsvLine(o) BY <2>12, ConcatEmptySeq, Zenon
    <3>2. Output(o, url) = row BY <2>1, <2>4, <2>5, <3>1 DEF CsvHeader
    <3>3. GoodShown(o, s \o row) /\ RowsIn(o, s \o row) = Append(RowsIn(o, s), row)
      BY <1>0, <2>2, <2>3, LineAdded
    <3> QED BY <2>2, <2>3, <3>2, <3>3
  <2>6. CASE o.print_header
    <3>1. PICK h : h = Cells(HeaderColumns, o.fields, HeaderText) OBVIOUS
    <3>2. GoodLine("csv", h, HeaderText) BY <3>1, HeaderLine
    <3>3. GoodLine(o.output, h, HeaderText) /\ h \in Seq(AnyCell) BY <1>3, <3>2 DEF GoodLine
    <3>4. PieceOk(o, h) BY <1>3, <3>1, <3>2 DEF PieceOk, GoodLine
    <3>5. GoodShown(o, s \o h) /\ RowsIn(o, s \o h) = RowsIn(o, s) BY <3>3, <3>4, LineAdded
    <3>6. /\ GoodShown(o, (s \o h) \o row)
          /\ RowsIn(o, (s \o h) \o row) = Append(RowsIn(o, s \o h), row)
      BY <1>0, <2>2, <2>3, <3>5, LineAdded
    <3>7. Output(o, url) = h \o row
      <4>1. PICK R : R = AnyCell OBVIOUS
      <4>2. PICK x \in Seq(R), y \in Seq(R), z \in Seq(R) : x = h /\ y = CsvLine(o) /\ z = CsvRow(o, url)
        BY <2>12, <3>3, <4>1
      <4>3. (x \o y) \o z = x \o (y \o z) BY ConcatAssociative
      <4> QED BY <2>1, <2>4, <2>6, <3>1, <4>2, <4>3, Zenon DEF CsvHeader
    <3>8. (s \o h) \o row = s \o (h \o row) /\ h \o row \in Seq(AnyCell)
      <4>1. PICK R : R = AnyCell OBVIOUS
      <4>2. PICK x \in Seq(R), y \in Seq(R), z \in Seq(R) : x = s /\ y = h /\ z = row
        BY <1>0, <2>3, <3>3, <4>1
      <4>3. (x \o y) \o z = x \o (y \o z) BY ConcatAssociative
      <4>4. y \o z \in Seq(R) BY ConcatIs
      <4> QED BY <4>1, <4>2, <4>3, <4>4, Zenon
    <3> QED BY <2>2, <3>5, <3>6, <3>7, <3>8
  <2> QED BY <1>0, <2>5, <2>6
<1> QED BY <1>0, <1>1, <1>2, <1>3

(***************************************************************************)
(* The modules' turn, and then Output.                                     *)
(***************************************************************************)
LEMMA DecodedIs ==
  ASSUME NEW loaded \in Seq(ModuleNames), NEW text \in Texts
  PROVE  \E c \in Seq(ModuleNames) :
           /\ Decoded(loaded, text) = UrlOf(text, c) /\ Decoded(loaded, text) \in Urls
           /\ UrlOutput(loaded, Decoded(loaded, text)) =
                [text |-> text, changed |-> c, placed |-> Those(loaded, Outputs)]
           /\ UrlOutput(loaded, Decoded(loaded, text)) \in Urls
           /\ (\A i \in 1 .. Len(loaded) : loaded[i] \notin Nils) => c = Those(loaded, Transforms)
<1>1. PICK M : M = ModuleNames OBVIOUS
<1>2. PICK l \in Seq(M) : l = loaded BY <1>1
<1>3. PICK c \in Seq(M) : /\ DecodeUrlStart(l, UrlOf(text, << >>)) = UrlOf(text, c)
                          /\ (\A i \in 1 .. Len(l) : l[i] \notin Nils) => c = Those(l, Transforms)
  BY DecodeUrlStartIs
<1>4. Decoded(loaded, text) = UrlOf(text, c) BY <1>2, <1>3 DEF Decoded, Url, UrlOf
<1>5. Those(loaded, Outputs) \in Seq(ModuleNames) BY ThoseIsSeq, Zenon
<1>6. << >> \in Seq(ModuleNames) BY EmptySeq, Zenon
<1>7. Decoded(loaded, text) \in Urls BY <1>1, <1>4, <1>6 DEF UrlOf, Urls, UrlSet
<1>8. UrlOutput(loaded, Decoded(loaded, text)) =
        [text |-> text, changed |-> c, placed |-> Those(loaded, Outputs)]
  BY <1>4 DEF UrlOutput, OutputHooks, UrlOf
<1>9. UrlOutput(loaded, Decoded(loaded, text)) \in Urls BY <1>1, <1>5, <1>8 DEF Urls, UrlSet
<1> QED BY <1>1, <1>2, <1>3, <1>4, <1>7, <1>8, <1>9

LEMMA ModulesShow ==
  ASSUME NEW loaded \in Seq(ModuleNames), NEW url \in Urls
  PROVE  ShownByModules(loaded, url) \in Seq(ModuleCells)
<1>1. PICK h \in Seq(ModuleNames) : h = OutputHooks(loaded) BY ThoseIsSeq, Zenon DEF OutputHooks
<1>2. PICK n \in Nat : n = Len(h) OBVIOUS
<1>3. DOMAIN h = 1 .. n BY <1>2
<1> DEFINE cell(i) == [column |-> "module", of |-> [url EXCEPT !.placed = SubSeq(h, 1, i - 1)], ends |-> h[i]]
<1>4. ASSUME NEW i \in 1 .. n PROVE cell(i) \in ModuleCells
  <2>1. h[i] \in ModuleNames BY <1>2
  <2>2. PICK p \in Seq(ModuleNames) : p = SubSeq(h, 1, i - 1) BY <1>2, PrefixGrows, Zenon
  <2>3. [url EXCEPT !.placed = p] \in Urls BY DEF Urls, UrlSet
  <2> QED BY <2>1, <2>2, <2>3 DEF ModuleCells
<1>5. ShownByModules(loaded, url) = [i \in 1 .. n |-> cell(i)] BY <1>1, <1>3, Zenon DEF ShownByModules
<1> HIDE DEF cell
<1>6. [i \in 1 .. n |-> cell(i)] \in [1 .. n -> ModuleCells] BY <1>4
<1>7. [i \in 1 .. n |-> cell(i)] \in Seq(ModuleCells) BY <1>6
<1> QED BY <1>5, <1>7

GoodOut(o, o1) == o1 \in Seq(OutCells) /\ GoodShown(o, Those(o1, AnyCell))
RowsOut(o, o1) == RowsIn(o, Those(o1, AnyCell))

LEMMA NothingOut == \A o : GoodOut(o, << >>) /\ RowsOut(o, << >>) = << >>
<1>1. << >> \in Seq(OutCells) BY EmptySeq, Zenon
<1>2. Those(<< >>, AnyCell) = << >> BY ThoseEmpty
<1> QED BY <1>1, <1>2, NothingShown, Zenon DEF GoodOut, RowsOut

LEMMA CellsApart ==
  /\ \A c \in ModuleCells : c \notin AnyCell
  /\ \A c \in OutCells : (c \in AnyCell) <=> (c.column # "module")
<1>1. \A c \in ModuleCells : c.column = "module" BY DEF ModuleCells
<1>2. \A c \in AnyCell : c.column # "module" BY NoOtherColumn DEF AnyCell
<1> QED BY <1>1, <1>2 DEF OutCells

LEMMA LargerSeq ==
  ASSUME NEW R, NEW T, R \subseteq T, NEW s \in Seq(R)
  PROVE  s \in Seq(T)
OBVIOUS

RowAdded(o, url, rs, qs) == \E row : RowAbout(o, row, url) /\ qs = Append(rs, row)

LEMMA PrintedAdded ==
  ASSUME NEW o \in OptsSet, Selects(o), Numbered(o), NEW loaded \in Seq(ModuleNames), NEW text \in Texts,
         NEW o1, GoodOut(o, o1), NEW o2, o2 = o1 \o Printed(loaded, o, text)
  PROVE  /\ GoodOut(o, o2)
         /\ ~o.quiet /\ o.output # "module" =>
              RowAdded(o, UrlOutput(loaded, Decoded(loaded, text)), RowsOut(o, o1), RowsOut(o, o2))
<1>1. PICK u \in Urls : u = Decoded(loaded, text) BY DecodedIs
<1>2. PICK v \in Urls : v = UrlOutput(loaded, Decoded(loaded, text)) BY DecodedIs
<1>3. PICK s : s = Those(o1, AnyCell) OBVIOUS
<1>4. o1 \in Seq(OutCells) /\ GoodShown(o, s) BY <1>3 DEF GoodOut
<1>5. PICK m : m = ShownByModules(loaded, u) OBVIOUS
<1>6. m \in Seq(ModuleCells) BY <1>5, ModulesShow
<1>7. PICK p : p = Output(o, v) OBVIOUS
<1>8. /\ p \in Seq(AnyCell) /\ GoodShown(o, s \o p)
      /\ ~o.quiet /\ o.output # "module" =>
           \E row : RowAbout(o, row, v) /\ RowsIn(o, s \o p) = Append(RowsIn(o, s), row)
  <2>1. /\ Output(o, v) \in Seq(AnyCell) /\ GoodShown(o, s \o Output(o, v))
        /\ ~o.quiet /\ o.output # "module" =>
             \E row : /\ RowAbout(o, row, v)
                      /\ RowsIn(o, s \o Output(o, v)) = Append(RowsIn(o, s), row)
    BY <1>4, OutputAdded
  <2> QED BY <1>7, <2>1, Zenon
<1>9. o2 = o1 \o (m \o p) BY <1>1, <1>2, <1>5, <1>7 DEF Printed
<1>10. PICK R : R = OutCells OBVIOUS
<1>11. m \in Seq(R) /\ p \in Seq(R) /\ o1 \in Seq(R)
  <2>1. ModuleCells \subseteq R /\ AnyCell \subseteq R BY <1>10 DEF OutCells
  <2> QED BY <1>4, <1>6, <1>8, <1>10, <2>1, LargerSeq
<1>12. PICK a \in Seq(R), b \in Seq(R), c \in Seq(R) : a = o1 /\ b = m /\ c = p BY <1>11
<1>13. PICK d \in Seq(R) : d = b \o c BY ConcatIs
<1>14. PICK Z : Z = AnyCell OBVIOUS
<1>15. Those(b, Z) = << >>
  <2>1. \A i \in 1 .. Len(b) : b[i] \notin Z
    <3>1. \A i \in 1 .. Len(m) : m[i] \in ModuleCells BY <1>6
    <3> QED BY <1>12, <1>14, <3>1, CellsApart
  <2> QED BY <2>1, ThoseNone
<1>16. Those(c, Z) = c
  <2>1. \A i \in 1 .. Len(c) : c[i] \in Z BY <1>8, <1>12, <1>14
  <2> QED BY <2>1, ThoseAll
<1>17. Those(d, Z) = c
  <2>1. Those(b \o c, Z) = Those(b, Z) \o Those(c, Z) BY ThoseConcat
  <2>2. << >> \o c = c BY ConcatEmptySeq, Zenon
  <2> QED BY <1>13, <1>15, <1>16, <2>1, <2>2
<1>18. Those(a \o d, Z) = Those(a, Z) \o Those(d, Z) BY ThoseConcat
<1>19. Those(o2, AnyCell) = s \o p BY <1>3, <1>9, <1>12, <1>13, <1>14, <1>17, <1>18, Zenon
<1>20. a \o d \in Seq(R) BY ConcatIs
<1>21. o2 \in Seq(OutCells) BY <1>9, <1>10, <1>12, <1>13, <1>20, Zenon
<1>22. GoodOut(o, o2) BY <1>8, <1>19, <1>21 DEF GoodOut
<1>23. RowsOut(o, o2) = RowsIn(o, s \o p) /\ RowsOut(o, o1) = RowsIn(o, s) BY <1>3, <1>19, Zenon DEF RowsOut
<1> QED BY <1>2, <1>8, <1>22, <1>23 DEF RowAdded

(***************************************************************************)
(* The types of what the tool keeps.                                       *)
(***************************************************************************)
LEMMA Least ==
  ASSUME NEW n \in Nat, NEW S \in SUBSET (1 .. n), S # {}
  PROVE  \E i \in S : \A j \in S : i <= j
<1>1. S \subseteq Nat OBVIOUS
<1>2. PICK m \in S : \A y \in S : ~(<<y, m>> \in OpToRel(<, Nat))
  BY <1>1, NatLessThanWellFounded, WFMin, Zenon
<1>3. ASSUME NEW j \in S PROVE m <= j
  <2>1. ~(<<j, m>> \in OpToRel(<, Nat)) BY <1>2
  <2>2. j \in Nat /\ m \in Nat OBVIOUS
  <2>3. ~(j < m) BY <2>1, <2>2 DEF OpToRel
  <2> QED BY <2>2, <2>3
<1> QED BY <1>3

LEMMA TakenIs ==
  ASSUME NEW W, NEW ws \in Seq(W), ws # << >>
  PROVE  /\ Taken(ws) \in 1 .. Len(ws)
         /\ \A i \in 1 .. Taken(ws) - 1 : ~IsOption(ws[i])
         /\ IsOption(ws[Taken(ws)]) \/ Taken(ws) = Len(ws)
<1> DEFINE stops == {i \in DOMAIN ws : IsOption(ws[i])} \cup {Len(ws)}
<1>1. PICK n \in Nat : n = Len(ws) /\ n > 0 OBVIOUS
<1>2. DOMAIN ws = 1 .. n BY <1>1
<1>3. stops \in SUBSET (1 .. n) /\ stops # {} BY <1>1, <1>2
<1>4. Taken(ws) = CHOOSE i \in stops : \A j \in stops : i <= j BY DEF Taken
<1>5. Taken(ws) \in stops /\ \A j \in stops : Taken(ws) <= j
  <2> HIDE DEF stops
  <2>1. \E i \in stops : \A j \in stops : i <= j BY <1>3, Least
  <2> QED BY <1>4, <2>1
<1>6. PICK t \in 1 .. n : t = Taken(ws) BY <1>3, <1>5
<1>7. ASSUME NEW i \in 1 .. t - 1 PROVE ~IsOption(ws[i])
  <2>1. SUFFICES ASSUME IsOption(ws[i]) PROVE FALSE OBVIOUS
  <2>2. i \in stops BY <1>2, <2>1
  <2>3. t <= i BY <1>5, <1>6, <2>2
  <2> QED BY <2>3
<1>8. IsOption(ws[t]) \/ t = n BY <1>1, <1>5, <1>6
<1> QED BY <1>1, <1>6, <1>7, <1>8

LEMMA LineIs ==
  ASSUME rest \in Seq(Chars)
  PROVE  /\ Line \in Seq(Chars) /\ Len(Line) <= Len(rest)
         /\ LineEnd = {} => Line = rest
         /\ LineEnd # {} => /\ Len(Line) + 1 \in LineEnd /\ Line = SubSeq(rest, 1, Len(Line))
                            /\ \A j \in LineEnd : Len(Line) + 1 <= j
<1>1. PICK n \in Nat : n = Len(rest) OBVIOUS
<1>2. DOMAIN rest = 1 .. n BY <1>1
<1>3. LineEnd \in SUBSET (1 .. n) BY <1>2 DEF LineEnd
<1>4. CASE LineEnd = {} BY <1>1, <1>4 DEF Line
<1>5. CASE LineEnd # {}
  <2>1. \E i \in LineEnd : \A j \in LineEnd : i <= j BY <1>3, <1>5, Least
  <2>2. PICK i \in 1 .. n : /\ i = CHOOSE k \in LineEnd : \A j \in LineEnd : k <= j
                            /\ i \in LineEnd /\ \A j \in LineEnd : i <= j
    BY <1>3, <2>1
  <2>3. Line = SubSeq(rest, 1, i - 1) BY <1>5, <2>2 DEF Line
  <2>4. SubSeq(rest, 1, i - 1) \in Seq(Chars) /\ Len(SubSeq(rest, 1, i - 1)) = i - 1
    BY <1>1, PrefixGrows
  <2>5. Len(Line) = i - 1 BY <2>3, <2>4
  <2>6. Len(Line) + 1 = i /\ Len(Line) <= n BY <2>5
  <2> QED BY <1>1, <1>5, <2>2, <2>3, <2>4, <2>5, <2>6
<1> QED BY <1>4, <1>5

LEMMA RestIs ==
  ASSUME rest \in Seq(Chars), Advance
  PROVE  rest' \in Seq(Chars) /\ eof' \in BOOLEAN
<1>1. PICK n \in Nat, l \in Nat : n = Len(rest) /\ l = Len(Line) BY LineIs
<1>2. SubSeq(rest, l + 2, n) \in Seq(Chars) BY <1>1
<1> QED BY <1>1, <1>2 DEF Advance, ReadsToEnd

LEMMA ModulesNewIs == \A o \in OptsSet : ModulesNew(o) \in Seq(ModuleNames)
<1>1. SUFFICES ASSUME NEW o \in OptsSet PROVE ModulesNew(o) \in Seq(ModuleNames) OBVIOUS
<1>2. o.exec_modules \in {"path", "noexec", "arg"} /\ o.modules_argv \in Seq(WordSet) BY DEF OptsSet
<1>3. Enabled \in Seq(ModuleNames)
  <2>1. PICK R, T : R = Range(Enabled) /\ T = ModuleNames OBVIOUS
  <2>2. R \subseteq T BY <2>1 DEF ModuleNames
  <2>3. PICK e \in Seq(R) : e = Enabled BY <2>1, EnabledAssumption
  <2>4. e \in Seq(T) BY <2>2, LargerSeq
  <2> QED BY <2>1, <2>3, <2>4
<1>4. LoadFromArg(o.modules_argv) \in Seq(ModuleNames)
  <2>1. PICK R, T : R = WordSet /\ T = ModuleNames OBVIOUS
  <2>2. R \subseteq T BY <2>1 DEF ModuleNames
  <2>3. PICK e \in Seq(R) : e = o.modules_argv BY <1>2, <2>1
  <2>4. PICK f \in Seq(R) : f = LoadFromArg(e) BY ThoseIsSeq, Zenon DEF LoadFromArg
  <2>5. f \in Seq(T) BY <2>2, LargerSeq
  <2> QED BY <2>1, <2>3, <2>4, <2>5
<1>5. << >> \in Seq(ModuleNames) BY EmptySeq, Zenon
<1>6. CASE o.exec_modules = "path" BY <1>3, <1>6 DEF ModulesNew
<1>7. CASE o.exec_modules = "noexec" BY <1>5, <1>7 DEF ModulesNew
<1>8. CASE o.exec_modules = "arg" BY <1>4, <1>8 DEF ModulesNew
<1> QED BY <1>2, <1>6, <1>7, <1>8

CliType ==
  /\ words \in Seq(WordSet) /\ operands \in Seq(WordSet)
  /\ opts \in OptsSet /\ Numbered(opts)
  /\ phase \in {"options", "reading", "exited", "serving"}
  /\ rest \in Seq(Chars) /\ input \in Seq(Chars) /\ eof \in BOOLEAN
  /\ modules \in Seq(ModuleNames)

LEMMA LineIsName == "line" \in FieldNames /\ "none" \in FieldNames /\ UrlFields \subseteq FieldNames
<1>1. Fields[1] \in FieldNames /\ Fields[2] \in FieldNames BY BitIs
<1> QED BY <1>1, FieldsAre DEF UrlFields, FieldNames

LEMMA TypeInit == CliInit => CliType
<1>1. SUFFICES ASSUME CliInit PROVE CliType OBVIOUS
<1>2. words \in Seq(WordSet)
  <2>1. PICK R, T : R = Range(words) /\ T = WordSet OBVIOUS
  <2>2. R \subseteq T BY <1>1, <2>1 DEF CliInit, WordSet
  <2>3. PICK e \in Seq(R) : e = words BY <1>1, <2>1, CommandsAssumption DEF CliInit
  <2>4. e \in Seq(T) BY <2>2, LargerSeq
  <2> QED BY <2>1, <2>3, <2>4
<1>3. << >> \in Seq(WordSet) /\ << >> \in Seq(Chars) /\ << >> \in Seq(ModuleNames) BY EmptySeq, Zenon
<1>4. Defaults \in OptsSet BY <1>3, LineIsName DEF Defaults, OptsSet
<1>5. Numbered(Defaults) BY DEF Defaults, Numbered, UrlFields
<1> QED BY <1>1, <1>2, <1>3, <1>4, <1>5 DEF CliInit, CliType

LEMMA FlagType ==
  ASSUME NEW o \in OptsSet, Numbered(o), NEW option \in Clear
  PROVE  Flag(o, option) \in OptsSet /\ Numbered(Flag(o, option))
<1>1. CASE option = "-l" BY <1>1, LineIsName DEF Flag, OptsSet, Numbered
<1>2. CASE option = "-a" BY <1>2 DEF Flag, OptsSet, Numbered
<1>3. CASE option = "-e" BY <1>3 DEF Flag, OptsSet, Numbered
<1>4. CASE option = "-p" BY <1>4 DEF Flag, OptsSet, Numbered
<1>5. CASE option = "-q" BY <1>5 DEF Flag, OptsSet, Numbered
<1>6. CASE option = "-t" BY <1>6 DEF Flag
<1> QED BY <1>1, <1>2, <1>3, <1>4, <1>5, <1>6 DEF Clear

LEMMA ArgumentType ==
  ASSUME NEW o \in OptsSet, Numbered(o), NEW option \in WithArgument \ {"-m"}, NEW optarg,
         ~(option = "-o" /\ GetOutputFromName(optarg) = "none")
  PROVE  Argument(o, option, optarg) \in OptsSet /\ Numbered(Argument(o, option, optarg))
<1>1. CASE option = "-f"
  <2>1. PICK f : f = GetFieldFromName(optarg) OBVIOUS
  <2>2. f \in FieldNames /\ f # "line" BY <2>1, LineIsName DEF GetFieldFromName, UrlFields
  <2>3. Argument(o, option, optarg) = [o EXCEPT !.fields = {f}] BY <1>1, <2>1 DEF Argument
  <2> QED BY <2>2, <2>3 DEF OptsSet, Numbered
<1>2. CASE option = "-o"
  <2>1. PICK f : f = GetOutputFromName(optarg) OBVIOUS
  <2>2. f \in {"csv", "json", "module"} BY <1>2, <2>1 DEF GetOutputFromName
  <2>3. Argument(o, option, optarg) = [o EXCEPT !.output = f] BY <1>2, <2>1 DEF Argument
  <2> QED BY <2>2, <2>3 DEF OptsSet, Numbered
<1>3. CASE option = "-s" BY <1>3 DEF Argument, OptsSet, Numbered
<1>4. CASE option = "-c" BY <1>4 DEF Argument, OptsSet, Numbered
<1>5. CASE option = "-d" BY <1>5 DEF Argument
<1> QED BY <1>1, <1>2, <1>3, <1>4, <1>5 DEF WithArgument

Behind(ws) == SubSeq(Tail(ws), Taken(Tail(ws)), Len(Tail(ws)))
TakenWords(ws) == SubSeq(Tail(ws), 1, Taken(Tail(ws)) - 1)

LEMMA TakenType ==
  ASSUME NEW ws \in Seq(WordSet), Len(ws) > 1
  PROVE  Behind(ws) \in Seq(WordSet) /\ TakenWords(ws) \in Seq(WordSet)
<1>1. PICK after \in Seq(WordSet) : after = Tail(ws) /\ after # << >>
  <2>1. Tail(ws) \in Seq(WordSet) /\ Len(Tail(ws)) = Len(ws) - 1 OBVIOUS
  <2>4. Len(Tail(ws)) > 0
    <3>1. PICK n \in Nat : n = Len(ws) OBVIOUS
    <3> QED BY <2>1, <3>1
  <2>2. PICK a \in Seq(WordSet) : a = Tail(ws) /\ Len(a) > 0 BY <2>1, <2>4, Zenon
  <2>3. a # << >> BY <2>2
  <2> QED BY <2>2, <2>3
<1>2. PICK t \in 1 .. Len(after) : t = Taken(after) BY <1>1, TakenIs
<1>3. SubSeq(after, t, Len(after)) \in Seq(WordSet) OBVIOUS
<1>4. SubSeq(after, 1, t - 1) \in Seq(WordSet) OBVIOUS
<1> QED BY <1>1, <1>2, <1>3, <1>4 DEF Behind, TakenWords

LEMMA TailType ==
  ASSUME NEW W, NEW ws \in Seq(W), ws # << >>
  PROVE  Tail(ws) \in Seq(W) /\ Len(Tail(ws)) = Len(ws) - 1 /\ Head(ws) \in W /\ Head(ws) = ws[1]
         /\ \A i \in 1 .. Len(ws) - 1 : Tail(ws)[i] = ws[i + 1]
<1>1. /\ Tail(ws) \in Seq(W) /\ Len(Tail(ws)) = Len(ws) - 1
      /\ \A i \in 1 .. Len(Tail(ws)) : Tail(ws)[i] = ws[i + 1]
  BY HeadTailProperties, Zenon
<1>2. Head(ws) \in W /\ Head(ws) = ws[1] OBVIOUS
<1> QED BY <1>1, <1>2, Zenon

LEMMA ReadModulesType ==
  ASSUME CliType, ReadModules
  PROVE  words' = Behind(words) /\ words' \in Seq(WordSet) /\ opts' \in OptsSet /\ Numbered(opts')
<1>1. Len(words) > 1 /\ words \in Seq(WordSet) /\ opts \in OptsSet /\ Numbered(opts)
  BY DEF ReadModules, HasArgument, CliType
<1>2. PICK t \in Seq(WordSet) : t = TakenWords(words) BY <1>1, TakenType
<1>3. PICK a \in Seq(WordSet) : a = opts.modules_argv BY <1>1 DEF OptsSet
<1>4. PICK d : d = IF t # << >> /\ a # << >> THEN Tail(t) ELSE t OBVIOUS
<1>5. d \in Seq(WordSet)
  <2>1. CASE t # << >>
    <3>1. Tail(t) \in Seq(WordSet) BY <2>1, TailType
    <3> QED BY <1>4, <3>1
  <2>2. CASE t = << >> BY <1>4, <2>2
  <2> QED BY <2>1, <2>2
<1>6. PICK v \in Seq(WordSet) : v = a \o d BY <1>5, ConcatIs, Zenon
<1>7. /\ words' = Behind(words)
      /\ opts' = [opts EXCEPT !.modules_argv = v, !.exec_modules = IF v = << >> THEN "noexec" ELSE "arg"]
  BY <1>2, <1>3, <1>4, <1>6 DEF ReadModules, Behind, TakenWords
<1>8. opts' \in OptsSet /\ Numbered(opts') BY <1>1, <1>7 DEF OptsSet, Numbered
<1>9. Behind(words) \in Seq(WordSet) BY <1>1, TakenType
<1> QED BY <1>7, <1>8, <1>9

LEMMA TypeStep == CliType /\ [CliNext]_cliVars => CliType'
<1>1. SUFFICES ASSUME CliType, [CliNext]_cliVars PROVE CliType' OBVIOUS
<1>2. CASE UNCHANGED cliVars BY <1>1, <1>2 DEF cliVars, source, stream, CliType
<1>t. /\ words \in Seq(WordSet) /\ operands \in Seq(WordSet)
      /\ opts \in OptsSet /\ Numbered(opts)
      /\ phase \in {"options", "reading", "exited", "serving"}
      /\ rest \in Seq(Chars) /\ input \in Seq(Chars) /\ eof \in BOOLEAN
      /\ modules \in Seq(ModuleNames)
  BY <1>1 DEF CliType
<1>m. ModulesNew(opts) \in Seq(ModuleNames) BY <1>t, ModulesNewIs
<1>3. CASE SkipOperand
  <2>1. PICK w \in WordSet : w = Head(words) BY <1>3, <1>t, TailType DEF SkipOperand
  <2>2. Tail(words) \in Seq(WordSet) BY <1>3, <1>t, TailType DEF SkipOperand
  <2>3. Append(operands, w) \in Seq(WordSet) BY <1>t
  <2> QED BY <1>3, <1>t, <2>1, <2>2, <2>3 DEF SkipOperand, source, stream, CliType
<1>4. CASE ReadFlag
  <2>1. PICK option \in Clear : AtOption(option) /\ opts' = Flag(opts, option) /\ words' = Tail(words) /\ Keep
    BY <1>4 DEF ReadFlag
  <2>2. opts' \in OptsSet /\ Numbered(opts') BY <1>t, <2>1, FlagType
  <2>3. Tail(words) \in Seq(WordSet) BY <1>t, <2>1, TailType DEF AtOption
  <2> QED BY <1>t, <2>1, <2>2, <2>3 DEF Keep, source, stream, CliType
<1>5. CASE ReadArgument
  <2>1. PICK option \in WithArgument \ {"-m"} :
          /\ AtOption(option) /\ HasArgument
          /\ ~(option = "-o" /\ GetOutputFromName(words[2]) = "none")
          /\ opts' = Argument(opts, option, words[2])
          /\ words' = Tail(Tail(words)) /\ Keep
    BY <1>5 DEF ReadArgument
  <2>2. opts' \in OptsSet /\ Numbered(opts') BY <1>t, <2>1, ArgumentType
  <2>3. PICK r \in Seq(WordSet) : r = Tail(words) /\ Len(r) = Len(words) - 1 BY <1>t, <2>1, TailType DEF AtOption
  <2>4. Len(r) > 0
    <3>1. Len(words) > 1 /\ Len(words) \in Nat BY <1>t, <2>1 DEF HasArgument
    <3> QED BY <2>3, <3>1
  <2>5. r # << >> BY <2>4
  <2>6. Tail(r) \in Seq(WordSet) BY <2>5, TailType
  <2> QED BY <1>t, <2>1, <2>2, <2>3, <2>6 DEF Keep, source, stream, CliType
<1>6. CASE ReadModules
  <2>1. words' \in Seq(WordSet) /\ opts' \in OptsSet /\ Numbered(opts') BY <1>1, <1>6, ReadModulesType
  <2> QED BY <1>6, <1>t, <2>1 DEF ReadModules, Keep, source, stream, CliType
<1>7. CASE ReadAttachedModule
  <2>1. opts' = [opts EXCEPT !.exec_modules = IF @ = "arg" THEN "arg" ELSE "noexec"] BY <1>7 DEF ReadAttachedModule
  <2>2. opts' \in OptsSet /\ Numbered(opts') BY <1>t, <2>1 DEF OptsSet, Numbered
  <2> QED BY <1>7, <1>t, <2>2 DEF ReadAttachedModule, Keep, source, stream, CliType
<1>8. CASE Usage BY <1>8, <1>t DEF Usage, Exit, source, stream, CliType
<1>9. CASE Serve
  <2>1. CASE HasArgument BY <1>9, <1>t, <1>m, <2>1 DEF Serve, source, stream, CliType
  <2>2. CASE ~HasArgument BY <1>9, <1>t, <2>2 DEF Serve, Exit, source, stream, CliType
  <2> QED BY <2>1, <2>2
<1>10. CASE Compare BY <1>10, <1>t, <1>m DEF Compare, source, stream, CliType
<1>11. CASE NoOperand BY <1>11, <1>t, <1>m DEF NoOperand, source, stream, CliType
<1>12. CASE DecodeArgument
  <2>1. opts' = [opts EXCEPT !.input_source = "argument"] BY <1>12 DEF DecodeArgument
  <2>2. opts' \in OptsSet /\ Numbered(opts') BY <1>t, <2>1 DEF OptsSet, Numbered
  <2> QED BY <1>12, <1>t, <1>m, <2>2 DEF DecodeArgument, source, stream, CliType
<1>13. CASE StartStream
  <2>1. PICK f \in {"pipe", "file"} : opts' = [opts EXCEPT !.input_source = f] BY <1>13 DEF StartStream
  <2>2. opts' \in OptsSet /\ Numbered(opts') BY <1>t, <2>1 DEF OptsSet, Numbered
  <2>3. input' \in Seq(Chars)
    <3>1. PICK R, T : R = Range(input') /\ T = Chars OBVIOUS
    <3>2. R \subseteq T BY <1>13, <3>1 DEF StartStream, Chars
    <3>3. PICK e \in Seq(R) : e = input' BY <1>13, <3>1, StreamsAssumption DEF StartStream
    <3>4. e \in Seq(T) BY <3>2, LargerSeq
    <3> QED BY <3>1, <3>3, <3>4
  <2>4. << >> \in Seq(WordSet) BY EmptySeq, Zenon
  <2> QED BY <1>13, <1>t, <1>m, <2>2, <2>3, <2>4 DEF StartStream, CliType
<1>14. CASE SkipEmptyLine
  <2>1. rest' \in Seq(Chars) /\ eof' \in BOOLEAN BY <1>14, <1>t, RestIs DEF SkipEmptyLine
  <2> QED BY <1>14, <1>t, <2>1 DEF SkipEmptyLine, source, CliType
<1>15. CASE DecodeLine
  <2>1. rest' \in Seq(Chars) /\ eof' \in BOOLEAN BY <1>15, <1>t, RestIs DEF DecodeLine
  <2>2. opts' = [opts EXCEPT !.print_header = FALSE, !.current_line = @ + 1] BY <1>15 DEF DecodeLine
  <2>4. PICK n \in Nat : n = opts.current_line + 1
    <3>1. opts.current_line \in Nat BY <1>t DEF OptsSet
    <3> QED BY <3>1
  <2>5. opts' = [opts EXCEPT !.print_header = FALSE, !.current_line = n] BY <2>2, <2>4
  <2>3. opts' \in OptsSet /\ Numbered(opts') BY <1>t, <2>5 DEF OptsSet, Numbered
  <2> QED BY <1>15, <1>t, <2>1, <2>3 DEF DecodeLine, source, CliType
<1>16. CASE EndStream BY <1>16, <1>t DEF EndStream, source, stream, CliType
<1> QED BY <1>1, <1>2, <1>3, <1>4, <1>5, <1>6, <1>7, <1>8, <1>9, <1>10, <1>11, <1>12, <1>13, <1>14,
           <1>15, <1>16 DEF CliNext

(***************************************************************************)
(* Whatever was printed is made of whole lines that agree.                 *)
(***************************************************************************)
SameView(o, p) == o.output = p.output /\ o.fields = p.fields /\ o.print_line = p.print_line

LEMMA GoodSame ==
  ASSUME NEW o, NEW p, SameView(o, p), NEW x, GoodOut(o, x)
  PROVE  GoodOut(p, x) /\ RowsOut(p, x) = RowsOut(o, x)
<1>1. o.output = p.output /\ o.fields = p.fields /\ o.print_line = p.print_line BY DEF SameView
<1>2. PICK s : s = Those(x, AnyCell) OBVIOUS
<1>3. x \in Seq(OutCells) /\ GoodShown(o, s) BY <1>2 DEF GoodOut
<1>4. PICK c : c = CutBehind(s, Ending(o.output)) OBVIOUS
<1>5. c = CutBehind(s, Ending(p.output)) BY <1>1, <1>4
<1>6. s \in Seq(AnyCell) /\ c.rest = << >> /\ \A k \in 1 .. Len(c.pieces) : PieceOk(o, c.pieces[k])
  BY <1>3, <1>4, Zenon DEF GoodShown
<1>7. \A line : PieceOk(o, line) => PieceOk(p, line) BY <1>1, Zenon DEF PieceOk
<1>8. GoodShown(p, s) BY <1>5, <1>6, <1>7, Zenon DEF GoodShown
<1>9. RowsIn(o, s) = RowsIn(p, s) BY <1>4, <1>5, Zenon DEF RowsIn
<1> QED BY <1>2, <1>3, <1>8, <1>9 DEF GoodOut, RowsOut

RowsInv ==
  /\ phase = "options" => out = << >>
  /\ Selects(opts) => GoodOut(opts, out)

LEMMA TextIs ==
  /\ \A w \in WordSet : w \in Texts
  /\ CliType => Line \in Texts
<1>1. CliType => Line \in Seq(Chars) BY LineIs DEF CliType
<1> QED BY <1>1 DEF Texts

LEMMA DecodeLineOpts ==
  ASSUME CliType, DecodeLine
  PROVE  SameView(opts, opts') /\ Selects(opts) = Selects(opts') /\ opts'.quiet = opts.quiet
         /\ opts'.current_line = opts.current_line + 1
         /\ opts'.empty_lines_processed = opts.empty_lines_processed
         /\ opts'.snapshot_name = opts.snapshot_name
         /\ opts'.input_source = opts.input_source
<1>1. opts \in OptsSet /\ opts' = [opts EXCEPT !.print_header = FALSE, !.current_line = @ + 1]
  BY DEF CliType, DecodeLine
<1>2. opts'.output = opts.output /\ opts'.fields = opts.fields /\ opts'.print_line = opts.print_line
      /\ opts'.quiet = opts.quiet /\ opts'.current_line = opts.current_line + 1
      /\ opts'.empty_lines_processed = opts.empty_lines_processed
      /\ opts'.snapshot_name = opts.snapshot_name /\ opts'.input_source = opts.input_source
  BY <1>1 DEF OptsSet
<1> QED BY <1>2 DEF SameView, Selects

LEMMA RowsInit == CliInit => RowsInv
<1>1. CliInit => out = << >> BY DEF CliInit
<1> QED BY <1>1, NothingOut DEF RowsInv

LEMMA RowsStep == CliType /\ RowsInv /\ [CliNext]_cliVars => RowsInv'
<1>1. SUFFICES ASSUME CliType, RowsInv, [CliNext]_cliVars PROVE RowsInv' OBVIOUS
<1>t. opts \in OptsSet /\ Numbered(opts) /\ modules \in Seq(ModuleNames) /\ operands \in Seq(WordSet)
  BY <1>1 DEF CliType
<1>2. CASE UNCHANGED <<phase, opts, out>> BY <1>1, <1>2 DEF RowsInv
<1>3. CASE phase = "options" /\ out' = out
  <2>1. out' = << >> BY <1>1, <1>3 DEF RowsInv
  <2> QED BY <2>1, NothingOut DEF RowsInv
<1>4. CASE phase' # "options" /\ opts' = opts /\ out' = out BY <1>1, <1>4 DEF RowsInv
<1>5. CASE DecodeArgument
  <2>1. /\ phase = "options" /\ phase' = "exited" /\ operands # << >>
        /\ modules' = ModulesNew(opts) /\ opts' = [opts EXCEPT !.input_source = "argument"]
        /\ out' = Printed(modules', opts', operands[1])
    BY <1>5 DEF DecodeArgument, Ready
  <2>2. ASSUME Selects(opts') PROVE GoodOut(opts', out')
    <3>1. opts' \in OptsSet /\ Numbered(opts') /\ modules' \in Seq(ModuleNames)
      <4>1. CliType' BY <1>1, TypeStep
      <4> QED BY <4>1 DEF CliType
    <3>2. PICK o \in OptsSet, l \in Seq(ModuleNames) : o = opts' /\ l = modules' BY <3>1
    <3>3. PICK w \in Texts : w = operands[1]
      <4>1. operands[1] \in WordSet BY <1>t, <2>1
      <4> QED BY <4>1, TextIs
    <3>4. PICK p : p = << >> \o Printed(l, o, w) OBVIOUS
    <3>5. GoodOut(o, << >>) BY NothingOut
    <3>6. GoodOut(o, p) BY <2>2, <3>1, <3>2, <3>4, <3>5, PrintedAdded
    <3>7. p = out'
      <4>1. Printed(l, o, w) \in Seq(OutCells)
        <5>1. PICK u \in Urls : u = Decoded(l, w) BY DecodedIs
        <5>2. PICK v \in Urls : v = UrlOutput(l, Decoded(l, w)) BY DecodedIs
        <5>3. PICK R : R = OutCells OBVIOUS
        <5>4. AnyCell \subseteq R /\ ModuleCells \subseteq R BY <5>3 DEF OutCells
        <5>5. PICK a \in Seq(R) : a = ShownByModules(l, u)
          <6>1. ShownByModules(l, u) \in Seq(ModuleCells) BY ModulesShow
          <6> QED BY <5>4, <6>1, LargerSeq
        <5>6. PICK b \in Seq(R) : b = Output(o, v)
          <6>1. Output(o, v) \in Seq(AnyCell)
            <7>1. GoodShown(o, << >>) BY NothingShown
            <7> QED BY <2>2, <3>1, <3>2, <7>1, OutputAdded
          <6> QED BY <5>4, <6>1, LargerSeq
        <5>7. a \o b \in Seq(R) BY ConcatIs
        <5> QED BY <5>1, <5>2, <5>3, <5>5, <5>6, <5>7, Zenon DEF Printed
      <4>2. << >> \o Printed(l, o, w) = Printed(l, o, w) BY <4>1, ConcatEmptySeq, Zenon
      <4> QED BY <2>1, <3>2, <3>3, <3>4, <4>2
    <3> QED BY <3>2, <3>6, <3>7
  <2> QED BY <2>1, <2>2 DEF RowsInv
<1>6. CASE DecodeLine
  <2>1. /\ phase = "reading" /\ phase' = phase
        /\ out' = out \o Printed(modules, opts, Line)
    BY <1>6 DEF DecodeLine, Reading
  <2>2. ASSUME Selects(opts') PROVE GoodOut(opts', out')
    <3>1. SameView(opts, opts') /\ Selects(opts) BY <1>1, <1>6, <2>2, DecodeLineOpts
    <3>2. GoodOut(opts, out) BY <1>1, <3>1 DEF RowsInv
    <3>3. PICK w \in Texts : w = Line BY <1>1, TextIs
    <3>4. GoodOut(opts, out')
      <4>1. PICK o \in OptsSet, l \in Seq(ModuleNames) : o = opts /\ l = modules BY <1>t
      <4>2. PICK p : p = out \o Printed(l, o, w) OBVIOUS
      <4>3. GoodOut(o, p) BY <1>t, <3>1, <3>2, <4>1, <4>2, PrintedAdded
      <4> QED BY <2>1, <3>3, <4>1, <4>2, <4>3
    <3> QED BY <3>1, <3>4, GoodSame
  <2> QED BY <2>1, <2>2 DEF RowsInv
<1>7. CASE SkipOperand BY <1>3, <1>7 DEF SkipOperand
<1>8. CASE ReadFlag BY <1>3, <1>8 DEF ReadFlag, AtOption, Keep
<1>9. CASE ReadArgument BY <1>3, <1>9 DEF ReadArgument, AtOption, Keep
<1>10. CASE ReadModules BY <1>3, <1>10 DEF ReadModules, AtOption, Keep
<1>11. CASE ReadAttachedModule BY <1>3, <1>11 DEF ReadAttachedModule, AtOption, Keep
<1>12. CASE Usage BY <1>4, <1>12 DEF Usage, Exit
<1>13. CASE Serve BY <1>4, <1>13 DEF Serve, Exit
<1>14. CASE Compare BY <1>4, <1>14 DEF Compare
<1>15. CASE NoOperand BY <1>4, <1>15 DEF NoOperand
<1>16. CASE StartStream BY <1>3, <1>16 DEF StartStream, Ready
<1>17. CASE SkipEmptyLine BY <1>2, <1>17 DEF SkipEmptyLine
<1>18. CASE EndStream BY <1>4, <1>18 DEF EndStream
<1>19. CASE UNCHANGED cliVars BY <1>2, <1>19 DEF cliVars
<1> QED BY <1>1, <1>5, <1>6, <1>7, <1>8, <1>9, <1>10, <1>11, <1>12, <1>13, <1>14, <1>15, <1>16,
           <1>17, <1>18, <1>19 DEF CliNext

(* Cut, as it is stated.                                                   *)
LEMMA CutIs ==
  ASSUME GoodOut(opts, out)
  PROVE  /\ Cut = CutBehind(Those(out, AnyCell), Ending(opts.output))
         /\ GoodShown(opts, Those(out, AnyCell))
<1>1. out \in Seq(OutCells) /\ GoodShown(opts, Those(out, AnyCell)) BY DEF GoodOut
<1>2. {i \in DOMAIN out : out[i].column # "module"} = {i \in DOMAIN out : out[i] \in AnyCell}
  <2>1. \A i \in DOMAIN out : out[i] \in OutCells BY <1>1
  <2> QED BY <2>1, CellsApart
<1>3. Shown = Those(out, AnyCell) BY <1>2, Zenon DEF Shown, Those
<1>4. PICK s \in Seq(AnyCell) : s = Shown BY <1>1, <1>3 DEF GoodShown
<1>5. \A i \in DOMAIN s : EndsLine(s[i]) <=> s[i] \in Ending(opts.output)
  <2>1. \A i \in DOMAIN s : s[i] \in AnyCell BY <1>4
  <2> QED BY <2>1 DEF EndsLine, Ending
<1>6. {i \in DOMAIN s : EndsLine(s[i])} = {i \in DOMAIN s : s[i] \in Ending(opts.output)} BY <1>5
<1>7. Cut = CutBehind(s, Ending(opts.output)) BY <1>4, <1>6, Zenon DEF Cut, CutBehind
<1> QED BY <1>1, <1>3, <1>4, <1>7

LEMMA AtMostOne ==
  ASSUME NEW X, NEW h, X \subseteq {h}
  PROVE  Cardinality(X) <= 1
<1>1. IsFiniteSet({h}) /\ Cardinality({h}) = 1 BY FS_Singleton
<1>2. Cardinality(X) <= Cardinality({h}) BY <1>1, FS_Subset
<1> QED BY <1>1, <1>2

LEMMA RowsAgreeHere == CliType /\ RowsInv => RowsAgree
<1>1. SUFFICES ASSUME CliType, RowsInv, phase = "exited", SelectsParts
               PROVE  /\ Cut.rest = << >>
                      /\ \A k \in DOMAIN Lines : Whole(opts.output, Lines[k])
                      /\ opts.output = "csv" /\ (opts.print_line => "line" \in opts.fields) =>
                           Cardinality({Columns(Lines[k]) : k \in DOMAIN Lines}) <= 1
  BY Zenon DEF RowsAgree, Whole, Columns
<1>2. GoodOut(opts, out) BY <1>1 DEF RowsInv, SelectsParts, Selects
<1>3. PICK c : c = CutBehind(Those(out, AnyCell), Ending(opts.output)) OBVIOUS
<1>4. Cut = c /\ GoodShown(opts, Those(out, AnyCell)) BY <1>2, <1>3, CutIs
<1>5. PICK s \in Seq(AnyCell) : s = Those(out, AnyCell) BY <1>4 DEF GoodShown
<1>6. PICK p \in Seq(Seq(AnyCell)) : p = c.pieces BY <1>3, <1>5, CutBehindIs
<1>7. Lines = p /\ DOMAIN p = 1 .. Len(p) BY <1>4, <1>6 DEF Lines
<1>8. c.rest = << >> /\ \A k \in 1 .. Len(p) : PieceOk(opts, p[k])
  BY <1>3, <1>4, <1>6, Zenon DEF GoodShown
<1>9. ASSUME opts.output = "csv" /\ (opts.print_line => "line" \in opts.fields)
      PROVE  Cardinality({Columns(Lines[k]) : k \in DOMAIN Lines}) <= 1
  <2>1. PICK h : h = Columns(Cells(HeaderColumns, opts.fields, HeaderText)) OBVIOUS
  <2>2. \A k \in 1 .. Len(p) : Columns(p[k]) = h BY <1>8, <1>9, <2>1 DEF PieceOk
  <2>3. {Columns(Lines[k]) : k \in DOMAIN Lines} \subseteq {h} BY <1>7, <2>2
  <2> QED BY <2>3, AtMostOne
<1>10. \A k \in 1 .. Len(p) : Whole(opts.output, p[k]) BY <1>8 DEF PieceOk
<1> QED BY <1>4, <1>7, <1>8, <1>9, <1>10

(* RowsAgree, for any command line, any stream and any modules: what is    *)
(* printed, in whatever order the options were given, is a sequence of     *)
(* whole lines with the same columns.                                      *)
THEOREM RowsAgreeAlways == CliSpec => []RowsAgree
<1>1. CliInit => CliType /\ RowsInv BY TypeInit, RowsInit
<1>2. CliType /\ RowsInv /\ [CliNext]_cliVars => (CliType /\ RowsInv)' BY TypeStep, RowsStep
<1>3. CliType /\ RowsInv => RowsAgree BY RowsAgreeHere
<1> QED BY <1>1, <1>2, <1>3, PTL DEF CliSpec

(***************************************************************************)
(* The modules that are loaded are those that the command line asks for.   *)
(***************************************************************************)
Goes(ws, i, j) == j \in i .. Len(ws) /\ ~Plain(ws, j + 1) /\ \A k \in i + 1 .. j : Plain(ws, k)

LEMMA UntilIs ==
  ASSUME NEW W, NEW ws \in Seq(W), NEW i \in 1 .. Len(ws)
  PROVE  Goes(ws, i, Until(ws, i)) /\ \A j : Goes(ws, i, j) => j = Until(ws, i)
<1>1. PICK n \in Nat : n = Len(ws) OBVIOUS
<1>2. DOMAIN ws = 1 .. n BY <1>1
<1> DEFINE S == {j \in 1 .. n : j >= i /\ ~Plain(ws, j + 1)}
<1>3. n \in S
  <2>1. n + 1 \notin DOMAIN ws BY <1>2
  <2>2. ~Plain(ws, n + 1) BY <2>1 DEF Plain
  <2> QED BY <1>1, <2>2
<1>4. PICK m \in S : \A j \in S : m <= j
  <2>1. S \in SUBSET (1 .. n) /\ S # {} BY <1>3
  <2> HIDE DEF S
  <2> QED BY <2>1, Least
<1>5. Goes(ws, i, m)
  <2>1. ASSUME NEW k \in i + 1 .. m PROVE Plain(ws, k)
    <3>1. SUFFICES ASSUME ~Plain(ws, k) PROVE FALSE OBVIOUS
    <3>2. k - 1 \in 1 .. n /\ k - 1 >= i /\ (k - 1) + 1 = k /\ k - 1 < m OBVIOUS
    <3>3. k - 1 \in S BY <3>1, <3>2
    <3>4. m <= k - 1 BY <1>4, <3>3
    <3> QED BY <3>2, <3>4
  <2>2. m \in i .. Len(ws) /\ ~Plain(ws, m + 1) BY <1>1
  <2> QED BY <2>1, <2>2 DEF Goes
<1>6. \E j \in i .. Len(ws) : ~Plain(ws, j + 1) /\ \A k \in i + 1 .. j : Plain(ws, k) BY <1>5 DEF Goes
<1>7. Goes(ws, i, Until(ws, i)) BY <1>6 DEF Until, Goes
<1>8. ASSUME NEW a, NEW b, Goes(ws, i, a), Goes(ws, i, b) PROVE ~(a < b)
  <2>1. SUFFICES ASSUME a < b PROVE FALSE OBVIOUS
  <2>2. a \in i .. n /\ b \in i .. n BY <1>1, <1>8 DEF Goes
  <2>3. a + 1 \in i + 1 .. b BY <2>1, <2>2
  <2> QED BY <1>8, <2>3 DEF Goes
<1>9. ASSUME NEW j, Goes(ws, i, j) PROVE j = Until(ws, i)
  <2>1. j \in i .. n /\ Until(ws, i) \in i .. n BY <1>1, <1>7, <1>9 DEF Goes
  <2>2. ~(j < Until(ws, i)) /\ ~(Until(ws, i) < j) BY <1>7, <1>8, <1>9
  <2> QED BY <2>1, <2>2
<1> QED BY <1>7, <1>9

LEMMA PartIs ==
  ASSUME NEW W, NEW s \in Seq(W), NEW a \in Nat, NEW b \in Nat, a >= 1, b >= a - 1, b <= Len(s)
  PROVE  /\ SubSeq(s, a, b) \in Seq(W) /\ Len(SubSeq(s, a, b)) = b - a + 1
         /\ \A k \in 1 .. b - a + 1 : SubSeq(s, a, b)[k] = s[a + k - 1]
<1>1. a \in Int /\ b \in Int OBVIOUS
<1>2. \A i \in a .. b : s[i] \in W
  <2>1. \A i \in a .. b : i \in 1 .. Len(s) OBVIOUS
  <2> QED BY <2>1
<1>3. /\ SubSeq(s, a, b) \in Seq(W)
      /\ Len(SubSeq(s, a, b)) = IF a <= b THEN b - a + 1 ELSE 0
      /\ \A i \in 1 .. b - a + 1 : SubSeq(s, a, b)[i] = s[a + i - 1]
  BY <1>1, <1>2, SubSeqProperties
<1>4. ~(a <= b) => b - a + 1 = 0 OBVIOUS
<1> QED BY <1>3, <1>4

IsTail(v, ws, n) == Len(ws) = n /\ Len(v) = n - 1 /\ \A i \in 1 .. n - 1 : v[i] = ws[i + 1]

LEMMA PartOfTail ==
  ASSUME NEW W, NEW ws \in Seq(W), NEW n \in Nat, NEW v \in Seq(W), IsTail(v, ws, n),
         NEW i \in 0 .. n - 1, NEW l \in i .. n - 1
  PROVE  SubSeq(ws, (i + 1) + 1, l + 1) = SubSeq(v, i + 1, l)
<1>0. n \in Nat /\ i \in 0 .. n - 1 /\ l \in i .. n - 1 /\ Len(ws) = n /\ Len(v) = n - 1 BY DEF IsTail
<1>7. \A j \in 1 .. n - 1 : v[j] = ws[j + 1] BY DEF IsTail
<1>1. PICK x : x = SubSeq(ws, (i + 1) + 1, l + 1) OBVIOUS
<1>2. PICK y : y = SubSeq(v, i + 1, l) OBVIOUS
<1>3. x \in Seq(W) /\ Len(x) = l - i /\ \A k \in 1 .. l - i : x[k] = ws[(i + 1) + k]
  <2>1. PICK a \in Nat, b \in Nat : a = (i + 1) + 1 /\ b = l + 1 OBVIOUS
  <2>2. /\ a \in Nat /\ b \in Nat /\ a >= 1 /\ b >= a - 1 /\ b <= Len(ws) /\ b - a + 1 = l - i
    BY ONLY <1>0, <2>1
  <2>3. /\ SubSeq(ws, a, b) \in Seq(W) /\ Len(SubSeq(ws, a, b)) = b - a + 1
        /\ \A k \in 1 .. b - a + 1 : SubSeq(ws, a, b)[k] = ws[a + k - 1]
    BY ONLY <2>2, ws \in Seq(W), PartIs
  <2>4. \A k \in 1 .. l - i : a + k - 1 = (i + 1) + k BY <2>1
  <2> QED BY <1>1, <2>1, <2>2, <2>3, <2>4
<1>4. y \in Seq(W) /\ Len(y) = l - i /\ \A k \in 1 .. l - i : y[k] = v[i + k]
  <2>1. PICK a \in Nat : a = i + 1 OBVIOUS
  <2>2. l \in Nat /\ a >= 1 /\ l >= a - 1 /\ l <= Len(v) /\ l - a + 1 = l - i BY ONLY <1>0, <2>1
  <2>3. /\ SubSeq(v, a, l) \in Seq(W) /\ Len(SubSeq(v, a, l)) = l - a + 1
        /\ \A k \in 1 .. l - a + 1 : SubSeq(v, a, l)[k] = v[a + k - 1]
    BY <2>2, PartIs
  <2>4. \A k \in 1 .. l - i : a + k - 1 = i + k BY <2>1
  <2> QED BY <1>2, <2>1, <2>2, <2>3, <2>4
<1>5. ASSUME NEW k \in 1 .. l - i PROVE x[k] = y[k]
  <2>1. i + k \in 1 .. n - 1 /\ (i + k) + 1 = (i + 1) + k OBVIOUS
  <2> QED BY <1>3, <1>4, <1>7, <2>1
<1>6. x = y BY <1>3, <1>4, <1>5, SeqEqual
<1> QED BY <1>1, <1>2, <1>6

LEMMA SubSeqOfTail ==
  ASSUME NEW W, NEW ws \in Seq(W), NEW n \in Nat, NEW v \in Seq(W), IsTail(v, ws, n),
         NEW i \in 0 .. n - 1, NEW l \in i - 1 .. n - 1
  PROVE  SubSeq(ws, (i + 1) + 1, l + 1) = SubSeq(v, i + 1, l)
<1>1. CASE l \in i .. n - 1 BY <1>1, PartOfTail, Zenon
<1>2. CASE l = i - 1
  <2>1. SubSeq(v, i + 1, l) = << >> BY <1>2, SubSeqEmpty
  <2>2. SubSeq(ws, (i + 1) + 1, l + 1) = << >> BY <1>2, SubSeqEmpty
  <2> QED BY <2>1, <2>2
<1>3. l = i - 1 \/ l \in i .. n - 1 OBVIOUS
<1> QED BY <1>1, <1>2, <1>3

(* A word that is read and is not -m changes nothing.                      *)
LEMMA TailAsked ==
  ASSUME NEW W, NEW ws \in Seq(W), ws # << >>, ws[1] # "-m", ~Doubtful(ws), NEW v, v = Tail(ws)
  PROVE  ~Doubtful(v) /\ Asked(v) = Asked(ws)
<1>1. PICK n \in Nat : n = Len(ws) /\ n > 0 OBVIOUS
<1>2. v \in Seq(W) /\ Len(v) = n - 1 /\ \A i \in 1 .. n - 1 : v[i] = ws[i + 1] BY <1>1, TailType
<1>3. DOMAIN ws = 1 .. n /\ DOMAIN v = 1 .. n - 1 BY <1>1, <1>2
<1>4. \A i \in 1 .. n : Plain(v, i) <=> Plain(ws, i + 1)
  <2>1. \A i \in 1 .. n : (i \in 1 .. n - 1 <=> i + 1 \in 1 .. n) OBVIOUS
  <2> QED BY <1>2, <1>3, <2>1 DEF Plain
<1> DEFINE mw == {i \in DOMAIN ws : ws[i] = "-m"}
           mv == {i \in DOMAIN v : v[i] = "-m"}
<1>5. \A i \in 1 .. n - 1 : (i \in mv) <=> (i + 1 \in mw)
  <2>1. \A i \in 1 .. n - 1 : i + 1 \in 1 .. n OBVIOUS
  <2> QED BY <1>2, <1>3, <2>1
<1>6. \A j \in mw : j - 1 \in mv /\ j \in 2 .. n
  <2>1. SUFFICES ASSUME NEW j \in mw PROVE j - 1 \in mv /\ j \in 2 .. n OBVIOUS
  <2>2. j \in 1 .. n /\ j # 1 BY <1>3
  <2>3. j - 1 \in 1 .. n - 1 /\ (j - 1) + 1 = j BY <2>2
  <2>4. j - 1 \in mv BY <1>5, <2>3
  <2> QED BY <2>2, <2>4
<1>7. mv \subseteq 1 .. n - 1 BY <1>3
<1>8. ASSUME NEW i \in 1 .. n - 1 PROVE Until(ws, i + 1) = Until(v, i) + 1 /\ Until(v, i) \in i .. n - 1
  <2>1. PICK u : u = Until(v, i) OBVIOUS
  <2>2. Goes(v, i, u) BY <1>2, <2>1, UntilIs
  <2>3. u \in i .. n - 1 /\ ~Plain(v, u + 1) /\ \A k \in i + 1 .. u : Plain(v, k) BY <1>2, <2>2 DEF Goes
  <2>4. u + 1 \in i + 1 .. n BY <2>3
  <2>5. ~Plain(ws, (u + 1) + 1)
    <3>1. u + 1 \in 1 .. n BY <2>3
    <3> QED BY <1>4, <2>3, <3>1
  <2>6. ASSUME NEW k \in (i + 1) + 1 .. u + 1 PROVE Plain(ws, k)
    <3>1. k - 1 \in i + 1 .. u /\ k - 1 \in 1 .. n /\ (k - 1) + 1 = k BY <2>3
    <3> QED BY <1>4, <2>3, <3>1
  <2>7. Goes(ws, i + 1, u + 1) BY <1>1, <2>4, <2>5, <2>6 DEF Goes
  <2>8. i + 1 \in 1 .. Len(ws) BY <1>1
  <2>9. u + 1 = Until(ws, i + 1) BY <2>7, <2>8, UntilIs
  <2> QED BY <2>1, <2>3, <2>9
<1>9. /\ ~\E i \in DOMAIN ws : ws[i] \in WithArgument \ {"-m"} /\ ~Plain(ws, i + 1)
      /\ ~\E i \in DOMAIN ws : ws[i] \in {"-ma", "-w"}
      /\ ~\E i, j \in mw : i # j
      /\ ~\E i \in mw : stdin = "pipe" /\ Until(ws, i) = Len(ws)
  BY Zenon DEF Doubtful
<1>10. ~\E i \in DOMAIN v : v[i] \in WithArgument \ {"-m"} /\ ~Plain(v, i + 1)
  <2>1. SUFFICES ASSUME NEW i \in 1 .. n - 1, v[i] \in WithArgument \ {"-m"}, ~Plain(v, i + 1) PROVE FALSE
    BY <1>3
  <2>2. i + 1 \in 1 .. n OBVIOUS
  <2>3. ws[i + 1] \in WithArgument \ {"-m"} /\ ~Plain(ws, (i + 1) + 1) BY <1>2, <1>4, <2>1, <2>2
  <2> QED BY <1>3, <1>9, <2>2, <2>3
<1>11. ~\E i \in DOMAIN v : v[i] \in {"-ma", "-w"}
  <2>1. SUFFICES ASSUME NEW i \in 1 .. n - 1, v[i] \in {"-ma", "-w"} PROVE FALSE BY <1>3
  <2>2. i + 1 \in 1 .. n /\ ws[i + 1] = v[i] BY <1>2
  <2> QED BY <1>3, <1>9, <2>1, <2>2
<1>12. ~\E i, j \in mv : i # j
  <2>1. SUFFICES ASSUME NEW i \in mv, NEW j \in mv, i # j PROVE FALSE OBVIOUS
  <2>2. i \in 1 .. n - 1 /\ j \in 1 .. n - 1 BY <1>7
  <2>3. i + 1 \in mw /\ j + 1 \in mw BY <1>5, <2>1, <2>2
  <2>4. i + 1 # j + 1 BY <2>1, <2>2
  <2> HIDE DEF mw
  <2> QED BY <1>9, <2>3, <2>4
<1>13. ~\E i \in mv : stdin = "pipe" /\ Until(v, i) = Len(v)
  <2>1. SUFFICES ASSUME NEW i \in mv, stdin = "pipe", Until(v, i) = Len(v) PROVE FALSE OBVIOUS
  <2>2. i \in 1 .. n - 1 BY <1>7
  <2>3. i + 1 \in mw BY <1>5, <2>1, <2>2
  <2>4. Until(ws, i + 1) = Len(ws) BY <1>1, <1>2, <1>8, <2>1, <2>2
  <2> HIDE DEF mw
  <2> QED BY <1>9, <2>1, <2>3, <2>4
<1>14. ~Doubtful(v) BY <1>10, <1>11, <1>12, <1>13, Zenon DEF Doubtful
<1>15. CASE mv = {}
  <2>1. mw = {}
    <3> HIDE DEF mw, mv
    <3> QED BY <1>6, <1>15
  <2>2. Asked(v) = Enabled BY <1>15, Zenon DEF Asked
  <2>3. Asked(ws) = Enabled BY <2>1, Zenon DEF Asked
  <2> QED BY <1>14, <2>2, <2>3
<1>16. CASE mv # {}
  <2>1. PICK i \in mv : i = CHOOSE j \in mv : TRUE
    <3> HIDE DEF mv
    <3> QED BY <1>16
  <2>2. i \in 1 .. n - 1 BY <1>7
  <2>3. i + 1 \in mw BY <1>5, <2>1, <2>2
  <2>4. mw # {} /\ i + 1 = CHOOSE j \in mw : TRUE
    <3> HIDE DEF mw
    <3> QED BY <1>9, <2>3
  <2>5. PICK u \in i .. n - 1 : u = Until(v, i) /\ u + 1 = Until(ws, i + 1) BY <1>8, <2>2
  <2> DEFINE lw == IF u + 1 = n THEN n - 1 ELSE u + 1
             lv == IF u = n - 1 THEN (n - 1) - 1 ELSE u
  <2>6. lw = lv + 1 /\ lv \in i - 1 .. n - 1 BY <2>2, <2>5
  <2>7. Asked(ws) = LoadFromArg(SubSeq(ws, (i + 1) + 1, lw))
    BY <1>1, <2>4, <2>5, Zenon DEF Asked
  <2>8. Asked(v) = LoadFromArg(SubSeq(v, i + 1, lv))
    BY <1>2, <1>16, <2>1, <2>5, Zenon DEF Asked
  <2>9. SubSeq(ws, (i + 1) + 1, lw) = SubSeq(v, i + 1, lv)
    <3>1. PICK l \in i - 1 .. n - 1 : l = lv /\ l + 1 = lw BY <2>6
    <3> HIDE DEF lv, lw
    <3>2. SubSeq(ws, (i + 1) + 1, l + 1) = SubSeq(v, i + 1, l)
      <4>1. i \in 0 .. n - 1 /\ l \in i - 1 .. n - 1 /\ n \in Nat BY <2>2
      <4>2. IsTail(v, ws, n) BY <1>1, <1>2 DEF IsTail
      <4> QED BY <1>2, <4>1, <4>2, SubSeqOfTail, Zenon
    <3> QED BY <3>1, <3>2
  <2> QED BY <1>14, <2>7, <2>8, <2>9
<1> QED BY <1>15, <1>16

NoModuleWord(ws) == \A i \in DOMAIN ws : ws[i] \notin {"-m", "-ma", "-w"}

LEMMA NoModuleTail ==
  ASSUME NEW W, NEW ws \in Seq(W), ws # << >>, NoModuleWord(ws), NEW v, v = Tail(ws)
  PROVE  NoModuleWord(v)
<1>1. PICK n \in Nat : n = Len(ws) /\ n > 0 OBVIOUS
<1>2. v \in Seq(W) /\ Len(v) = n - 1 /\ \A i \in 1 .. n - 1 : v[i] = ws[i + 1] BY <1>1, TailType
<1>3. ASSUME NEW i \in DOMAIN v PROVE v[i] \notin {"-m", "-ma", "-w"}
  <2>1. i \in 1 .. n - 1 BY <1>2
  <2>2. i + 1 \in DOMAIN ws BY <1>1, <2>1
  <2>3. ws[i + 1] \notin {"-m", "-ma", "-w"} BY <2>2 DEF NoModuleWord
  <2> QED BY <1>2, <2>1, <2>3
<1> QED BY <1>3 DEF NoModuleWord

(* What -m takes is what it is said to take, and nothing behind it asks    *)
(* for other modules.                                                      *)
LEMMA ModulesAsked ==
  ASSUME NEW ws \in Seq(WordSet), Len(ws) > 1, ws[1] = "-m", ~Doubtful(ws)
  PROVE  Asked(ws) = LoadFromArg(TakenWords(ws)) /\ NoModuleWord(Behind(ws))
<1>1. PICK n \in Nat : n = Len(ws) /\ n > 1 OBVIOUS
<1>2. PICK v \in Seq(WordSet) : v = Tail(ws) /\ Len(v) = n - 1 /\ \A i \in 1 .. n - 1 : v[i] = ws[i + 1]
  <2>1. ws # << >> BY <1>1
  <2>2. PICK v \in Seq(WordSet) : v = Tail(ws) BY <2>1, TailType
  <2>3. Len(v) = n - 1 /\ \A i \in 1 .. n - 1 : v[i] = ws[i + 1] BY <1>1, <2>1, <2>2, TailType
  <2> QED BY <2>2, <2>3
<1>3. DOMAIN ws = 1 .. n /\ DOMAIN v = 1 .. n - 1 BY <1>1, <1>2
<1>4. v # << >> BY <1>1, <1>2
<1>5. PICK t \in 1 .. n - 1 : /\ t = Taken(v) /\ (\A i \in 1 .. t - 1 : ~IsOption(v[i]))
                              /\ IsOption(v[t]) \/ t = n - 1
  BY <1>2, <1>4, TakenIs
<1> DEFINE mw == {i \in DOMAIN ws : ws[i] = "-m"}
<1>6. /\ ~\E i \in DOMAIN ws : ws[i] \in {"-ma", "-w"}
      /\ ~\E i, j \in mw : i # j
  BY Zenon DEF Doubtful
<1>7. 1 \in mw BY <1>1, <1>3
<1>8. mw = {1}
  <2> HIDE DEF mw
  <2> QED BY <1>6, <1>7
<1>9. PICK l : l = IF Until(ws, 1) = n THEN n - 1 ELSE Until(ws, 1) OBVIOUS
<1>10. Asked(ws) = LoadFromArg(SubSeq(ws, 1 + 1, l))
  <2>1. mw # {} /\ (CHOOSE j \in mw : TRUE) = 1
    <3> HIDE DEF mw
    <3> QED BY <1>8
  <2> QED BY <1>1, <1>9, <2>1, Zenon DEF Asked
<1>11. \A k \in 2 .. t : Plain(ws, k)
  <2>1. SUFFICES ASSUME NEW k \in 2 .. t PROVE Plain(ws, k) OBVIOUS
  <2>2. k - 1 \in 1 .. t - 1 /\ k - 1 \in 1 .. n - 1 /\ (k - 1) + 1 = k /\ k \in 1 .. n BY <1>5
  <2>3. ws[k] = v[k - 1] BY <1>2, <2>2
  <2> QED BY <1>3, <1>5, <2>2, <2>3 DEF Plain
<1>12. l = t
  <2>1. CASE IsOption(v[t])
    <3>1. t + 1 \in 1 .. n /\ ws[t + 1] = v[t] BY <1>2
    <3>2. ~Plain(ws, t + 1) BY <2>1, <3>1 DEF Plain
    <3>3. Goes(ws, 1, t)
      <4>1. t \in 1 .. Len(ws) /\ \A k \in 1 + 1 .. t : Plain(ws, k) BY <1>1, <1>11
      <4> QED BY <3>2, <4>1 DEF Goes
    <3>4. 1 \in 1 .. Len(ws) BY <1>1
    <3>5. t = Until(ws, 1) BY <3>3, <3>4, UntilIs
    <3>6. t # n OBVIOUS
    <3> QED BY <1>9, <3>5, <3>6
  <2>2. CASE ~IsOption(v[t]) /\ t = n - 1
    <3>1. n \in 1 .. n /\ ws[n] = v[t] BY <1>1, <1>2, <2>2
    <3>2. Plain(ws, n) BY <1>3, <2>2, <3>1 DEF Plain
    <3>3. ~Plain(ws, n + 1)
      <4>1. n + 1 \notin DOMAIN ws BY <1>3
      <4> QED BY <4>1 DEF Plain
    <3>4. \A k \in 1 + 1 .. n : Plain(ws, k)
      <4>1. \A k \in 1 + 1 .. n : k \in 2 .. t \/ k = n BY <2>2
      <4> QED BY <1>11, <3>2, <4>1
    <3>5. Goes(ws, 1, n)
      <4>1. n \in 1 .. Len(ws) BY <1>1
      <4> QED BY <3>3, <3>4, <4>1 DEF Goes
    <3>6. 1 \in 1 .. Len(ws) BY <1>1
    <3>7. n = Until(ws, 1) BY <3>5, <3>6, UntilIs
    <3> QED BY <1>9, <2>2, <3>7
  <2> QED BY <1>5, <2>1, <2>2
<1>13. SubSeq(ws, 1 + 1, l) = TakenWords(ws)
  <2>1. PICK i \in 0 .. n - 1, j \in 0 .. n - 1 : i = 0 /\ j = t - 1 BY <1>1
  <2>2. j \in i .. n - 1 BY <2>1
  <2>3. SubSeq(ws, (i + 1) + 1, j + 1) = SubSeq(v, i + 1, j)
    <3>1. IsTail(v, ws, n) BY <1>1, <1>2 DEF IsTail
    <3> QED BY <2>2, <3>1, PartOfTail, Zenon
  <2>4. (i + 1) + 1 = 1 + 1 /\ j + 1 = l /\ i + 1 = 1 BY <1>12, <2>1
  <2>5. TakenWords(ws) = SubSeq(v, 1, j) BY <1>2, <1>5, <2>1 DEF TakenWords
  <2> QED BY <2>3, <2>4, <2>5
<1>14. NoModuleWord(Behind(ws))
  <2>3. PICK m \in Nat : m = n - 1 BY <1>1
  <2>4. t \in Nat /\ t >= 1 /\ m >= t - 1 /\ m <= Len(v) BY <1>2, <2>3
  <2>5. /\ SubSeq(v, t, m) \in Seq(WordSet) /\ Len(SubSeq(v, t, m)) = m - t + 1
        /\ \A k \in 1 .. m - t + 1 : SubSeq(v, t, m)[k] = v[t + k - 1]
    BY ONLY <2>3, <2>4, v \in Seq(WordSet), PartIs
  <2>1. PICK b \in Seq(WordSet) : b = SubSeq(v, t, m) BY <2>5
  <2>2. Behind(ws) = b BY <1>2, <1>5, <2>1, <2>3 DEF Behind
  <2>6. ASSUME NEW k \in DOMAIN b PROVE b[k] \notin {"-m", "-ma", "-w"}
    <3>1. k \in 1 .. m - t + 1 /\ b[k] = v[t + k - 1] BY <2>1, <2>3, <2>5
    <3>2. t + k - 1 \in 1 .. n - 1 /\ (t + k - 1) + 1 = t + k /\ t + k \in 1 .. n /\ t + k # 1
      <4>1. k \in 1 .. m - t + 1 /\ m = n - 1 /\ t \in 1 .. n - 1 /\ n \in Nat BY <2>3, <3>1
      <4> QED BY ONLY <4>1
    <3>3. b[k] = ws[t + k] BY <1>2, <3>1, <3>2
    <3>4. t + k \notin mw
      <4> HIDE DEF mw
      <4> QED BY <1>8, <3>2
    <3> QED BY <1>3, <1>6, <3>2, <3>3, <3>4
  <2> QED BY <2>2, <2>6 DEF NoModuleWord
<1> QED BY <1>10, <1>13, <1>14

(***************************************************************************)
(* The modules that are loaded are those that the command line gives.      *)
(***************************************************************************)
Pending(o, ws, g) ==
  \/ o.exec_modules = "path" /\ o.modules_argv = << >> /\ ~Doubtful(ws) /\ Asked(ws) = g
  \/ o.exec_modules # "path" /\ ModulesNew(o) = g /\ NoModuleWord(ws)

GivenInv ==
  /\ phase = "options" => ~eof /\ (given # Unclear => Pending(opts, words, given))
  /\ (phase = "reading" \/ eof) /\ given # Unclear => modules = given

LEMMA DoubtfulSame ==
  ASSUME stdin' = stdin
  PROVE  Doubtful(words)' = Doubtful(words')
BY Zenon DEF Doubtful

LEMMA PendingTail ==
  ASSUME NEW W, NEW ws \in Seq(W), ws # << >>, ws[1] # "-m", NEW o, NEW p, NEW g, Pending(o, ws, g),
         p.exec_modules = o.exec_modules, p.modules_argv = o.modules_argv
  PROVE  Pending(p, Tail(ws), g)
<1>0. PICK v : v = Tail(ws) OBVIOUS
<1>1. CASE o.exec_modules = "path" /\ o.modules_argv = << >> /\ ~Doubtful(ws) /\ Asked(ws) = g
  <2>1. ~Doubtful(v) /\ Asked(v) = Asked(ws) BY <1>0, <1>1, TailAsked, Zenon
  <2> QED BY <1>0, <1>1, <2>1, Zenon DEF Pending
<1>2. CASE o.exec_modules # "path" /\ ModulesNew(o) = g /\ NoModuleWord(ws)
  <2>1. NoModuleWord(v) BY <1>0, <1>2, NoModuleTail, Zenon
  <2>2. ModulesNew(p) = ModulesNew(o) BY Zenon DEF ModulesNew
  <2> QED BY <1>0, <1>2, <2>1, <2>2, Zenon DEF Pending
<1> QED BY <1>1, <1>2, Zenon DEF Pending

LEMMA FlagKeeps ==
  ASSUME NEW o \in OptsSet, NEW option \in Clear
  PROVE  /\ Flag(o, option).exec_modules = o.exec_modules /\ Flag(o, option).modules_argv = o.modules_argv
         /\ Flag(o, option).current_line = o.current_line
<1>1. CASE option = "-l" BY <1>1 DEF Flag, OptsSet
<1>2. CASE option = "-a" BY <1>2 DEF Flag, OptsSet
<1>3. CASE option = "-e" BY <1>3 DEF Flag, OptsSet
<1>4. CASE option = "-p" BY <1>4 DEF Flag, OptsSet
<1>5. CASE option = "-q" BY <1>5 DEF Flag, OptsSet
<1>6. CASE option = "-t" BY <1>6 DEF Flag
<1> QED BY <1>1, <1>2, <1>3, <1>4, <1>5, <1>6 DEF Clear

LEMMA ArgumentKeeps ==
  ASSUME NEW o \in OptsSet, NEW option \in WithArgument \ {"-m"}, NEW optarg
  PROVE  /\ Argument(o, option, optarg).exec_modules = o.exec_modules
         /\ Argument(o, option, optarg).modules_argv = o.modules_argv
         /\ Argument(o, option, optarg).current_line = o.current_line
<1>1. CASE option = "-f" BY <1>1 DEF Argument, OptsSet
<1>2. CASE option = "-o" BY <1>2 DEF Argument, OptsSet
<1>3. CASE option = "-s" BY <1>3 DEF Argument, OptsSet
<1>4. CASE option = "-c" BY <1>4 DEF Argument, OptsSet
<1>5. CASE option = "-d" BY <1>5 DEF Argument
<1> QED BY <1>1, <1>2, <1>3, <1>4, <1>5 DEF WithArgument

LEMMA GivenInit == CliInit => GivenInv
<1>1. SUFFICES ASSUME CliInit PROVE GivenInv OBVIOUS
<1>2. phase = "options" /\ eof = FALSE /\ given = Given(words) /\ opts = Defaults BY <1>1 DEF CliInit
<1>3. ASSUME given # Unclear PROVE Pending(opts, words, given)
  <2>1. ~Doubtful(words) /\ given = Asked(words) BY <1>2, <1>3, Zenon DEF Given
  <2>2. opts.exec_modules = "path" /\ opts.modules_argv = << >> BY <1>2 DEF Defaults
  <2> QED BY <2>1, <2>2, Zenon DEF Pending
<1> QED BY <1>2, <1>3 DEF GivenInv

LEMMA NoModules == LoadFromArg(<< >>) = << >>
BY ThoseEmpty, Zenon DEF LoadFromArg

LEMMA ReadModulesPending ==
  ASSUME CliType, ReadModules, Pending(opts, words, given)
  PROVE  Pending(opts', words', given)
<1>1. /\ Len(words) > 1 /\ words \in Seq(WordSet) /\ opts \in OptsSet /\ words # << >> /\ words[1] = "-m"
  BY DEF ReadModules, HasArgument, CliType, AtOption
<1>2. words' = Behind(words) BY ReadModulesType
<1>3. opts.exec_modules = "path" /\ opts.modules_argv = << >> /\ ~Doubtful(words) /\ Asked(words) = given
  <2>1. ~NoModuleWord(words)
    <3>1. 1 \in DOMAIN words BY <1>1
    <3> QED BY <1>1, <3>1 DEF NoModuleWord
  <2> QED BY <2>1, Zenon DEF Pending
<1>4. PICK t \in Seq(WordSet) : t = TakenWords(words) BY <1>1, TakenType
<1>5. opts' = [opts EXCEPT !.modules_argv = t, !.exec_modules = IF t = << >> THEN "noexec" ELSE "arg"]
  <2>1. << >> \o t = t BY <1>4, ConcatEmptySeq, Zenon
  <2> QED BY <1>3, <1>4, <2>1 DEF ReadModules, TakenWords
<1>6. Asked(words) = LoadFromArg(t) /\ NoModuleWord(Behind(words)) BY <1>1, <1>3, <1>4, ModulesAsked, Zenon
<1>7. ModulesNew(opts') = LoadFromArg(t) /\ opts'.exec_modules # "path"
  <2>1. CASE t = << >>
    <3>1. opts'.exec_modules = "noexec" BY <1>1, <1>5, <2>1 DEF OptsSet
    <3> QED BY <2>1, <3>1, NoModules DEF ModulesNew
  <2>2. CASE t # << >>
    <3>1. opts'.exec_modules = "arg" /\ opts'.modules_argv = t BY <1>1, <1>5, <2>2 DEF OptsSet
    <3> QED BY <3>1 DEF ModulesNew
  <2> QED BY <2>1, <2>2
<1>8. ModulesNew(opts') = given BY <1>3, <1>6, <1>7
<1>9. NoModuleWord(words') BY <1>2, <1>6
<1> QED BY <1>7, <1>8, <1>9 DEF Pending

LEMMA ModulesAreGiven ==
  ASSUME words = << >>, Pending(opts, words, given)
  PROVE  ModulesNew(opts) = given
<1>1. CASE opts.exec_modules = "path" /\ Asked(words) = given
  <2>1. {i \in DOMAIN words : words[i] = "-m"} = {} OBVIOUS
  <2>2. Asked(words) = Enabled BY <2>1, Zenon DEF Asked
  <2>3. ModulesNew(opts) = Enabled BY <1>1 DEF ModulesNew
  <2> QED BY <1>1, <2>2, <2>3
<1> QED BY <1>1, Zenon DEF Pending

LEMMA GivenStep == CliType /\ GivenInv /\ [CliNext]_cliVars => GivenInv'
<1>1. SUFFICES ASSUME CliType, GivenInv, [CliNext]_cliVars PROVE GivenInv' OBVIOUS
<1>t. /\ words \in Seq(WordSet) /\ opts \in OptsSet BY <1>1 DEF CliType
<1>2. ASSUME phase = "options", phase' = "options", UNCHANGED <<source, stream, modules, given>>,
             given # Unclear => Pending(opts', words', given)
      PROVE  GivenInv'
  <2>1. stdin' = stdin /\ eof' = eof /\ ~eof /\ given' = given BY <1>1, <1>2 DEF source, stream, GivenInv
  <2>2. Doubtful(words)' = Doubtful(words') BY <2>1, DoubtfulSame
  <2>3. Pending(opts, words, given)' = Pending(opts', words', given) BY <2>1, <2>2, Zenon DEF Pending
  <2> QED BY <1>2, <2>1, <2>3 DEF GivenInv
<1>3. ASSUME given # Unclear, phase = "options" PROVE Pending(opts, words, given) /\ ~eof
  BY <1>1, <1>3 DEF GivenInv
<1>4. ASSUME phase' # "options", phase' # "reading", eof' = eof, phase = "options" PROVE GivenInv'
  BY <1>1, <1>4 DEF GivenInv
<1>5. ASSUME phase = "reading", phase' # "options", UNCHANGED <<modules, given>> PROVE GivenInv'
  BY <1>1, <1>5 DEF GivenInv
<1>6. CASE SkipOperand
  <2>1. phase = "options" /\ words # << >> /\ ~IsOption(words[1]) /\ words' = Tail(words) /\ opts' = opts
        /\ UNCHANGED <<phase, source, stream, modules, given>>
    BY <1>6, <1>t DEF SkipOperand
  <2>2. words[1] # "-m" BY <2>1 DEF IsOption, WithArgument
  <2>3. given # Unclear => Pending(opts', words', given) BY <1>3, <1>t, <2>1, <2>2, PendingTail
  <2> QED BY <1>2, <2>1, <2>3
<1>7. CASE ReadFlag
  <2>1. PICK option \in Clear : AtOption(option) /\ opts' = Flag(opts, option) /\ words' = Tail(words) /\ Keep
    BY <1>7 DEF ReadFlag
  <2>2. phase = "options" /\ words # << >> /\ words[1] = option BY <1>t, <2>1 DEF AtOption
  <2>3. words[1] # "-m" BY <2>2 DEF Clear
  <2>4. opts'.exec_modules = opts.exec_modules /\ opts'.modules_argv = opts.modules_argv
    BY <1>t, <2>1, FlagKeeps
  <2>5. given # Unclear => Pending(opts', words', given)
    BY <1>3, <1>t, <2>1, <2>2, <2>3, <2>4, PendingTail
  <2> QED BY <1>2, <2>1, <2>2, <2>5 DEF Keep
<1>8. CASE ReadArgument
  <2>1. PICK option \in WithArgument \ {"-m"} :
          /\ AtOption(option) /\ HasArgument /\ opts' = Argument(opts, option, words[2])
          /\ words' = Tail(Tail(words)) /\ Keep
    BY <1>8 DEF ReadArgument
  <2>2. phase = "options" /\ words # << >> /\ words[1] = option /\ Len(words) > 1
    BY <1>t, <2>1 DEF AtOption, HasArgument
  <2>3. opts'.exec_modules = opts.exec_modules /\ opts'.modules_argv = opts.modules_argv
    BY <1>t, <2>1, ArgumentKeeps
  <2>4. PICK v \in Seq(WordSet) : v = Tail(words) /\ Len(v) = Len(words) - 1 /\ v # << >> /\ v[1] = words[2]
    <3>1. PICK v \in Seq(WordSet) : v = Tail(words) BY <1>t, <2>2, TailType
    <3>2. Len(v) = Len(words) - 1 /\ \A i \in 1 .. Len(words) - 1 : v[i] = words[i + 1]
      BY <1>t, <2>2, <3>1, TailType
    <3>3. PICK n \in Nat : n = Len(words) /\ n > 1 BY <1>t, <2>2
    <3>4. Len(v) > 0 /\ 1 \in 1 .. Len(words) - 1 BY <3>2, <3>3
    <3>5. v # << >> BY <3>4
    <3>6. v[1] = words[2] BY <3>2, <3>4
    <3> QED BY <3>1, <3>2, <3>5, <3>6
  <2>5. ASSUME given # Unclear PROVE Pending(opts', words', given)
    <3>1. Pending(opts, words, given) BY <1>3, <2>2, <2>5
    <3>2. words[1] # "-m" BY <2>1, <2>2
    <3>3. Pending(opts, v, given) BY <1>t, <2>2, <2>4, <3>1, <3>2, PendingTail
    <3>4. v[1] # "-m"
      <4>1. CASE ~Doubtful(words)
        <5>1. 1 \in DOMAIN words /\ words[1] \in WithArgument \ {"-m"} BY <1>t, <2>1, <2>2
        <5>2. Plain(words, 1 + 1) BY <4>1, <5>1, Zenon DEF Doubtful
        <5>3. ~IsOption(words[2]) BY <5>2 DEF Plain
        <5> QED BY <2>4, <5>3 DEF IsOption, WithArgument
      <4>2. CASE NoModuleWord(words)
        <5>1. 2 \in DOMAIN words
          <6>1. PICK n \in Nat : n = Len(words) /\ n > 1 BY <1>t, <2>2
          <6> QED BY <1>t, <6>1
        <5>2. words[2] # "-m" BY <4>2, <5>1 DEF NoModuleWord
        <5> QED BY <2>4, <5>2
      <4> QED BY <3>1, <4>1, <4>2, Zenon DEF Pending
    <3>5. Pending(opts', Tail(v), given) BY <2>3, <2>4, <3>3, <3>4, PendingTail
    <3> QED BY <2>1, <2>4, <3>5
  <2> QED BY <1>2, <2>1, <2>2, <2>5 DEF Keep
<1>9. CASE ReadModules
  <2>1. phase = "options" /\ Keep BY <1>9 DEF ReadModules, AtOption
  <2>2. given # Unclear => Pending(opts', words', given) BY <1>1, <1>3, <1>9, <2>1, ReadModulesPending
  <2> QED BY <1>2, <2>1, <2>2 DEF Keep
<1>10. CASE ReadAttachedModule
  <2>1. phase = "options" /\ words # << >> /\ words[1] = "-ma" /\ Keep /\ words' = words
    BY <1>10, <1>t DEF ReadAttachedModule, AtOption
  <2>2. 1 \in DOMAIN words BY <1>t, <2>1
  <2>3. Doubtful(words) BY <2>1, <2>2, Zenon DEF Doubtful
  <2>4. ~NoModuleWord(words) BY <2>1, <2>2 DEF NoModuleWord
  <2>5. given = Unclear BY <1>3, <2>1, <2>3, <2>4, Zenon DEF Pending
  <2> QED BY <1>2, <2>1, <2>5 DEF Keep
<1>11. CASE Usage BY <1>4, <1>11 DEF Usage, Exit, AtOption, stream
<1>12. CASE Serve BY <1>4, <1>12 DEF Serve, Exit, AtOption, stream
<1>13. CASE Compare BY <1>4, <1>13 DEF Compare, Ready, stream
<1>14. CASE NoOperand BY <1>4, <1>14 DEF NoOperand, Ready, stream
<1>15. CASE DecodeArgument BY <1>4, <1>15 DEF DecodeArgument, Ready, stream
<1>16. CASE StartStream
  <2>1. phase = "options" /\ words = << >> /\ modules' = ModulesNew(opts) /\ phase' = "reading"
        /\ given' = given
    BY <1>16 DEF StartStream, Ready
  <2>2. given # Unclear => modules' = given BY <1>3, <2>1, ModulesAreGiven
  <2> QED BY <2>1, <2>2 DEF GivenInv
<1>17. CASE SkipEmptyLine BY <1>5, <1>17 DEF SkipEmptyLine, Reading
<1>18. CASE DecodeLine BY <1>5, <1>18 DEF DecodeLine, Reading
<1>19. CASE EndStream BY <1>5, <1>19 DEF EndStream
<1>20. CASE UNCHANGED cliVars
  <2>1. UNCHANGED <<phase, eof, stdin, opts, words, modules, given>> BY <1>20 DEF cliVars, source, stream
  <2>2. Doubtful(words)' = Doubtful(words) BY <2>1, DoubtfulSame
  <2>3. Pending(opts, words, given)' = Pending(opts, words, given) BY <2>1, <2>2, Zenon DEF Pending
  <2> QED BY <1>1, <2>1, <2>3 DEF GivenInv
<1> QED BY <1>1, <1>6, <1>7, <1>8, <1>9, <1>10, <1>11, <1>12, <1>13, <1>14, <1>15, <1>16, <1>17, <1>18,
           <1>19, <1>20 DEF CliNext

(***************************************************************************)
(* What the lines of a text are.                                           *)
(***************************************************************************)
LEMMA FrontIs ==
  ASSUME NEW R, NEW s \in Seq(R), NEW e \in R
  PROVE  Front(Append(s, e)) = s /\ Last(Append(s, e)) = e /\ Append(s, e) # << >>
<1>1. PICK n \in Nat : n = Len(s) OBVIOUS
<1>2. PICK x \in Seq(R) : x = Append(s, e) BY AppendProperties, Zenon
<1>3. Len(x) = n + 1 /\ (\A i \in 1 .. n : x[i] = s[i]) /\ x[n + 1] = e BY <1>1, <1>2
<1>4. Last(x) = e BY <1>3 DEF Last
<1>5. x # << >> BY <1>3
<1>6. PICK f : f = Front(x) OBVIOUS
<1>7. f = SubSeq(x, 1, n)
  <2>1. Len(x) - 1 = n BY <1>3
  <2> QED BY <1>6, <2>1 DEF Front
<1>8. f \in Seq(R) /\ Len(f) = n /\ \A i \in 1 .. n : f[i] = s[i]
  <2>1. n + 1 \in 1 .. Len(x) /\ (n + 1) - 1 = n BY <1>3
  <2>2. SubSeq(x, 1, n) \in Seq(R) /\ Len(SubSeq(x, 1, n)) = n
    <3>1. PICK k \in 1 .. Len(x) : k = n + 1 BY <2>1
    <3>2. SubSeq(x, 1, k - 1) \in Seq(R) /\ Len(SubSeq(x, 1, k - 1)) = k - 1 BY PrefixGrows
    <3> QED BY <2>1, <3>1, <3>2
  <2>3. \A i \in 1 .. n : SubSeq(x, 1, n)[i] = x[i] BY <1>3
  <2> QED BY <1>3, <1>7, <2>2, <2>3
<1>9. f = s BY <1>1, <1>8, SeqEqual
<1> QED BY <1>2, <1>4, <1>5, <1>6, <1>9

LEMMA BareIs ==
  ASSUME NEW s \in Seq(Chars)
  PROVE  /\ Bare(s) \in Seq(Chars)
         /\ (\A i \in 1 .. Len(s) : s[i] # CR) => Bare(s) = s
         /\ CR \in Chars => Bare(Append(s, CR)) = s
<1>1. PICK n \in Nat : n = Len(s) OBVIOUS
<1>2. CASE s = << >> BY <1>2, FrontIs, Zenon DEF Bare
<1>3. CASE s # << >>
  <2>1. n > 0 BY <1>1, <1>3
  <2>2. Front(s) \in Seq(Chars)
    <3>1. n \in 1 .. Len(s) BY <1>1, <2>1
    <3>2. SubSeq(s, 1, n - 1) \in Seq(Chars) BY <3>1, PrefixGrows
    <3> QED BY <1>1, <3>2 DEF Front
  <2>3. ASSUME \A i \in 1 .. Len(s) : s[i] # CR PROVE Last(s) # CR
    <3>1. n \in 1 .. Len(s) BY <1>1, <2>1
    <3>2. s[n] # CR BY <2>3, <3>1
    <3> QED BY <1>1, <3>2 DEF Last
  <2> QED BY <2>2, <2>3, FrontIs, Zenon DEF Bare
<1> QED BY <1>2, <1>3

(* What is behind a place.                                                 *)
LEMMA SplitAt ==
  ASSUME NEW R, NEW s \in Seq(R), NEW j \in 0 .. Len(s)
  PROVE  /\ SubSeq(s, 1, j) \in Seq(R) /\ SubSeq(s, j + 1, Len(s)) \in Seq(R)
         /\ SubSeq(s, 1, j) \o SubSeq(s, j + 1, Len(s)) = s
<1>1. PICK n \in Nat : n = Len(s) OBVIOUS
<1>2. PICK k \in Nat : k = j + 1 /\ k >= 1 /\ n >= k - 1 /\ n - k + 1 = n - j BY <1>1
<1>3. PICK a \in Seq(R) : a = SubSeq(s, 1, j) /\ Len(a) = j /\ \A i \in 1 .. j : a[i] = s[i]
  <2>1. SubSeq(s, 1, j) \in Seq(R) /\ Len(SubSeq(s, 1, j)) = j - 1 + 1
        /\ \A i \in 1 .. j - 1 + 1 : SubSeq(s, 1, j)[i] = s[1 + i - 1]
    <3>1. 1 \in Nat /\ j \in Nat /\ 1 >= 1 /\ j >= 1 - 1 /\ j <= Len(s) BY <1>1
    <3> QED BY ONLY <3>1, s \in Seq(R), PartIs
  <2>2. j - 1 + 1 = j /\ \A i \in 1 .. j : 1 + i - 1 = i OBVIOUS
  <2> QED BY <2>1, <2>2
<1>4. PICK b \in Seq(R) : b = SubSeq(s, k, n) /\ Len(b) = n - j /\ \A i \in 1 .. n - j : b[i] = s[j + i]
  <2>1. SubSeq(s, k, n) \in Seq(R) /\ Len(SubSeq(s, k, n)) = n - k + 1
        /\ \A i \in 1 .. n - k + 1 : SubSeq(s, k, n)[i] = s[k + i - 1]
    <3>1. n <= Len(s) BY <1>1
    <3> QED BY ONLY <1>2, <3>1, n \in Nat, s \in Seq(R), PartIs
  <2>2. \A i \in 1 .. n - j : k + i - 1 = j + i BY <1>2
  <2>3. PICK b \in Seq(R) : b = SubSeq(s, k, n) BY <2>1
  <2>4. Len(b) = n - j /\ \A i \in 1 .. n - j : b[i] = s[j + i] BY <1>2, <2>1, <2>2, <2>3
  <2> QED BY <2>3, <2>4
<1>5. PICK x \in Seq(R) : x = a \o b BY ConcatIs, Zenon
<1>6. Joined(x, a, b) BY <1>5, ConcatIs, Zenon
<1>7. Len(x) = j + (n - j) /\ (\A i \in 1 .. j : x[i] = a[i]) /\ \A i \in 1 .. n - j : x[j + i] = b[i]
  BY <1>3, <1>4, <1>6, Zenon DEF Joined
<1>8. ASSUME NEW i \in 1 .. n PROVE x[i] = s[i]
  <2>1. CASE i <= j BY <1>3, <1>7, <2>1
  <2>2. CASE i > j
    <3>1. i - j \in 1 .. n - j /\ j + (i - j) = i BY <2>2
    <3> QED BY <1>4, <1>7, <3>1
  <2> QED BY <2>1, <2>2
<1>9. x = s
  <2>1. Len(x) = n BY <1>1, <1>7
  <2> QED BY <1>1, <1>8, <2>1, SeqEqual
<1> QED BY <1>1, <1>2, <1>3, <1>4, <1>5, <1>9

(* The lines that were ended.                                              *)
Ended(text) ==
  [k \in DOMAIN CutBehind(text, {LF}).pieces |-> Bare(Front(CutBehind(text, {LF}).pieces[k]))]
WholeLines(text) == CutBehind(text, {LF}).rest = << >>

LEMMA LinesOfIs ==
  ASSUME NEW text \in Seq(Chars)
  PROVE  LinesOf(text) = Append(Ended(text), Bare(CutBehind(text, {LF}).rest))
<1>1. {i \in DOMAIN text : text[i] = LF} = {i \in DOMAIN text : text[i] \in {LF}} OBVIOUS
<1>2. CutAfter(text, {i \in DOMAIN text : text[i] = LF}) = CutBehind(text, {LF}) BY <1>1, Zenon DEF CutBehind
<1>3. PICK c : c = CutBehind(text, {LF}) OBVIOUS
<1> QED BY <1>2, <1>3, Zenon DEF LinesOf, Ended

LEMMA LineEnded ==
  ASSUME NEW text \in Seq(Chars), WholeLines(text), Ended(text) \in Seq(Seq(Chars)),
         NEW line \in Seq(Chars), NEW piece \in Seq(Chars), EndsOnce(piece, {LF}), Bare(Front(piece)) = line
  PROVE  WholeLines(text \o piece) /\ Ended(text \o piece) = Append(Ended(text), line)
<1>1. CutBehind(text \o piece, {LF}) = [pieces |-> Append(CutBehind(text, {LF}).pieces, piece), rest |-> << >>]
  BY PieceAdded, Zenon DEF WholeLines
<1>2. PICK p \in Seq(Seq(Chars)) : p = CutBehind(text, {LF}).pieces BY CutBehindIs
<1>3. PICK q \in Seq(Seq(Chars)) : q = Append(p, piece)
  <2>1. PICK T : T = Seq(Chars) OBVIOUS
  <2>2. p \in Seq(T) /\ piece \in T BY <2>1
  <2>3. Append(p, piece) \in Seq(T) BY <2>2, AppendProperties, Zenon
  <2> QED BY <2>1, <2>3
<1>4. CutBehind(text \o piece, {LF}).pieces = q /\ WholeLines(text \o piece)
  <2>1. PICK c : c = CutBehind(text \o piece, {LF}) OBVIOUS
  <2>2. c = [pieces |-> q, rest |-> << >>] BY <1>1, <1>2, <1>3, <2>1, Zenon
  <2>3. c.pieces = q /\ c.rest = << >> BY <2>2
  <2> QED BY <2>1, <2>3, Zenon DEF WholeLines
<1>5. PICK n \in Nat : n = Len(p) OBVIOUS
<1>6. Len(q) = n + 1 /\ (\A i \in 1 .. n : q[i] = p[i]) /\ q[n + 1] = piece BY <1>3, <1>5
<1>7. PICK e : e = Ended(text) OBVIOUS
<1>8. PICK d : d = Ended(text \o piece) OBVIOUS
<1>9. e = [k \in 1 .. n |-> Bare(Front(p[k]))]
  <2>1. DOMAIN p = 1 .. n BY <1>5
  <2>2. e = [k \in DOMAIN p |-> Bare(Front(p[k]))] BY <1>2, <1>7, Zenon DEF Ended
  <2> QED BY <2>1, <2>2
<1>10. d = [k \in 1 .. n + 1 |-> Bare(Front(q[k]))]
  <2>1. DOMAIN q = 1 .. n + 1 BY <1>6
  <2>2. d = [k \in DOMAIN q |-> Bare(Front(q[k]))] BY <1>4, <1>8, Zenon DEF Ended
  <2> QED BY <2>1, <2>2
<1>11. PICK a \in Seq(Seq(Chars)) : a = Append(e, line)
  <2>1. PICK T : T = Seq(Chars) OBVIOUS
  <2>2. e \in Seq(T) /\ line \in T BY <1>7, <2>1
  <2>3. Append(e, line) \in Seq(T) BY <2>2, AppendProperties, Zenon
  <2> QED BY <2>1, <2>3
<1>12. e \in Seq(Seq(Chars)) /\ Len(e) = n
  <2>1. DOMAIN e = 1 .. n BY <1>9
  <2> QED BY <1>7, <2>1
<1>13. Len(a) = n + 1 /\ (\A i \in 1 .. n : a[i] = e[i]) /\ a[n + 1] = line BY <1>11, <1>12
<1>14. \A i \in 1 .. n + 1 : a[i] = d[i]
  <2>1. SUFFICES ASSUME NEW i \in 1 .. n + 1 PROVE a[i] = d[i] OBVIOUS
  <2>2. CASE i = n + 1
    <3>1. d[i] = Bare(Front(piece)) BY <1>6, <1>10, <2>2
    <3> QED BY <1>13, <2>2, <3>1
  <2>3. CASE i # n + 1
    <3>1. i \in 1 .. n BY <2>3
    <3>2. d[i] = Bare(Front(p[i])) BY <1>6, <1>10, <3>1
    <3>3. a[i] = Bare(Front(p[i])) BY <1>9, <1>13, <3>1
    <3> QED BY <3>2, <3>3
  <2> QED BY <2>2, <2>3
<1>15. a = d
  <2>1. DOMAIN a = 1 .. n + 1 /\ DOMAIN d = 1 .. n + 1 BY <1>10, <1>13
  <2>2. a = [i \in 1 .. n + 1 |-> a[i]] BY <2>1
  <2> QED BY <1>10, <1>14, <2>1, <2>2
<1> QED BY <1>4, <1>7, <1>8, <1>11, <1>15

LEMMA EndedNothing == WholeLines(<< >>) /\ Ended(<< >>) = << >>
<1>1. CutBehind(<< >>, {LF}).pieces = << >> /\ CutBehind(<< >>, {LF}).rest = << >> BY CutBehindEmpty
<1>2. PICK p : p = << >> /\ p = CutBehind(<< >>, {LF}).pieces BY <1>1
<1>3. DOMAIN p = {} BY <1>2
<1>4. Ended(<< >>) = [k \in {} |-> Bare(Front(p[k]))] BY <1>2, <1>3, Zenon DEF Ended
<1>5. Ended(<< >>) = << >> BY <1>4
<1> QED BY <1>1, <1>5 DEF WholeLines

(* A text behind its last end of line.                                     *)
LEMMA RestEnded ==
  ASSUME NEW text \in Seq(Chars), WholeLines(text), NEW r \in Seq(Chars),
         \A i \in 1 .. Len(r) : r[i] # LF /\ r[i] # CR
  PROVE  LinesOf(text \o r) = Append(Ended(text), r)
<1>1. PICK x \in Seq(Chars) : x = text \o r BY ConcatIs, Zenon
<1>2. \A i \in 1 .. Len(r) : r[i] \notin {LF} OBVIOUS
<1>3. CutBehind(text \o r, {LF}) = [pieces |-> CutBehind(text, {LF}).pieces, rest |-> r]
  BY <1>2, RestAdded DEF WholeLines
<1>4. CutBehind(x, {LF}).pieces = CutBehind(text, {LF}).pieces /\ CutBehind(x, {LF}).rest = r
  <2>1. PICK c : c = CutBehind(x, {LF}) OBVIOUS
  <2>2. PICK p : p = CutBehind(text, {LF}).pieces OBVIOUS
  <2>3. c = [pieces |-> p, rest |-> r] BY <1>1, <1>3, <2>1, <2>2, Zenon
  <2>4. c.pieces = p /\ c.rest = r BY <2>3
  <2> QED BY <2>1, <2>2, <2>4, Zenon
<1>5. Ended(x) = Ended(text) BY <1>4, Zenon DEF Ended
<1>6. Bare(r) = r BY BareIs
<1>7. LinesOf(x) = Append(Ended(x), Bare(CutBehind(x, {LF}).rest)) BY LinesOfIs, Zenon
<1> QED BY <1>1, <1>4, <1>5, <1>6, <1>7, Zenon

(***************************************************************************)
(* How far a stream was read.                                              *)
(***************************************************************************)
LEMMA LastLine ==
  ASSUME rest \in Seq(Chars), LineEnd = {}, Advance
  PROVE  Line = rest /\ eof' /\ \A i \in 1 .. Len(rest) : rest[i] # LF /\ rest[i] # CR
<1>1. \A i \in 1 .. Len(rest) : i \notin LineEnd OBVIOUS
<1>2. \A i \in 1 .. Len(rest) : rest[i] # LF /\ rest[i] # CR BY <1>1 DEF LineEnd
<1> QED BY <1>2, LineIs DEF Advance, ReadsToEnd

LEMMA EndedLine ==
  ASSUME rest \in Seq(Chars), LineEnd # {}, Advance, NEW m, m = Len(Line)
  PROVE  /\ m \in Nat /\ m + 1 \in 1 .. Len(rest) /\ rest[m + 1] \in {LF, CR} /\ ~eof'
         /\ rest' = SubSeq(rest, m + 2, Len(rest))
         /\ \A i \in 1 .. m : Line[i] # LF /\ Line[i] # CR
         /\ SubSeq(rest, 1, m + 1) = Append(Line, rest[m + 1]) /\ Line \in Seq(Chars)
<1>1. /\ Line \in Seq(Chars) /\ m + 1 \in LineEnd /\ Line = SubSeq(rest, 1, m)
      /\ \A j \in LineEnd : m + 1 <= j
  BY LineIs
<1>2. PICK n \in Nat : n = Len(rest) OBVIOUS
<1>3. DOMAIN rest = 1 .. n /\ m \in Nat BY <1>1, <1>2
<1>4. m + 1 \in 1 .. n /\ rest[m + 1] \in {LF, CR} BY <1>1, <1>3 DEF LineEnd
<1>5. rest' = SubSeq(rest, m + 2, Len(rest)) /\ ~eof' BY DEF Advance, ReadsToEnd
<1>6. ASSUME NEW i \in 1 .. m PROVE Line[i] # LF /\ Line[i] # CR
  <2>1. i \in 1 .. n /\ ~(m + 1 <= i) BY <1>3, <1>4
  <2>2. i \notin LineEnd BY <1>1, <2>1
  <2>3. rest[i] # LF /\ rest[i] # CR BY <1>3, <2>1, <2>2 DEF LineEnd
  <2>4. Line[i] = rest[i]
    <3>1. 1 \in Nat /\ m \in Nat /\ 1 >= 1 /\ m >= 1 - 1 /\ m <= Len(rest) BY <1>2, <1>3, <1>4
    <3>2. \A k \in 1 .. m - 1 + 1 : SubSeq(rest, 1, m)[k] = rest[1 + k - 1]
      BY ONLY <3>1, rest \in Seq(Chars), PartIs
    <3>3. i \in 1 .. m - 1 + 1 /\ 1 + i - 1 = i BY <1>3
    <3> QED BY <1>1, <3>2, <3>3
  <2> QED BY <2>3, <2>4
<1>7. SubSeq(rest, 1, m + 1) = Append(Line, rest[m + 1])
  <2>1. PICK k \in 1 .. Len(rest) : k = m + 1 /\ k - 1 = m BY <1>2, <1>3, <1>4
  <2>2. SubSeq(rest, 1, k) = Append(SubSeq(rest, 1, k - 1), rest[k]) BY PrefixGrows
  <2> QED BY <1>1, <2>1, <2>2
<1> QED BY <1>1, <1>2, <1>3, <1>4, <1>5, <1>6, <1>7

LEMMA AppendEndsOnce ==
  ASSUME NEW R, NEW s \in Seq(R), NEW e \in R, \A i \in 1 .. Len(s) : s[i] # e
  PROVE  Append(s, e) \in Seq(R) /\ EndsOnce(Append(s, e), {e})
<1>1. PICK n \in Nat : n = Len(s) OBVIOUS
<1>2. PICK x \in Seq(R) : x = Append(s, e) BY AppendProperties, Zenon
<1>3. Len(x) = n + 1 /\ (\A i \in 1 .. n : x[i] = s[i]) /\ x[n + 1] = e BY <1>1, <1>2
<1>4. \A k \in 1 .. n + 1 : k \in 1 .. n \/ k = n + 1 OBVIOUS
<1>5. \A k \in 1 .. n + 1 : (x[k] \in {e}) <=> (k = n + 1) BY <1>1, <1>3, <1>4
<1>6. EndsOnce(x, {e}) BY <1>3, <1>5 DEF EndsOnce
<1> QED BY <1>2, <1>6

LEMMA AtNewline ==
  ASSUME rest \in Seq(Chars), LineEnd # {}, Advance, rest[Len(Line) + 1] = LF
  PROVE  \E piece \in Seq(Chars) :
           rest = piece \o rest' /\ rest' \in Seq(Chars) /\ EndsOnce(piece, {LF}) /\ Bare(Front(piece)) = Line
<1>1. PICK m : m = Len(Line) OBVIOUS
<1>2. /\ m \in Nat /\ m + 1 \in 1 .. Len(rest) /\ rest' = SubSeq(rest, m + 2, Len(rest))
      /\ (\A i \in 1 .. m : Line[i] # LF /\ Line[i] # CR)
      /\ SubSeq(rest, 1, m + 1) = Append(Line, rest[m + 1]) /\ Line \in Seq(Chars)
  BY <1>1, EndedLine
<1>3. PICK l \in Seq(Chars), c \in Chars : l = Line /\ c = LF
  <2>1. LF \in Chars BY <1>1, <1>2
  <2> QED BY <1>2, <2>1
<1>4. PICK piece : piece = Append(l, c) OBVIOUS
<1>5. piece = SubSeq(rest, 1, m + 1) BY <1>1, <1>2, <1>3, <1>4
<1>6. piece \in Seq(Chars) /\ EndsOnce(piece, {LF})
  <2>1. \A i \in 1 .. Len(l) : l[i] # c BY <1>1, <1>2, <1>3
  <2> QED BY <1>3, <1>4, <2>1, AppendEndsOnce
<1>7. Bare(Front(piece)) = Line
  <2>1. Front(piece) = l BY <1>4, FrontIs
  <2>2. \A i \in 1 .. Len(l) : l[i] # CR BY <1>1, <1>2, <1>3
  <2>3. Bare(l) = l BY <2>2, BareIs
  <2> QED BY <1>3, <2>1, <2>3
<1>8. rest = piece \o rest' /\ rest' \in Seq(Chars)
  <2>1. PICK j \in 0 .. Len(rest) : j = m + 1 /\ j + 1 = m + 2 BY <1>2
  <2>2. SubSeq(rest, j + 1, Len(rest)) \in Seq(Chars) /\ SubSeq(rest, 1, j) \o SubSeq(rest, j + 1, Len(rest)) = rest
    BY SplitAt
  <2> QED BY <1>2, <1>5, <2>1, <2>2
<1> QED BY <1>6, <1>7, <1>8

LEMMA AtReturn ==
  ASSUME rest \in Seq(Chars), LineEnd # {}, Advance, rest[Len(Line) + 1] = CR,
         Len(Line) + 2 <= Len(rest), rest[Len(Line) + 2] = LF
  PROVE  \E piece \in Seq(Chars), r \in Seq(Chars) :
           /\ rest = piece \o r /\ rest' = <<LF>> \o r
           /\ EndsOnce(piece, {LF}) /\ Bare(Front(piece)) = Line
<1>1. PICK m : m = Len(Line) OBVIOUS
<1>2. /\ m \in Nat /\ m + 1 \in 1 .. Len(rest) /\ rest' = SubSeq(rest, m + 2, Len(rest))
      /\ (\A i \in 1 .. m : Line[i] # LF /\ Line[i] # CR)
      /\ SubSeq(rest, 1, m + 1) = Append(Line, rest[m + 1]) /\ Line \in Seq(Chars)
  BY <1>1, EndedLine
<1>n. PICK n \in Nat : n = Len(rest) OBVIOUS
<1>9. m + 2 \in 1 .. Len(rest) BY <1>1, <1>2
<1>3. PICK l \in Seq(Chars), c \in Chars, d \in Chars : l = Line /\ c = LF /\ d = CR
  <2>1. CR \in Chars BY <1>1, <1>2
  <2>2. LF \in Chars BY <1>1, <1>9
  <2> QED BY <1>2, <2>1, <2>2
<1>4. PICK f \in Seq(Chars) : f = Append(l, d) BY AppendProperties, Zenon
<1>5. PICK piece : piece = Append(f, c) OBVIOUS
<1>6. piece = SubSeq(rest, 1, m + 2)
  <2>1. PICK k \in 1 .. Len(rest) : k = m + 2 /\ k - 1 = m + 1 BY <1>2, <1>9
  <2>2. SubSeq(rest, 1, k) = Append(SubSeq(rest, 1, k - 1), rest[k]) BY PrefixGrows
  <2> QED BY <1>1, <1>2, <1>3, <1>4, <1>5, <2>1, <2>2
<1>7. piece \in Seq(Chars) /\ EndsOnce(piece, {LF})
  <2>1. Len(f) = m + 1 /\ (\A i \in 1 .. m : f[i] = l[i]) /\ f[m + 1] = d BY <1>1, <1>2, <1>3, <1>4
  <2>2. \A i \in 1 .. m + 1 : i \in 1 .. m \/ i = m + 1 BY <1>2
  <2>3. \A i \in 1 .. m : l[i] # LF BY <1>2, <1>3
  <2>4. d # c BY <1>3 DEF LF, CR
  <2>5. \A i \in 1 .. Len(f) : f[i] # c BY <1>3, <2>1, <2>2, <2>3, <2>4
  <2> QED BY <1>3, <1>5, <2>5, AppendEndsOnce
<1>8. Bare(Front(piece)) = Line
  <2>1. Front(piece) = f BY <1>5, FrontIs
  <2>2. Bare(f) = l BY <1>3, <1>4, BareIs
  <2> QED BY <1>3, <2>1, <2>2
<1>10. PICK r \in Seq(Chars) : r = SubSeq(rest, (m + 2) + 1, Len(rest)) /\ rest = piece \o r
  <2>1. PICK j \in 0 .. Len(rest) : j = m + 2 BY <1>9
  <2>2. SubSeq(rest, j + 1, Len(rest)) \in Seq(Chars) /\ SubSeq(rest, 1, j) \o SubSeq(rest, j + 1, Len(rest)) = rest
    BY SplitAt
  <2> QED BY <1>6, <2>1, <2>2
<1>11. rest' = <<LF>> \o r
  <2>11. m \in Nat BY <1>2
  <2>1. PICK a \in Nat, b \in Nat : a = m + 2 /\ b = m + 3 BY <2>11
  <2>0. /\ a \in Nat /\ b \in Nat /\ n \in Nat /\ a >= 1 /\ n >= a - 1 /\ n <= Len(rest) /\ a \in 1 .. n
        /\ b >= 1 /\ n >= b - 1 /\ b = a + 1
    BY ONLY <2>11, n \in Nat, <1>9, <1>n, <2>1
  <2>2. PICK x \in Seq(Chars) : x = SubSeq(rest, a, n)
    <3>1. SubSeq(rest, a, n) \in Seq(Chars) BY ONLY <2>0, rest \in Seq(Chars), PartIs
    <3> QED BY <3>1
  <2>3. Len(x) = n - a + 1 /\ \A i \in 1 .. n - a + 1 : x[i] = rest[a + i - 1]
    BY ONLY <2>2, <2>0, rest \in Seq(Chars), PartIs
  <2>10. r = SubSeq(rest, b, n)
    <3>1. b = (m + 2) + 1 BY ONLY <2>11, <2>1
    <3> QED BY <1>10, <1>n, <3>1, Zenon
  <2>4. Len(r) = n - b + 1 /\ \A i \in 1 .. n - b + 1 : r[i] = rest[b + i - 1]
    BY ONLY <2>10, <2>0, rest \in Seq(Chars), PartIs
  <2>5. PICK y \in Seq(Chars) : y = <<LF>> \o r
    <3>1. <<LF>> \in Seq(Chars) BY <1>3
    <3> QED BY <3>1, ConcatIs
  <2>6. Len(y) = 1 + Len(r) /\ y[1] = LF /\ \A i \in 1 .. Len(r) : y[1 + i] = r[i]
    <3>1. PICK h \in Seq(Chars) : h = <<LF>> /\ Len(h) = 1 /\ h[1] = LF
      <4>1. <<c>> \in Seq(Chars) /\ Len(<<c>>) = 1 /\ <<c>>[1] = c OBVIOUS
      <4> QED BY <1>3, <4>1
    <3>2. Joined(y, h, r) BY <2>5, <3>1, ConcatIs
    <3> QED BY <3>1, <3>2 DEF Joined
  <2>7. Len(x) = Len(y) /\ Len(x) = n - a + 1
    <3>1. n - a + 1 = 1 + (n - b + 1) BY ONLY <2>0
    <3> QED BY <2>3, <2>4, <2>6, <3>1
  <2>8. ASSUME NEW i \in 1 .. n - a + 1 PROVE x[i] = y[i]
    <3>1. CASE i = 1
      <4>1. a + 1 - 1 = a /\ rest[a] = LF BY <1>1, <2>0, <2>1
      <4> QED BY <2>3, <2>6, <3>1, <4>1
    <3>2. CASE i # 1
      <4>1. PICK k \in 1 .. n - b + 1 : i = 1 + k
        <5>1. i - 1 \in 1 .. n - b + 1 /\ i = 1 + (i - 1) BY ONLY <2>0, <3>2, i \in 1 .. n - a + 1, n \in Nat
        <5> QED BY <5>1
      <4>2. k \in 1 .. Len(r) /\ b + k - 1 = a + i - 1
        <5>1. k \in 1 .. n - b + 1 /\ b + k - 1 = a + i - 1 BY ONLY <2>0, <4>1, k \in 1 .. n - b + 1
        <5> QED BY <2>4, <5>1
      <4> QED BY <2>3, <2>4, <2>6, <4>1, <4>2
    <3> QED BY <3>1, <3>2
  <2>9. x = y BY <2>7, <2>8, SeqEqual
  <2> QED BY <1>2, <1>n, <2>1, <2>2, <2>5, <2>9
<1> QED BY <1>7, <1>8, <1>10, <1>11

(* The LF of a CR LF is still to be read.                                  *)
Remains(left, r, e) == left = r \/ (~e /\ left = <<LF>> \o r)
Grown(D, line, e) == IF line # << >> \/ e THEN Append(D, line) ELSE D
Wants(e) == {l \in Seq(Chars) : l # << >> \/ e}
Reached(D, text, e, left, seen, r) ==
  /\ WholeLines(seen) /\ Ended(seen) \in Seq(Seq(Chars)) /\ D = Those(Ended(seen), Wants(e)) /\ text = seen \o r
  /\ Remains(left, r, e)

(* D is what was decoded of a text, while it is read and when it is over.  *)
Progress(D, text, e, left, over) ==
  /\ over => D = Those(LinesOf(text), Wants(e))
  /\ ~over => \E seen \in Seq(Chars), r \in Seq(Chars) : Reached(D, text, e, left, seen, r)

LEMMA ProgressStarts ==
  ASSUME NEW text \in Seq(Chars), NEW e
  PROVE  Progress(<< >>, text, e, text, FALSE)
<1>1. PICK seen \in Seq(Chars) : seen = << >> BY EmptySeq, Zenon
<1>2. WholeLines(seen) /\ Ended(seen) = << >> BY <1>1, EndedNothing
<1>3. << >> \in Seq(Seq(Chars)) BY EmptySeq, Zenon
<1>4. Those(<< >>, Wants(e)) = << >> BY ThoseEmpty, Zenon
<1>5. text = seen \o text /\ Remains(text, text, e)
  <2>1. << >> \o text = text BY ConcatEmptySeq, Zenon
  <2> QED BY <1>1, <2>1 DEF Remains
<1>7. Ended(seen) \in Seq(Seq(Chars)) /\ << >> = Those(Ended(seen), Wants(e)) BY <1>2, <1>3, <1>4, Zenon
<1>6. Reached(<< >>, text, e, text, seen, text) BY <1>2, <1>5, <1>7, Zenon DEF Reached
<1> QED BY <1>6, Zenon DEF Progress

LEMMA ConcatThree ==
  ASSUME NEW R, NEW s \in Seq(R), NEW t \in Seq(R), NEW u \in Seq(R)
  PROVE  s \o (t \o u) = (s \o t) \o u
BY ConcatAssociative

LEMMA OneMoreWanted ==
  ASSUME NEW d \in Seq(Seq(Chars)), NEW l \in Seq(Chars), NEW e
  PROVE  /\ Append(d, l) \in Seq(Seq(Chars))
         /\ Those(Append(d, l), Wants(e)) = Grown(Those(d, Wants(e)), l, e)
<1>1. PICK T : T = Seq(Chars) OBVIOUS
<1>2. d \in Seq(T) /\ l \in T BY <1>1
<1>3. Append(d, l) \in Seq(T) BY <1>2, AppendProperties, Zenon
<1>4. Those(Append(d, l), Wants(e)) = IF l \in Wants(e) THEN Append(Those(d, Wants(e)), l) ELSE Those(d, Wants(e))
  BY <1>2, ThoseOneMore, Zenon
<1>5. l \in Wants(e) <=> (l # << >> \/ e) BY Zenon DEF Wants
<1> QED BY <1>1, <1>3, <1>4, <1>5, Zenon DEF Grown

(* A line that ends at the end of a piece.                                 *)
LEMMA PieceRead ==
  ASSUME NEW seen \in Seq(Chars), NEW r \in Seq(Chars), NEW D, NEW e, NEW text,
         Reached(D, text, e, r, seen, r),
         NEW piece \in Seq(Chars), NEW q \in Seq(Chars), r = piece \o q, EndsOnce(piece, {LF}),
         NEW line \in Seq(Chars), Bare(Front(piece)) = line,
         NEW left, Remains(left, q, e)
  PROVE  Reached(Grown(D, line, e), text, e, left, seen \o piece, q)
<1>1. WholeLines(seen) /\ Ended(seen) \in Seq(Seq(Chars)) /\ D = Those(Ended(seen), Wants(e)) /\ text = seen \o r
  BY Zenon DEF Reached
<1>2. WholeLines(seen \o piece) /\ Ended(seen \o piece) = Append(Ended(seen), line) BY <1>1, LineEnded, Zenon
<1>3. PICK d \in Seq(Seq(Chars)) : d = Ended(seen) BY <1>1
<1>4. Append(d, line) \in Seq(Seq(Chars)) BY <1>3, OneMoreWanted, Zenon
<1>6. Those(Append(d, line), Wants(e)) = Grown(Those(d, Wants(e)), line, e)
  BY <1>3, OneMoreWanted, Zenon
<1>5. text = (seen \o piece) \o q
  <2>1. seen \o (piece \o q) = (seen \o piece) \o q BY ONLY seen \in Seq(Chars), piece \in Seq(Chars), q \in Seq(Chars), ConcatThree
  <2> QED BY <1>1, <2>1
<1>7. Those(Ended(seen \o piece), Wants(e)) = Grown(D, line, e) BY <1>1, <1>2, <1>3, <1>6, Zenon
<1>8. Ended(seen \o piece) \in Seq(Seq(Chars)) BY <1>2, <1>3, <1>4
<1> QED BY <1>2, <1>5, <1>7, <1>8, Zenon DEF Reached

LEMMA ProgressStep ==
  ASSUME CliType, RegularStream, Advance, ~eof,
         NEW D, Progress(D, input, opts.empty_lines_processed, rest, eof)
  PROVE  Progress(Grown(D, Line, opts.empty_lines_processed), input, opts.empty_lines_processed, rest', eof')
<1>t. rest \in Seq(Chars) /\ input \in Seq(Chars) /\ opts.empty_lines_processed \in BOOLEAN
  BY DEF CliType, OptsSet
<1>1. PICK e \in BOOLEAN : e = opts.empty_lines_processed BY <1>t
<1>2. PICK seen \in Seq(Chars), r \in Seq(Chars) : Reached(D, input, e, rest, seen, r)
  BY <1>1, Zenon DEF Progress
<1>3. /\ WholeLines(seen) /\ Ended(seen) \in Seq(Seq(Chars)) /\ D = Those(Ended(seen), Wants(e))
      /\ input = seen \o r /\ (rest = r \/ (~e /\ rest = <<LF>> \o r))
      /\ Remains(rest, r, e)
  BY <1>2, Zenon DEF Reached, Remains
<1>4. PICK l \in Seq(Chars) : l = Line BY <1>t, LineIs
<1>5. PICK E : E = Grown(D, l, e) OBVIOUS
<1>6. SUFFICES Progress(E, input, e, rest', eof') BY <1>1, <1>4, <1>5, Zenon
<1>7. ASSUME eof', E = Those(LinesOf(input), Wants(e)) PROVE Progress(E, input, e, rest', eof')
  BY <1>7, Zenon DEF Progress
<1>8. ASSUME NEW s \in Seq(Chars), NEW q \in Seq(Chars), ~eof', Reached(E, input, e, rest', s, q)
      PROVE  Progress(E, input, e, rest', eof')
  BY <1>8, Zenon DEF Progress
<1>9. CASE rest = r /\ LineEnd = {}
  <2>1. l = r /\ eof' /\ \A i \in 1 .. Len(r) : r[i] # LF /\ r[i] # CR BY <1>t, <1>4, <1>9, LastLine
  <2>2. LinesOf(seen \o r) = Append(Ended(seen), r) BY <1>3, <2>1, RestEnded
  <2>3. PICK d \in Seq(Seq(Chars)) : d = Ended(seen) BY <1>3
  <2>4. Those(Append(d, r), Wants(e)) = Grown(Those(d, Wants(e)), r, e)
    BY OneMoreWanted, Zenon
  <2>5. E = Those(LinesOf(input), Wants(e)) BY <1>3, <1>5, <2>1, <2>2, <2>3, <2>4, Zenon
  <2> QED BY <1>7, <2>1, <2>5
<1>10. CASE rest = r /\ LineEnd # {}
  <2>0. PICK m \in Nat : /\ m = Len(Line) /\ m + 1 \in 1 .. Len(rest) /\ rest[m + 1] \in {LF, CR} /\ ~eof'
    BY <1>t, <1>10, EndedLine
  <2>1. CASE rest[m + 1] = LF
    <3>1. PICK piece \in Seq(Chars) :
            rest = piece \o rest' /\ rest' \in Seq(Chars) /\ EndsOnce(piece, {LF}) /\ Bare(Front(piece)) = Line
      BY <1>t, <1>10, <2>0, <2>1, AtNewline
    <3>2. PICK q \in Seq(Chars) : q = rest' BY <3>1
    <3>3. Reached(D, input, e, r, seen, r) BY <1>2, <1>10
    <3>4. r = piece \o q /\ Bare(Front(piece)) = l BY <1>4, <1>10, <3>1, <3>2
    <3>7. Remains(q, q, e) BY Zenon DEF Remains
    <3>5. Reached(E, input, e, q, seen \o piece, q) BY <1>1, <1>5, <3>1, <3>3, <3>4, <3>7, PieceRead, Zenon
    <3>6. seen \o piece \in Seq(Chars) BY <3>1, ConcatIs, Zenon
    <3> QED BY <1>8, <2>0, <3>2, <3>5, <3>6
  <2>2. CASE rest[m + 1] = CR
    <3>1. ~e /\ m + 2 <= Len(rest) /\ rest[m + 2] = LF
      <4>1. Joined(input, seen, r) BY <1>3, ConcatIs
      <4>2. PICK a \in Nat, n \in Nat : a = Len(seen) /\ n = Len(r) OBVIOUS
      <4>3. Len(input) = a + n /\ \A i \in 1 .. n : input[a + i] = r[i] BY <4>1, <4>2 DEF Joined
      <4>4. m + 1 \in 1 .. n BY <1>10, <2>0, <4>2
      <4>5. input[a + (m + 1)] = CR BY <1>10, <2>2, <4>3, <4>4
      <4>6. PICK i : i = a + (m + 1) /\ i \in 1 .. a + n BY <4>4
      <4>7. i \in DOMAIN input BY <1>t, <4>3, <4>6
      <4>8. i < Len(input) /\ input[i + 1] = LF BY <4>5, <4>6, <4>7 DEF RegularStream
      <4>9. ~e BY <1>1, <4>5, <4>6, <4>7 DEF RegularStream
      <4>10. m + 2 \in 1 .. n /\ i + 1 = a + (m + 2)
        <5>1. a + (m + 1) < a + n BY <4>3, <4>6, <4>8
        <5> QED BY ONLY <5>1, <4>6, m \in Nat, a \in Nat, n \in Nat
      <4>11. r[m + 2] = LF BY <4>3, <4>8, <4>10
      <4> QED BY <1>10, <4>2, <4>9, <4>10, <4>11
    <3>2. PICK piece \in Seq(Chars), q \in Seq(Chars) :
            /\ rest = piece \o q /\ rest' = <<LF>> \o q
            /\ EndsOnce(piece, {LF}) /\ Bare(Front(piece)) = Line
      BY <1>t, <1>10, <2>0, <2>2, <3>1, AtReturn
    <3>3. Reached(D, input, e, r, seen, r) BY <1>2, <1>10
    <3>4. r = piece \o q /\ Bare(Front(piece)) = l BY <1>4, <1>10, <3>2
    <3>5. PICK left : left = rest' OBVIOUS
    <3>6. Remains(left, q, e) BY <3>1, <3>2, <3>5 DEF Remains
    <3>7. Reached(E, input, e, left, seen \o piece, q) BY <1>1, <1>5, <3>2, <3>3, <3>4, <3>6, PieceRead, Zenon
    <3>8. seen \o piece \in Seq(Chars) BY <3>2, ConcatIs, Zenon
    <3> QED BY <1>8, <2>0, <3>5, <3>7, <3>8
  <2> QED BY <2>0, <2>1, <2>2
<1>11. CASE ~e /\ rest = <<LF>> \o r
  <2>1. Len(rest) = 1 + Len(r) /\ rest[1] = LF
    <3>1. LF \in Chars \/ LF \notin Chars OBVIOUS
    <3> QED BY <1>11
  <2>2. PICK n \in Nat : n = Len(rest) /\ n >= 1 BY <1>t, <2>1
  <2>3. 1 \in LineEnd BY <1>t, <2>1, <2>2 DEF LineEnd
  <2>4. Len(Line) = 0
    <3>1. Len(Line) + 1 <= 1 BY <1>t, <2>3, LineIs
    <3>2. PICK m \in Nat : m = Len(Line) BY <1>4
    <3> QED BY <3>1, <3>2
  <2>5. l = << >> BY <1>4, <2>4
  <2>6. E = D BY <1>5, <1>11, <2>5 DEF Grown
  <2>7. LineEnd # {} BY <2>3
  <2>9. ~eof' /\ rest' = SubSeq(rest, 2, Len(rest))
    <3>1. PICK m : m = Len(Line) /\ m = 0 BY <2>4
    <3>2. rest' = SubSeq(rest, m + 2, Len(rest)) /\ ~eof' BY <1>t, <2>7, <3>1, EndedLine
    <3>3. m + 2 = 2 BY <3>1
    <3> QED BY <3>2, <3>3
  <2>10. rest' = r
    <3>1. r = Tail(rest) BY <1>11
    <3> QED BY <2>9, <3>1 DEF Tail
  <2>11. Remains(rest', r, e) BY <2>10 DEF Remains
  <2>12. PICK left : left = rest' OBVIOUS
  <2>13. Reached(E, input, e, left, seen, r) BY <1>3, <2>6, <2>11, <2>12, Zenon DEF Reached
  <2> QED BY <1>8, <2>9, <2>12, <2>13
<1> QED BY <1>3, <1>9, <1>10, <1>11

(***************************************************************************)
(* One row and one element of the snapshot for each line that was decoded. *)
(***************************************************************************)
RowFor(o, row, ms, l, k) ==
  /\ Of(row) = UrlOutput(ms, Decoded(ms, l))
  /\ o.output = "csv" /\ o.print_line => row[1].of = k
RowsFor(o, rs, ms, D) == Len(rs) = Len(D) /\ \A k \in 1 .. Len(D) : RowFor(o, rs[k], ms, D[k], k)
Shots(sn, ms, D) ==
  sn \in Seq(Urls) /\ Len(sn) = Len(D) /\ \A k \in 1 .. Len(D) : sn[k] = Decoded(ms, D[k])
Prints(o) == Selects(o) /\ ~o.quiet /\ o.output # "module"

Streamed(D) ==
  /\ D \in Seq(Seq(Chars)) /\ opts.current_line = Len(D) + 1 /\ opts.input_source # "argument"
  /\ Prints(opts) => RowsFor(opts, RowsOut(opts, out), modules, D)
  /\ opts.snapshot_name => Shots(snapshot, modules, D)
  /\ written => opts.snapshot_name
  /\ RegularStream => Progress(D, input, opts.empty_lines_processed, rest, eof)

StreamInv ==
  /\ phase = "options" => opts.current_line = 1 /\ snapshot = << >> /\ ~written
  /\ phase = "reading" \/ eof => \E D : Streamed(D)

LEMMA Appended ==
  ASSUME NEW T, NEW s \in Seq(T), NEW e \in T, NEW n \in Nat, n = Len(s), NEW x, x = Append(s, e)
  PROVE  x \in Seq(T) /\ Len(x) = n + 1 /\ (\A k \in 1 .. n : x[k] = s[k]) /\ x[n + 1] = e
OBVIOUS

LEMMA RowsForGrows ==
  ASSUME NEW T, NEW rs \in Seq(T), NEW row \in T, NEW D \in Seq(Seq(Chars)), NEW l \in Seq(Chars),
         NEW o, NEW p, SameView(o, p), NEW ms, RowsFor(o, rs, ms, D), RowFor(o, row, ms, l, Len(D) + 1)
  PROVE  RowsFor(p, Append(rs, row), ms, Append(D, l))
<1>1. PICK n \in Nat : n = Len(D) OBVIOUS
<1>2. Len(rs) = n /\ \A k \in 1 .. n : RowFor(o, rs[k], ms, D[k], k) BY <1>1, Zenon DEF RowsFor
<1>3. PICK x : x = Append(rs, row) OBVIOUS
<1>4. PICK y : y = Append(D, l) OBVIOUS
<1>5. Len(x) = n + 1 /\ (\A k \in 1 .. n : x[k] = rs[k]) /\ x[n + 1] = row BY <1>2, <1>3, Appended
<1>6. Len(y) = n + 1 /\ (\A k \in 1 .. n : y[k] = D[k]) /\ y[n + 1] = l
  <2>1. PICK S : S = Seq(Chars) OBVIOUS
  <2>2. D \in Seq(S) /\ l \in S BY <2>1
  <2> QED BY <1>1, <1>4, <2>2, Appended
<1>7. \A row_, l_, k : RowFor(o, row_, ms, l_, k) => RowFor(p, row_, ms, l_, k)
  BY Zenon DEF SameView, RowFor
<1>8. ASSUME NEW k \in 1 .. n + 1 PROVE RowFor(p, x[k], ms, y[k], k)
  <2>1. CASE k = n + 1
    <3>1. RowFor(o, row, ms, l, n + 1) BY <1>1
    <3>2. RowFor(p, row, ms, l, n + 1) BY <1>7, <3>1, Zenon
    <3> QED BY <1>5, <1>6, <2>1, <3>2
  <2>2. CASE k # n + 1
    <3>1. k \in 1 .. n BY <2>2
    <3>2. RowFor(o, rs[k], ms, D[k], k) BY <1>2, <3>1
    <3>3. RowFor(p, rs[k], ms, D[k], k) BY <1>7, <3>2, Zenon
    <3>4. x[k] = rs[k] /\ y[k] = D[k] BY <1>5, <1>6, <3>1
    <3> QED BY <3>3, <3>4
  <2> QED BY <2>1, <2>2
<1>9. Len(x) = Len(y) /\ \A k \in 1 .. Len(y) : RowFor(p, x[k], ms, y[k], k) BY <1>5, <1>6, <1>8
<1> QED BY <1>3, <1>4, <1>9, Zenon DEF RowsFor

LEMMA ShotsGrow ==
  ASSUME NEW sn, NEW D \in Seq(Seq(Chars)), NEW l \in Seq(Chars), NEW ms \in Seq(ModuleNames),
         Shots(sn, ms, D)
  PROVE  Shots(Append(sn, Decoded(ms, l)), ms, Append(D, l))
<1>1. PICK n \in Nat : n = Len(D) OBVIOUS
<1>2. sn \in Seq(Urls) /\ Len(sn) = n /\ \A k \in 1 .. n : sn[k] = Decoded(ms, D[k])
  BY <1>1, Zenon DEF Shots
<1>3. PICK u \in Urls : u = Decoded(ms, l)
  <2>1. l \in Texts BY DEF Texts
  <2> QED BY <2>1, DecodedIs
<1>4. PICK x : x = Append(sn, u) OBVIOUS
<1>5. PICK y : y = Append(D, l) OBVIOUS
<1>6. x \in Seq(Urls) /\ Len(x) = n + 1 /\ (\A k \in 1 .. n : x[k] = sn[k]) /\ x[n + 1] = u
  <2>1. PICK S : S = Urls OBVIOUS
  <2>2. sn \in Seq(S) /\ u \in S BY <1>2, <1>3, <2>1
  <2>3. x \in Seq(S) /\ Len(x) = n + 1 /\ (\A k \in 1 .. n : x[k] = sn[k]) /\ x[n + 1] = u
    BY <1>2, <1>4, <2>2, Appended
  <2> QED BY <2>1, <2>3
<1>7. Len(y) = n + 1 /\ (\A k \in 1 .. n : y[k] = D[k]) /\ y[n + 1] = l
  <2>1. PICK S : S = Seq(Chars) OBVIOUS
  <2>2. D \in Seq(S) /\ l \in S BY <2>1
  <2> QED BY <1>1, <1>5, <2>2, Appended
<1>8. ASSUME NEW k \in 1 .. n + 1 PROVE x[k] = Decoded(ms, y[k])
  <2>1. CASE k = n + 1 BY <1>3, <1>6, <1>7, <2>1
  <2>2. CASE k # n + 1
    <3>1. k \in 1 .. n BY <2>2
    <3>2. x[k] = sn[k] /\ y[k] = D[k] /\ sn[k] = Decoded(ms, D[k]) BY <1>2, <1>6, <1>7, <3>1
    <3> QED BY <3>2
  <2> QED BY <2>1, <2>2
<1>9. Len(x) = Len(y) /\ \A k \in 1 .. Len(y) : x[k] = Decoded(ms, y[k]) BY <1>6, <1>7, <1>8
<1> QED BY <1>3, <1>4, <1>5, <1>6, <1>9, Zenon DEF Shots

LEMMA RegularSame ==
  ASSUME opts'.empty_lines_processed = opts.empty_lines_processed, input' = input
  PROVE  RegularStream' <=> RegularStream
BY Zenon DEF RegularStream

LEMMA StreamInit == CliInit => StreamInv
BY DEF CliInit, Defaults, StreamInv

LEMMA DecodeLineStreamed ==
  ASSUME CliType, RowsInv, DecodeLine, NEW D, Streamed(D), NEW E, E = Append(D, Line)
  PROVE  Streamed(E)'
<1>t. /\ opts \in OptsSet /\ Numbered(opts) /\ modules \in Seq(ModuleNames) /\ Line \in Seq(Chars)
      /\ opts.empty_lines_processed \in BOOLEAN
  BY LineIs DEF CliType, OptsSet
<1>0. PICK l \in Seq(Chars) : l = Line BY <1>t
<1>1. /\ D \in Seq(Seq(Chars)) /\ opts.current_line = Len(D) + 1 /\ opts.input_source # "argument"
      /\ Prints(opts) => RowsFor(opts, RowsOut(opts, out), modules, D)
      /\ opts.snapshot_name => Shots(snapshot, modules, D)
      /\ written => opts.snapshot_name
      /\ RegularStream => Progress(D, input, opts.empty_lines_processed, rest, eof)
  BY Zenon DEF Streamed
<1>2. /\ SameView(opts, opts') /\ Selects(opts) = Selects(opts') /\ opts'.quiet = opts.quiet
      /\ opts'.current_line = opts.current_line + 1
      /\ opts'.empty_lines_processed = opts.empty_lines_processed
      /\ opts'.snapshot_name = opts.snapshot_name
      /\ opts'.input_source = opts.input_source
  BY DecodeLineOpts
<1>3. /\ ~eof /\ (l # << >> \/ opts.empty_lines_processed) /\ Advance
      /\ out' = out \o Printed(modules, opts, l)
      /\ snapshot' = IF opts.snapshot_name THEN Append(snapshot, Decoded(modules, l)) ELSE snapshot
      /\ modules' = modules /\ written' = written /\ input' = input
  BY <1>0 DEF DecodeLine, Reading, source
<1>4. E \in Seq(Seq(Chars)) /\ E = Append(D, l) /\ Len(E) = Len(D) + 1
  <2>1. PICK S : S = Seq(Chars) OBVIOUS
  <2>2. D \in Seq(S) /\ l \in S BY <1>1, <2>1
  <2>3. PICK n \in Nat : n = Len(D) BY <1>1
  <2>4. Append(D, l) \in Seq(S) /\ Len(Append(D, l)) = n + 1 BY <2>2, <2>3, Appended
  <2> QED BY <1>0, <2>1, <2>3, <2>4
<1>5. ASSUME Prints(opts') PROVE RowsFor(opts', RowsOut(opts', out'), modules, E)
  <2>1. Prints(opts) BY <1>2, <1>5 DEF Prints, SameView
  <2>2. Selects(opts) /\ ~opts.quiet /\ opts.output # "module" BY <2>1 DEF Prints
  <2>3. GoodOut(opts, out) BY <2>2 DEF RowsInv
  <2>4. PICK o \in OptsSet, ms \in Seq(ModuleNames), w \in Texts : o = opts /\ ms = modules /\ w = l
    BY <1>t DEF Texts
  <2>5. PICK x : x = out \o Printed(ms, o, w) OBVIOUS
  <2>0. Selects(o) /\ Numbered(o) /\ GoodOut(o, out) BY <1>t, <2>2, <2>3, <2>4
  <2>6. GoodOut(o, x) BY <2>0, <2>4, <2>5, PrintedAdded
  <2>7. PICK row : /\ RowAbout(o, row, UrlOutput(ms, Decoded(ms, w)))
                   /\ RowsOut(o, x) = Append(RowsOut(o, out), row)
    <3>1. ~o.quiet /\ o.output # "module" BY <2>2, <2>4
    <3>2. RowAdded(o, UrlOutput(ms, Decoded(ms, w)), RowsOut(o, out), RowsOut(o, x))
      BY <2>0, <2>4, <2>5, <3>1, PrintedAdded
    <3> QED BY <3>2 DEF RowAdded
  <2>8. x = out' BY <1>3, <2>4, <2>5
  <2>9. RowsOut(opts', x) = RowsOut(o, x) BY <1>2, <2>4, <2>6, GoodSame
  <2>10. RowFor(o, row, ms, l, Len(D) + 1)
    <3>1. LineNumber(o) = Len(D) + 1 BY <1>1, <2>4 DEF LineNumber
    <3> QED BY <2>4, <2>7, <3>1 DEF RowAbout, RowFor
  <2>11. RowsOut(o, out) \in Seq(Seq(AnyCell))
    <3>1. PICK s \in Seq(AnyCell) : s = Those(out, AnyCell) BY <2>3 DEF GoodOut, GoodShown
    <3>2. PICK S : S = Seq(AnyCell) OBVIOUS
    <3>3. PICK q \in Seq(S) : q = CutBehind(s, Ending(o.output)).pieces BY <3>2, CutBehindIs
    <3>4. Those(q, RowSet) \in Seq(S) BY <3>3, ThoseIsSeq, Zenon
    <3>5. RowsOut(o, out) = Those(q, RowSet) BY <3>1, <3>3, Zenon DEF RowsOut, RowsIn
    <3> QED BY <3>2, <3>4, <3>5
  <2>12. row \in Seq(AnyCell) BY <2>7 DEF RowAbout
  <2>13. RowsFor(opts', Append(RowsOut(o, out), row), ms, Append(D, l))
    <3>1. PICK S : S = Seq(AnyCell) OBVIOUS
    <3>2. PICK rs \in Seq(S) : rs = RowsOut(o, out) BY <2>11, <3>1
    <3>3. row \in S BY <2>12, <3>1
    <3>4. RowsFor(o, rs, ms, D) BY <1>1, <2>1, <2>4, <3>2
    <3>5. SameView(o, opts') BY <1>2, <2>4
    <3>6. PICK p : p = opts' OBVIOUS
    <3>7. RowsFor(p, Append(rs, row), ms, Append(D, l))
      BY <1>1, <2>10, <3>3, <3>4, <3>5, <3>6, RowsForGrows
    <3> QED BY <3>2, <3>6, <3>7
  <2> QED BY <1>4, <2>4, <2>7, <2>8, <2>9, <2>13
<1>6. ASSUME opts'.snapshot_name PROVE Shots(snapshot', modules, E)
  <2>1. Shots(snapshot, modules, D) BY <1>1, <1>2, <1>6
  <2>2. PICK ms \in Seq(ModuleNames) : ms = modules BY <1>t
  <2>3. Shots(Append(snapshot, Decoded(ms, l)), ms, Append(D, l)) BY <1>1, <2>1, <2>2, ShotsGrow
  <2>4. snapshot' = Append(snapshot, Decoded(ms, l)) BY <1>2, <1>3, <1>6, <2>2
  <2> QED BY <1>4, <2>2, <2>3, <2>4
<1>7. ASSUME RegularStream' PROVE Progress(E, input, opts.empty_lines_processed, rest', eof')
  <2>1. RegularStream BY <1>2, <1>3, <1>7, RegularSame
  <2>2. Progress(D, input, opts.empty_lines_processed, rest, eof) BY <1>1, <2>1
  <2>3. Progress(Grown(D, Line, opts.empty_lines_processed), input, opts.empty_lines_processed, rest', eof')
    BY <1>3, <2>1, <2>2, ProgressStep
  <2>4. Grown(D, Line, opts.empty_lines_processed) = E BY <1>0, <1>3, <1>4 DEF Grown
  <2> QED BY <2>3, <2>4
<1>8. opts'.current_line = Len(E) + 1 BY <1>1, <1>2, <1>4
<1>9. opts'.input_source # "argument" /\ (written' => opts'.snapshot_name) BY <1>1, <1>2, <1>3
<1> QED BY <1>2, <1>3, <1>4, <1>5, <1>6, <1>7, <1>8, <1>9 DEF Streamed

LEMMA SkipStreamed ==
  ASSUME CliType, SkipEmptyLine, NEW D, Streamed(D)
  PROVE  Streamed(D)'
<1>1. /\ ~eof /\ Line = << >> /\ ~opts.empty_lines_processed /\ Advance
      /\ UNCHANGED <<opts, modules, out, snapshot, written, input>>
  BY DEF SkipEmptyLine, Reading, source
<1>2. ASSUME RegularStream' PROVE Progress(D, input, opts.empty_lines_processed, rest', eof')
  <2>1. RegularStream BY <1>1, <1>2, RegularSame
  <2>2. Progress(D, input, opts.empty_lines_processed, rest, eof) BY <2>1 DEF Streamed
  <2>3. Progress(Grown(D, Line, opts.empty_lines_processed), input, opts.empty_lines_processed, rest', eof')
    BY <1>1, <2>1, <2>2, ProgressStep
  <2>4. Grown(D, Line, opts.empty_lines_processed) = D BY <1>1 DEF Grown
  <2> QED BY <2>3, <2>4
<1> QED BY <1>1, <1>2 DEF Streamed

LEMMA EndStreamed ==
  ASSUME EndStream, NEW D, Streamed(D)
  PROVE  Streamed(D)'
<1>1. /\ UNCHANGED <<opts, modules, out, snapshot, input, rest, eof>>
      /\ written' = opts.snapshot_name
  BY DEF EndStream, source, stream
<1>2. RegularStream' <=> RegularStream BY <1>1, RegularSame
<1> QED BY <1>1, <1>2 DEF Streamed

LEMMA StartStreamed ==
  ASSUME CliType, RowsInv, GivenInv, StreamInv, StartStream
  PROVE  Streamed(<< >>)'
<1>1. /\ phase = "options" /\ ~eof /\ opts.current_line = 1 /\ snapshot = << >> /\ ~written /\ out = << >>
      /\ opts \in OptsSet
  BY DEF StartStream, Ready, GivenInv, StreamInv, RowsInv, CliType
<1>2. PICK f \in {"pipe", "file"} : opts' = [opts EXCEPT !.input_source = f] BY DEF StartStream
<1>3. opts'.current_line = 1 /\ opts'.input_source # "argument" BY <1>1, <1>2 DEF OptsSet
<1>4. /\ rest' = input' /\ eof' = eof /\ out' = out /\ snapshot' = snapshot /\ written' = written
  BY DEF StartStream
<1>5. input' \in Seq(Chars)
  <2>1. CliNext BY DEF CliNext
  <2>2. CliType' BY <2>1, TypeStep
  <2> QED BY <2>2 DEF CliType
<1>6. << >> \in Seq(Seq(Chars)) /\ Len(<< >>) = 0 /\ << >> \in Seq(Urls)
  <2>1. << >> \in Seq(Seq(Chars)) /\ << >> \in Seq(Urls) BY EmptySeq, Zenon
  <2> QED BY <2>1
<1>7. RowsFor(opts', RowsOut(opts', out'), modules', << >>)
  <2>1. RowsOut(opts', << >>) = << >> BY NothingOut
  <2> QED BY <1>1, <1>4, <2>1 DEF RowsFor
<1>8. Shots(snapshot', modules', << >>) BY <1>1, <1>4, <1>6 DEF Shots
<1>9. Progress(<< >>, input', opts'.empty_lines_processed, rest', eof')
  <2>1. PICK t \in Seq(Chars) : t = input' BY <1>5
  <2>2. Progress(<< >>, t, opts'.empty_lines_processed, t, FALSE) BY ProgressStarts
  <2>3. ~eof' BY <1>1, <1>4
  <2> QED BY <1>4, <2>1, <2>2, <2>3 DEF Progress
<1> QED BY <1>1, <1>3, <1>4, <1>6, <1>7, <1>8, <1>9 DEF Streamed

LEMMA StreamStep == CliType /\ RowsInv /\ GivenInv /\ StreamInv /\ [CliNext]_cliVars => StreamInv'
<1>1. SUFFICES ASSUME CliType, RowsInv, GivenInv, StreamInv, [CliNext]_cliVars PROVE StreamInv' OBVIOUS
<1>t. opts \in OptsSet BY <1>1 DEF CliType
<1>2. ASSUME phase = "options", phase' = "options", eof' = eof, snapshot' = snapshot, written' = written,
             opts'.current_line = opts.current_line
      PROVE  StreamInv'
  BY <1>1, <1>2 DEF StreamInv, GivenInv
<1>3. ASSUME phase = "options", phase' # "options", phase' # "reading", eof' = eof PROVE StreamInv'
  BY <1>1, <1>3 DEF StreamInv, GivenInv
<1>4. ASSUME phase' # "options", NEW D, Streamed(D)' PROVE StreamInv' BY <1>4 DEF StreamInv
<1>5. ASSUME phase = "reading" PROVE \E D : Streamed(D) BY <1>1, <1>5 DEF StreamInv
<1>6. CASE SkipOperand BY <1>2, <1>6 DEF SkipOperand, stream
<1>7. CASE ReadFlag
  <2>1. PICK option \in Clear : AtOption(option) /\ opts' = Flag(opts, option) /\ Keep BY <1>7 DEF ReadFlag
  <2>2. opts'.current_line = opts.current_line BY <1>t, <2>1, FlagKeeps
  <2> QED BY <1>2, <2>1, <2>2 DEF AtOption, Keep, stream
<1>8. CASE ReadArgument
  <2>1. PICK option \in WithArgument \ {"-m"} :
          AtOption(option) /\ opts' = Argument(opts, option, words[2]) /\ Keep
    BY <1>8 DEF ReadArgument
  <2>2. opts'.current_line = opts.current_line BY <1>t, <2>1, ArgumentKeeps
  <2> QED BY <1>2, <2>1, <2>2 DEF AtOption, Keep, stream
<1>9. CASE ReadModules
  <2>1. PICK v, x : opts' = [opts EXCEPT !.modules_argv = v, !.exec_modules = x] BY <1>9 DEF ReadModules
  <2>2. opts'.current_line = opts.current_line BY <1>t, <2>1 DEF OptsSet
  <2> QED BY <1>2, <1>9, <2>2 DEF ReadModules, AtOption, Keep, stream
<1>10. CASE ReadAttachedModule
  <2>1. PICK x : opts' = [opts EXCEPT !.exec_modules = x] BY <1>10 DEF ReadAttachedModule
  <2>2. opts'.current_line = opts.current_line BY <1>t, <2>1 DEF OptsSet
  <2> QED BY <1>2, <1>10, <2>2 DEF ReadAttachedModule, AtOption, Keep, stream
<1>11. CASE Usage BY <1>3, <1>11 DEF Usage, Exit, AtOption, stream
<1>12. CASE Serve BY <1>3, <1>12 DEF Serve, Exit, AtOption, stream
<1>13. CASE Compare BY <1>3, <1>13 DEF Compare, Ready, stream
<1>14. CASE NoOperand BY <1>3, <1>14 DEF NoOperand, Ready, stream
<1>15. CASE DecodeArgument BY <1>3, <1>15 DEF DecodeArgument, Ready, stream
<1>16. CASE StartStream
  <2>1. Streamed(<< >>)' BY <1>1, <1>16, StartStreamed
  <2>2. phase' # "options" BY <1>16 DEF StartStream
  <2> QED BY <1>4, <2>1, <2>2
<1>17. CASE SkipEmptyLine
  <2>1. phase = "reading" /\ phase' = "reading" BY <1>17 DEF SkipEmptyLine, Reading
  <2>2. PICK D : Streamed(D) BY <1>5, <2>1
  <2>3. Streamed(D)' BY <1>1, <1>17, <2>2, SkipStreamed
  <2> QED BY <1>4, <2>1, <2>3
<1>18. CASE DecodeLine
  <2>1. phase = "reading" /\ phase' = "reading" BY <1>18 DEF DecodeLine, Reading
  <2>2. PICK D : Streamed(D) BY <1>5, <2>1
  <2>3. PICK E : E = Append(D, Line) OBVIOUS
  <2>4. Streamed(E)' BY <1>1, <1>18, <2>2, <2>3, DecodeLineStreamed
  <2> QED BY <1>4, <2>1, <2>4
<1>19. CASE EndStream
  <2>1. phase = "reading" /\ phase' # "options" BY <1>19 DEF EndStream
  <2>2. PICK D : Streamed(D) BY <1>5, <2>1
  <2>3. Streamed(D)' BY <1>19, <2>2, EndStreamed
  <2> QED BY <1>4, <2>1, <2>3
<1>20. CASE UNCHANGED cliVars
  <2>1. UNCHANGED <<phase, opts, modules, out, snapshot, written, input, rest, eof>>
    BY <1>20 DEF cliVars, source, stream
  <2>2. RegularStream' <=> RegularStream BY <2>1, RegularSame
  <2>3. \A D : Streamed(D)' <=> Streamed(D) BY <2>1, <2>2 DEF Streamed
  <2> QED BY <1>1, <2>1, <2>3 DEF StreamInv
<1> QED BY <1>1, <1>6, <1>7, <1>8, <1>9, <1>10, <1>11, <1>12, <1>13, <1>14, <1>15, <1>16, <1>17, <1>18,
           <1>19, <1>20 DEF CliNext

(***************************************************************************)
(* What is read, once a stream is over.                                    *)
(***************************************************************************)
LEMMA FrontType ==
  ASSUME NEW R, NEW s \in Seq(R)
  PROVE  Front(s) \in Seq(R)
<1>1. PICK n \in Nat : n = Len(s) OBVIOUS
<1>2. CASE n = 0
  <2>1. Front(s) = << >> BY <1>1, <1>2, SubSeqEmpty DEF Front
  <2> QED BY <2>1, EmptySeq, Zenon
<1>3. CASE n > 0
  <2>1. n \in 1 .. Len(s) BY <1>1, <1>3
  <2>2. SubSeq(s, 1, n - 1) \in Seq(R) BY <2>1, PrefixGrows
  <2> QED BY <1>1, <2>2 DEF Front
<1> QED BY <1>2, <1>3

LEMMA EndedType ==
  ASSUME NEW text \in Seq(Chars)
  PROVE  Ended(text) \in Seq(Seq(Chars))
<1>1. PICK S : S = Seq(Chars) OBVIOUS
<1>2. PICK p \in Seq(S) : p = CutBehind(text, {LF}).pieces BY <1>1, CutBehindIs
<1>3. PICK n \in Nat : n = Len(p) OBVIOUS
<1>4. Ended(text) = [k \in 1 .. n |-> Bare(Front(p[k]))]
  <2>1. DOMAIN p = 1 .. n BY <1>3
  <2>2. Ended(text) = [k \in DOMAIN p |-> Bare(Front(p[k]))] BY <1>2, Zenon DEF Ended
  <2> QED BY <2>1, <2>2
<1>5. ASSUME NEW k \in 1 .. n PROVE Bare(Front(p[k])) \in S
  <2>1. PICK q \in Seq(Chars) : q = p[k] BY <1>1, <1>3
  <2>2. PICK f \in Seq(Chars) : f = Front(q) BY FrontType
  <2>3. Bare(f) \in Seq(Chars) BY BareIs
  <2> QED BY <1>1, <2>1, <2>2, <2>3
<1> QED BY <1>1, <1>4, <1>5

LEMMA LinesAre ==
  ASSUME NEW text \in Seq(Chars)
  PROVE  \E d \in Seq(Seq(Chars)), l \in Seq(Chars) :
           LinesOf(text) = Append(d, l) /\ LinesOf(text) \in Seq(Seq(Chars))
<1>1. PICK d \in Seq(Seq(Chars)) : d = Ended(text) BY EndedType
<1>2. PICK r \in Seq(Chars) : r = CutBehind(text, {LF}).rest BY CutBehindIs
<1>3. PICK l \in Seq(Chars) : l = Bare(r) BY BareIs
<1>4. LinesOf(text) = Append(d, l) BY <1>1, <1>2, <1>3, LinesOfIs, Zenon
<1>5. Append(d, l) \in Seq(Seq(Chars)) BY <1>1, <1>3, OneMoreWanted, Zenon
<1> QED BY <1>4, <1>5

LEMMA WantedIs ==
  ASSUME NEW lines \in Seq(Seq(Chars))
  PROVE  Wanted(lines) = Those(lines, Wants(opts.empty_lines_processed))
<1>1. \A k \in DOMAIN lines : lines[k] \in Wants(opts.empty_lines_processed)
                                <=> (lines[k] # << >> \/ opts.empty_lines_processed)
  BY DEF Wants
<1>2. {k \in DOMAIN lines : lines[k] # << >> \/ opts.empty_lines_processed} =
      {k \in DOMAIN lines : lines[k] \in Wants(opts.empty_lines_processed)}
  BY <1>1, Zenon
<1> QED BY <1>2, Zenon DEF Wanted, Those

LEMMA RowsAre ==
  ASSUME GoodOut(opts, out)
  PROVE  Rows = RowsOut(opts, out) /\ RowsOut(opts, out) \in Seq(Seq(AnyCell))
<1>1. PICK s \in Seq(AnyCell) : s = Those(out, AnyCell) BY DEF GoodOut, GoodShown
<1>2. PICK S : S = Seq(AnyCell) OBVIOUS
<1>3. PICK p \in Seq(S) : p = CutBehind(s, Ending(opts.output)).pieces BY <1>2, CutBehindIs
<1>4. Lines = p BY <1>1, <1>3, CutIs DEF Lines
<1>5. Those(p, RowSet) \in Seq(S) BY <1>3, ThoseIsSeq, Zenon
<1>6. RowsOut(opts, out) = Those(p, RowSet) BY <1>1, <1>3, Zenon DEF RowsOut, RowsIn
<1>7. \A k \in DOMAIN p : p[k] \in RowSet <=> ~IsHeader(p[k])
  <2>1. \A k \in DOMAIN p : p[k] \in Seq(AnyCell) BY <1>2
  <2> QED BY <2>1 DEF RowSet, IsHeader
<1>8. {k \in DOMAIN p : ~IsHeader(p[k])} = {k \in DOMAIN p : p[k] \in RowSet} BY <1>7, Zenon
<1>9. Rows = Those(p, RowSet) BY <1>4, <1>8, Zenon DEF Rows, Those
<1> QED BY <1>2, <1>5, <1>6, <1>9

LEMMA ClearDecoded ==
  ASSUME NEW loaded \in Seq(ModuleNames), NEW text \in Texts, \A i \in 1 .. Len(loaded) : loaded[i] \notin Nils
  PROVE  /\ Decoded(loaded, text) = [text |-> text, changed |-> Those(loaded, Transforms), placed |-> << >>]
         /\ UrlOutput(loaded, Decoded(loaded, text)) =
              [text |-> text, changed |-> Those(loaded, Transforms), placed |-> Those(loaded, Outputs)]
<1>1. PICK c : /\ Decoded(loaded, text) = UrlOf(text, c)
               /\ UrlOutput(loaded, Decoded(loaded, text)) =
                    [text |-> text, changed |-> c, placed |-> Those(loaded, Outputs)]
               /\ (\A i \in 1 .. Len(loaded) : loaded[i] \notin Nils) => c = Those(loaded, Transforms)
  BY DecodedIs
<1> QED BY <1>1 DEF UrlOf

LEMMA RowsAtEnd ==
  ASSUME CliType, RowsInv, StreamInv, StreamIsOver, RegularStream
  PROVE  \E D \in Seq(Seq(Chars)) :
           /\ D = Wanted(LinesOf(input)) /\ Streamed(D)
           /\ Prints(opts) => Rows \in Seq(Seq(AnyCell)) /\ RowsFor(opts, Rows, modules, D)
<1>1. PICK D : Streamed(D) BY DEF StreamInv, StreamIsOver
<1>2. D \in Seq(Seq(Chars)) /\ Progress(D, input, opts.empty_lines_processed, rest, eof) BY <1>1 DEF Streamed
<1>3. D = Those(LinesOf(input), Wants(opts.empty_lines_processed))
  BY <1>2 DEF Progress, StreamIsOver
<1>4. input \in Seq(Chars) BY DEF CliType
<1>5. LinesOf(input) \in Seq(Seq(Chars)) BY <1>4, LinesAre
<1>6. D = Wanted(LinesOf(input)) BY <1>3, <1>5, WantedIs
<1>7. ASSUME Prints(opts) PROVE Rows \in Seq(Seq(AnyCell)) /\ RowsFor(opts, Rows, modules, D)
  <2>1. GoodOut(opts, out) BY <1>7 DEF Prints, RowsInv
  <2>2. Rows = RowsOut(opts, out) /\ RowsOut(opts, out) \in Seq(Seq(AnyCell)) BY <2>1, RowsAre
  <2> QED BY <1>1, <1>7, <2>2 DEF Streamed
<1> QED BY <1>1, <1>2, <1>6, <1>7

LEMMA EveryLineHere == CliType /\ RowsInv /\ GivenInv /\ StreamInv => EveryLineOnce
<1>1. SUFFICES ASSUME CliType, RowsInv, GivenInv, StreamInv, StreamIsOver, RegularStream, ModulesClear
               PROVE  /\ SelectsParts /\ ~opts.quiet /\ opts.output \in {"csv", "json"} =>
                           [k \in DOMAIN Rows |-> Of(Rows[k])] = Expected
                      /\ written =>
                           snapshot = [k \in DOMAIN Expected |-> [Expected[k] EXCEPT !.placed = << >>]]
  BY Zenon DEF EveryLineOnce
<1>2. PICK D \in Seq(Seq(Chars)) :
        /\ D = Wanted(LinesOf(input)) /\ Streamed(D)
        /\ Prints(opts) => Rows \in Seq(Seq(AnyCell)) /\ RowsFor(opts, Rows, modules, D)
  BY <1>1, RowsAtEnd
<1>3. modules = given /\ modules \in Seq(ModuleNames)
  BY <1>1 DEF GivenInv, StreamIsOver, ModulesClear, CliType
<1>4. PICK n \in Nat : n = Len(D) OBVIOUS
<1>5. DOMAIN D = 1 .. n BY <1>4
<1>6. PICK t, o : t = Those(given, Transforms) /\ o = Those(given, Outputs) OBVIOUS
<1>7. Expected = [k \in 1 .. n |-> [text |-> D[k], changed |-> t, placed |-> o]]
  <2>1. Expected = [k \in DOMAIN D |-> [text |-> D[k], changed |-> t, placed |-> o]]
    BY <1>2, <1>6, Zenon DEF Expected
  <2> QED BY <1>5, <2>1
<1>8. \A i \in 1 .. Len(modules) : modules[i] \notin Nils
  <2>1. \A i \in DOMAIN given : given[i] \notin Nils BY <1>1 DEF ModulesClear, ToSet
  <2> QED BY <1>3, <2>1
<1>9. ASSUME NEW k \in 1 .. n
      PROVE  /\ Decoded(modules, D[k]) = [text |-> D[k], changed |-> t, placed |-> << >>]
             /\ UrlOutput(modules, Decoded(modules, D[k])) = [text |-> D[k], changed |-> t, placed |-> o]
  <2>1. PICK w \in Texts : w = D[k]
    <3>1. D[k] \in Seq(Chars) BY <1>5
    <3> QED BY <3>1 DEF Texts
  <2>2. PICK ms \in Seq(ModuleNames) : ms = modules BY <1>3
  <2>3. \A i \in 1 .. Len(ms) : ms[i] \notin Nils BY <1>8, <2>2
  <2>4. /\ Decoded(ms, w) = [text |-> w, changed |-> Those(ms, Transforms), placed |-> << >>]
        /\ UrlOutput(ms, Decoded(ms, w)) =
             [text |-> w, changed |-> Those(ms, Transforms), placed |-> Those(ms, Outputs)]
    BY <2>3, ClearDecoded
  <2> QED BY <1>3, <1>6, <2>1, <2>2, <2>4
<1>10. ASSUME SelectsParts, ~opts.quiet, opts.output \in {"csv", "json"}
       PROVE  [k \in DOMAIN Rows |-> Of(Rows[k])] = Expected
  <2>1. Prints(opts) BY <1>10 DEF Prints, Selects, SelectsParts
  <2>2. PICK S : S = Seq(AnyCell) OBVIOUS
  <2>3. PICK rs \in Seq(S) : rs = Rows /\ RowsFor(opts, rs, modules, D) BY <1>2, <2>1, <2>2
  <2>4. Len(rs) = n /\ \A k \in 1 .. n : RowFor(opts, rs[k], modules, D[k], k) BY <1>4, <2>3 DEF RowsFor
  <2>5. \A k \in 1 .. n : Of(rs[k]) = UrlOutput(modules, Decoded(modules, D[k])) BY <2>4 DEF RowFor
  <2>6. DOMAIN rs = 1 .. n BY <2>4
  <2>7. \A k \in 1 .. n : Of(rs[k]) = [text |-> D[k], changed |-> t, placed |-> o] BY <1>9, <2>5
  <2>8. [k \in DOMAIN rs |-> Of(rs[k])] = [k \in 1 .. n |-> [text |-> D[k], changed |-> t, placed |-> o]]
    BY <2>6, <2>7, Zenon
  <2> QED BY <1>7, <2>3, <2>8
<1>11. ASSUME written
       PROVE  snapshot = [k \in DOMAIN Expected |-> [Expected[k] EXCEPT !.placed = << >>]]
  <2>1. Shots(snapshot, modules, D) BY <1>2, <1>11 DEF Streamed
  <2>2. snapshot \in Seq(Urls) /\ Len(snapshot) = n /\ \A k \in 1 .. n : snapshot[k] = Decoded(modules, D[k])
    BY <1>4, <2>1 DEF Shots
  <2>3. DOMAIN snapshot = 1 .. n /\ DOMAIN Expected = 1 .. n BY <1>7, <2>2
  <2>4. ASSUME NEW k \in 1 .. n PROVE snapshot[k] = [Expected[k] EXCEPT !.placed = << >>]
    <3>1. Expected[k] = [text |-> D[k], changed |-> t, placed |-> o] BY <1>7
    <3>2. snapshot[k] = [text |-> D[k], changed |-> t, placed |-> << >>] BY <1>9, <2>2
    <3> QED BY <3>1, <3>2
  <2>5. snapshot = [k \in 1 .. n |-> snapshot[k]] BY <2>2, <2>3
  <2> QED BY <2>3, <2>4, <2>5
<1> QED BY <1>10, <1>11

LEMMA NumbersHere == CliType /\ RowsInv /\ StreamInv => NumbersAreLineNumbers
<1>1. PICK e : e = opts.empty_lines_processed OBVIOUS
<1>2. SUFFICES ASSUME CliType, RowsInv, StreamInv, StreamIsOver, RegularStream,
                      opts.print_line, opts.output = "csv", SelectsParts, ~opts.quiet,
                      e \/ \A k \in 1 .. Len(LinesOf(input)) - 1 : LinesOf(input)[k] # << >>,
                      NEW k \in DOMAIN Rows
               PROVE  Rows[k][1].of = k /\ Of(Rows[k]).text = LinesOf(input)[k]
  BY <1>1, Zenon DEF NumbersAreLineNumbers
<1>3. PICK D \in Seq(Seq(Chars)) :
        /\ D = Wanted(LinesOf(input)) /\ Streamed(D)
        /\ Prints(opts) => Rows \in Seq(Seq(AnyCell)) /\ RowsFor(opts, Rows, modules, D)
  BY <1>2, RowsAtEnd
<1>4. Rows \in Seq(Seq(AnyCell)) /\ RowsFor(opts, Rows, modules, D)
  BY <1>2, <1>3 DEF Prints, Selects, SelectsParts
<1>5. PICK n \in Nat : n = Len(D) OBVIOUS
<1>6. k \in 1 .. n /\ RowFor(opts, Rows[k], modules, D[k], k)
  <2>1. k \in 1 .. Len(Rows) BY <1>2, <1>4
  <2> QED BY <1>4, <1>5, <2>1 DEF RowsFor
<1>7. Rows[k][1].of = k /\ Of(Rows[k]) = UrlOutput(modules, Decoded(modules, D[k]))
  BY <1>2, <1>6 DEF RowFor
<1>8. Of(Rows[k]).text = D[k]
  <2>1. PICK w \in Texts : w = D[k]
    <3>1. D[k] \in Seq(Chars) BY <1>5, <1>6
    <3> QED BY <3>1 DEF Texts
  <2>2. PICK ms \in Seq(ModuleNames) : ms = modules BY <1>2 DEF CliType
  <2>3. PICK c : UrlOutput(ms, Decoded(ms, w)) = [text |-> w, changed |-> c, placed |-> Those(ms, Outputs)]
    BY DecodedIs
  <2> QED BY <1>7, <2>1, <2>2, <2>3
<1>9. D[k] = LinesOf(input)[k]
  <2>1. input \in Seq(Chars) BY <1>2 DEF CliType
  <2>2. PICK S : S = Seq(Chars) OBVIOUS
  <2>3. PICK d \in Seq(S), l \in S : LinesOf(input) = Append(d, l) /\ LinesOf(input) \in Seq(S)
    BY <2>1, <2>2, LinesAre
  <2>4. PICK m \in Nat : m = Len(d) OBVIOUS
  <2>5. PICK x \in Seq(S) : x = LinesOf(input) BY <2>3
  <2>6. Len(x) = m + 1 /\ (\A i \in 1 .. m : x[i] = d[i]) BY <2>3, <2>4, <2>5, Appended
  <2>7. \A i \in 1 .. Len(d) : d[i] \in Wants(e)
    <3>1. SUFFICES ASSUME NEW i \in 1 .. m PROVE d[i] \in Wants(e) BY <2>4
    <3>2. d[i] \in Seq(Chars) BY <2>2, <2>4
    <3>3. e \/ d[i] # << >>
      <4>1. i \in 1 .. Len(x) - 1 BY <2>6
      <4> QED BY <1>2, <2>5, <2>6, <4>1
    <3> QED BY <3>2, <3>3 DEF Wants
  <2>8. Those(d, Wants(e)) = d BY <2>7, ThoseAll
  <2>9. Those(Append(d, l), Wants(e)) = Grown(Those(d, Wants(e)), l, e) BY <2>2, <2>3, OneMoreWanted
  <2>10. D = Grown(d, l, e) BY <1>1, <1>3, <2>2, <2>3, <2>8, <2>9, WantedIs
  <2>11. D = x \/ D = d BY <2>3, <2>5, <2>10 DEF Grown
  <2>12. CASE D = x BY <2>5, <2>12
  <2>13. CASE D = d
    <3>1. k \in 1 .. m BY <1>5, <1>6, <2>4, <2>13
    <3> QED BY <2>5, <2>6, <2>13, <3>1
  <2> QED BY <2>11, <2>12, <2>13
<1> QED BY <1>7, <1>8, <1>9

CliInv == CliType /\ RowsInv /\ GivenInv /\ StreamInv

(* The inductive invariant of the tool: the types; that whatever was       *)
(* printed is made of whole lines that agree; that the modules still to be *)
(* loaded, and then those loaded, are the ones the command line gives; and *)
(* that of a stream exactly the lines before what is left to be read were  *)
(* decoded, each with its row and its element of the snapshot.             *)
THEOREM CliInvariant == CliSpec => []CliInv
<1>1. CliInit => CliInv BY TypeInit, RowsInit, GivenInit, StreamInit DEF CliInv
<1>2. CliInv /\ [CliNext]_cliVars => CliInv' BY TypeStep, RowsStep, GivenStep, StreamStep DEF CliInv
<1> QED BY <1>1, <1>2, PTL DEF CliSpec

(* EveryLineOnce, for any command line, stream and modules: when a stream  *)
(* is over, each of its lines is in one row and in one place of the        *)
(* snapshot, in order, as the modules that the command line gives changed  *)
(* it.                                                                     *)
THEOREM EveryLineAlways == CliSpec => []EveryLineOnce
<1>1. CliInv => EveryLineOnce BY EveryLineHere DEF CliInv
<1> QED BY <1>1, CliInvariant, PTL

(* NumbersAreLineNumbers, for any command line, stream and modules: unless *)
(* empty lines are skipped, the number in front of a row is the number of  *)
(* the line that the row is about.                                         *)
THEOREM NumbersAlways == CliSpec => []NumbersAreLineNumbers
<1>1. CliInv => NumbersAreLineNumbers BY NumbersHere DEF CliInv
<1> QED BY <1>1, CliInvariant, PTL
=============================================================================
