---------------------------- MODULE ThreadsProofs ---------------------------
(***************************************************************************)
(* Under which discipline the library may be used by any number of threads *)
(* without locks, proved: each thread has a handler of its own, and one    *)
(* thread at most builds TLD trees, for options that it does not share.    *)
(***************************************************************************)
EXTENDS Threads, TLAPS

Discipline ==
  /\ \A t, u \in Threads : HandlerOf[t] = HandlerOf[u] => t = u
  /\ \A t, u \in Threads : ~IsExternal(t) /\ ~IsExternal(u) => t = u
  /\ \A t \in Reloaders : ~IsExternal(t)

-----------------------------------------------------------------------------
(* The inductive invariant                                                 *)

TypesOK ==
  /\ pc \in [Threads -> PcValues]
  /\ org_str \in [Handlers -> Urls \cup {Absent}]
  /\ host \in [Handlers -> Urls \cup {Absent}]
  /\ tld \in [Handlers -> Tlds]
  /\ tld_tree \in [Options -> Trees \cup {Absent}]
  /\ live \subseteq Trees
  /\ whole \subseteq Trees
  /\ tlds \in {Absent, "partial", "all"}
  /\ call_url \in [Threads -> Urls \cup {Absent}]
  /\ held \in [Threads -> Trees \cup {Absent}]
  /\ got \in [Threads -> Tlds]

(* The TLD of a URL, from the whole list. *)
TldOf(u) == IF u \in WithTld THEN [of |-> u, listed |-> TRUE] ELSE Absent

(* How far the call of a thread has come shows in its own handler. *)
CallOK(t) ==
  /\ pc[t] \in {"clear", "scan", "extract", "search", "get", "got"} =>
       call_url[t] \in Urls /\ org_str[Fh(t)] = call_url[t]
  /\ pc[t] \in {"scan", "extract", "search"} => tld[Fh(t)] = Absent
  /\ pc[t] \in {"extract", "search"} =>
       call_url[t] \in WithTld /\ host[Fh(t)] = call_url[t]
  /\ pc[t] \in {"get", "got"} => tld[Fh(t)] = TldOf(call_url[t])
  /\ pc[t] = "got" => got[t] = TldOf(call_url[t])

Building == {"alloc", "populate", "read", "add", "destroy", "store"}

Good(a) == a \in live \cap whole

(* The shared tree is whole and stays; the tree of other options is a      *)
(* different one, and whole when it is not being replaced.                 *)
TreeOK(t) ==
  /\ pc[t] \notin Building \cup {"none"} => Good(tld_tree[Opt(t)])
  /\ pc[t] \notin Building \cup {"none"} /\ ~IsExternal(t) =>
       tld_tree[Opt(t)] # tld_tree[Absent]
  /\ pc[t] = "search" => held[t] = tld_tree[Opt(t)]
  /\ pc[t] \in Building => ~IsExternal(t)
  /\ pc[t] \in Building \ {"alloc"} =>
       held[t] \in live /\ held[t] # tld_tree[Absent]
  /\ pc[t] \in {"destroy", "store"} => held[t] \in whole
  /\ pc[t] \in {"populate", "store"} => tlds = Absent
  /\ pc[t] = "read" => tlds = "partial"
  /\ pc[t] = "add" => tlds = "all"

ArrayOK ==
  tlds # Absent => \E t \in Threads : pc[t] \in {"read", "add", "destroy"}

ThreadsInv ==
  /\ TypesOK
  /\ Good(tld_tree[Absent])
  /\ ArrayOK
  /\ \A t \in Threads : CallOK(t) /\ TreeOK(t)

-----------------------------------------------------------------------------
(* Threads of different names have different handlers; options that were   *)
(* not shared have a name of their own.                                    *)
LEMMA Separation ==
  ASSUME Discipline, NEW s \in Threads, NEW t \in Threads
  PROVE  /\ Fh(t) \in Handlers /\ Opt(t) \in Options /\ Absent \in Options
         /\ t # s => Fh(t) # Fh(s)
         /\ ~IsExternal(s) /\ t # s => IsExternal(t)
         /\ IsExternal(t) <=> Opt(t) = Absent
  BY HandlerOfAssumption, AbsentAssumption
     DEF Discipline, Fh, Opt, OptionsOf, Options, IsExternal

(* The call takes a URL and shows it to its own handler only. *)
LEMMA BeginStep ==
  ASSUME Discipline, ThreadsInv, NEW s \in Threads, Begin(s)
  PROVE  ThreadsInv'
<1>1. TypesOK'
  BY Separation DEF ThreadsInv, TypesOK, Begin, Goto, treeVars, PcValues
<1>2. Good(tld_tree[Absent])'
  BY DEF ThreadsInv, Begin, treeVars, Good
<1>3. ArrayOK'
  BY DEF ThreadsInv, ArrayOK, Begin, Goto, treeVars
<1>4. ASSUME NEW t \in Threads PROVE CallOK(t)'
  BY Separation DEF ThreadsInv, TypesOK, CallOK, Begin, Goto
<1>5. ASSUME NEW t \in Threads PROVE TreeOK(t)'
  BY DEF ThreadsInv, TreeOK, Begin, Goto, treeVars, Good, Building
<1>. QED BY <1>1, <1>2, <1>3, <1>4, <1>5 DEF ThreadsInv

(* The positions of the handler are forgotten. *)
LEMMA ClearStep ==
  ASSUME Discipline, ThreadsInv, NEW s \in Threads, Clear(s)
  PROVE  ThreadsInv'
<1>1. TypesOK'
  BY DEF ThreadsInv, TypesOK, Clear, Goto, treeVars, threadVars, PcValues, Tlds
<1>2. Good(tld_tree[Absent])'
  BY DEF ThreadsInv, Clear, treeVars, Good
<1>3. ArrayOK'
  BY DEF ThreadsInv, ArrayOK, Clear, Goto, treeVars
<1>4. ASSUME NEW t \in Threads PROVE CallOK(t)'
  BY Separation DEF ThreadsInv, TypesOK, CallOK, Clear, Goto, threadVars
<1>5. ASSUME NEW t \in Threads PROVE TreeOK(t)'
  BY DEF ThreadsInv, TreeOK, Clear, Goto, treeVars, threadVars, Good, Building
<1>. QED BY <1>1, <1>2, <1>3, <1>4, <1>5 DEF ThreadsInv

(* The host that is found is that of the URL of the call. *)
LEMMA ScanStep ==
  ASSUME Discipline, ThreadsInv, NEW s \in Threads, Scan(s)
  PROVE  ThreadsInv'
<1>1. TypesOK'
  BY DEF ThreadsInv, TypesOK, Scan, Goto, treeVars, threadVars, PcValues
<1>2. Good(tld_tree[Absent])'
  BY DEF ThreadsInv, Scan, treeVars, Good
<1>3. ArrayOK'
  BY DEF ThreadsInv, ArrayOK, Scan, Goto, treeVars
<1>4. ASSUME NEW t \in Threads PROVE CallOK(t)'
  BY Separation DEF ThreadsInv, TypesOK, CallOK, Scan, Goto, threadVars, TldOf
<1>5. ASSUME NEW t \in Threads PROVE TreeOK(t)'
  BY DEF ThreadsInv, TreeOK, Scan, Goto, treeVars, threadVars, Good, Building
<1>. QED BY <1>1, <1>2, <1>3, <1>4, <1>5 DEF ThreadsInv

(* The tree taken is the one of the options, which is good. *)
LEMMA ExtractStep ==
  ASSUME Discipline, ThreadsInv, NEW s \in Threads, Extract(s)
  PROVE  ThreadsInv'
<1>1. TypesOK'
  BY Separation DEF ThreadsInv, TypesOK, Extract, Goto, handlerVars, treeVars, PcValues
<1>2. Good(tld_tree[Absent])'
  BY DEF ThreadsInv, Extract, treeVars, Good
<1>3. ArrayOK'
  BY DEF ThreadsInv, ArrayOK, Extract, Goto, treeVars
<1>4. ASSUME NEW t \in Threads PROVE CallOK(t)'
  BY DEF ThreadsInv, CallOK, Extract, Goto, handlerVars
<1>5. ASSUME NEW t \in Threads PROVE TreeOK(t)'
  BY DEF ThreadsInv, TypesOK, TreeOK, Extract, Goto, treeVars, Good, Building
<1>. QED BY <1>1, <1>2, <1>3, <1>4, <1>5 DEF ThreadsInv

(* The string, the host and the tree are those of the call. *)
LEMMA SearchStep ==
  ASSUME Discipline, ThreadsInv, NEW s \in Threads, Search(s)
  PROVE  ThreadsInv'
<1>1. TypesOK'
  <2>1. Fh(s) \in Handlers /\ host[Fh(s)] \in Urls \cup {Absent}
    BY Separation DEF ThreadsInv, TypesOK
  <2>2. tld' \in [Handlers -> Tlds]
    BY <2>1 DEF ThreadsInv, TypesOK, Search, Tlds
  <2>. QED BY <2>2 DEF ThreadsInv, TypesOK, Search, Goto, treeVars, PcValues
<1>2. Good(tld_tree[Absent])'
  BY DEF ThreadsInv, Search, treeVars, Good
<1>3. ArrayOK'
  BY DEF ThreadsInv, ArrayOK, Search, Goto, treeVars
<1>4. ASSUME NEW t \in Threads PROVE CallOK(t)'
  <2>1. held[s] \in whole /\ org_str[Fh(s)] = host[Fh(s)] /\ host[Fh(s)] = call_url[s]
    BY DEF ThreadsInv, CallOK, TreeOK, Search, Goto, Good, Building
  <2>2. tld' = [tld EXCEPT ![Fh(s)] = TldOf(call_url[s])]
    BY <2>1 DEF ThreadsInv, CallOK, Search, Goto, TldOf
  <2>. QED
    BY <2>2, Separation DEF ThreadsInv, TypesOK, CallOK, Search, Goto
<1>5. ASSUME NEW t \in Threads PROVE TreeOK(t)'
  BY DEF ThreadsInv, TypesOK, TreeOK, Search, Goto, treeVars, Good, Building
<1>. QED BY <1>1, <1>2, <1>3, <1>4, <1>5 DEF ThreadsInv

(* What is read back is in the handler of the thread. *)
LEMMA GetStep ==
  ASSUME Discipline, ThreadsInv, NEW s \in Threads, Get(s)
  PROVE  ThreadsInv'
<1>1. TypesOK'
  BY Separation DEF ThreadsInv, TypesOK, Get, Goto, handlerVars, treeVars, PcValues
<1>2. Good(tld_tree[Absent])'
  BY DEF ThreadsInv, Get, treeVars, Good
<1>3. ArrayOK'
  BY DEF ThreadsInv, ArrayOK, Get, Goto, treeVars
<1>4. ASSUME NEW t \in Threads PROVE CallOK(t)'
  BY DEF ThreadsInv, TypesOK, CallOK, Get, Goto, handlerVars
<1>5. ASSUME NEW t \in Threads PROVE TreeOK(t)'
  BY DEF ThreadsInv, TreeOK, Get, Goto, treeVars, Good, Building
<1>. QED BY <1>1, <1>2, <1>3, <1>4, <1>5 DEF ThreadsInv

(* The thread forgets its call. *)
LEMMA DoneStep ==
  ASSUME Discipline, ThreadsInv, NEW s \in Threads, Done(s)
  PROVE  ThreadsInv'
<1>1. TypesOK'
  BY DEF ThreadsInv, TypesOK, Done, Goto, handlerVars, treeVars, PcValues, Tlds
<1>2. Good(tld_tree[Absent])'
  BY DEF ThreadsInv, Done, treeVars, Good
<1>3. ArrayOK'
  BY DEF ThreadsInv, ArrayOK, Done, Goto, treeVars
<1>4. ASSUME NEW t \in Threads PROVE CallOK(t)'
  BY DEF ThreadsInv, TypesOK, CallOK, Done, Goto, handlerVars
<1>5. ASSUME NEW t \in Threads PROVE TreeOK(t)'
  BY DEF ThreadsInv, TreeOK, Done, Goto, treeVars, Good, Building
<1>. QED BY <1>1, <1>2, <1>3, <1>4, <1>5 DEF ThreadsInv

(* A new tree is none of those in use. *)
LEMMA TreeAllocStep ==
  ASSUME Discipline, ThreadsInv, NEW s \in Threads, TreeAlloc(s)
  PROVE  ThreadsInv'
<1>1. TypesOK'
  BY DEF ThreadsInv, TypesOK, TreeAlloc, Goto, handlerVars, PcValues
<1>2. Good(tld_tree[Absent])'
  BY DEF ThreadsInv, TreeAlloc, Good
<1>3. ArrayOK'
  BY DEF ThreadsInv, ArrayOK, TreeAlloc, Goto
<1>4. ASSUME NEW t \in Threads PROVE CallOK(t)'
  BY DEF ThreadsInv, CallOK, TreeAlloc, Goto, handlerVars
<1>5. ASSUME NEW t \in Threads PROVE TreeOK(t)'
  BY DEF ThreadsInv, TypesOK, TreeOK, ArrayOK, TreeAlloc, Goto, Good, Building,
         Discipline
<1>. QED BY <1>1, <1>2, <1>3, <1>4, <1>5 DEF ThreadsInv

(* The array is not there: no other thread builds a tree. *)
LEMMA PopulateStep ==
  ASSUME Discipline, ThreadsInv, NEW s \in Threads, Populate(s)
  PROVE  ThreadsInv'
<1>1. TypesOK'
  BY DEF ThreadsInv, TypesOK, Populate, Goto, handlerVars, PcValues
<1>2. Good(tld_tree[Absent])'
  BY DEF ThreadsInv, Populate, Good
<1>3. ArrayOK'
  BY DEF ThreadsInv, TypesOK, ArrayOK, Populate, Goto
<1>4. ASSUME NEW t \in Threads PROVE CallOK(t)'
  BY DEF ThreadsInv, TypesOK, CallOK, Populate, Goto, handlerVars
<1>5. ASSUME NEW t \in Threads PROVE TreeOK(t)'
  BY DEF ThreadsInv, TypesOK, TreeOK, Populate, Goto, Good, Building, Discipline
<1>. QED BY <1>1, <1>2, <1>3, <1>4, <1>5 DEF ThreadsInv

(* The array then holds all of the list. *)
LEMMA ReadListStep ==
  ASSUME Discipline, ThreadsInv, NEW s \in Threads, ReadList(s)
  PROVE  ThreadsInv'
<1>1. TypesOK'
  BY DEF ThreadsInv, TypesOK, ReadList, Goto, handlerVars, threadVars, PcValues
<1>2. Good(tld_tree[Absent])'
  BY DEF ThreadsInv, ReadList, Good
<1>3. ArrayOK'
  BY DEF ArrayOK, ReadList, Goto
<1>4. ASSUME NEW t \in Threads PROVE CallOK(t)'
  BY DEF ThreadsInv, CallOK, ReadList, Goto, handlerVars, threadVars
<1>5. ASSUME NEW t \in Threads PROVE TreeOK(t)'
  BY DEF ThreadsInv, TypesOK, TreeOK, ReadList, Goto, threadVars, Good, Building,
         Discipline
<1>. QED BY <1>1, <1>2, <1>3, <1>4, <1>5 DEF ThreadsInv

(* The tree then holds all of the list. *)
LEMMA AddTldsStep ==
  ASSUME Discipline, ThreadsInv, NEW s \in Threads, AddTlds(s)
  PROVE  ThreadsInv'
<1>1. TypesOK'
  BY DEF ThreadsInv, TypesOK, TreeOK, Building, AddTlds, Goto, handlerVars, threadVars,
         PcValues
<1>2. Good(tld_tree[Absent])'
  BY DEF ThreadsInv, AddTlds, Good
<1>3. ArrayOK'
  BY DEF ArrayOK, AddTlds, Goto
<1>4. ASSUME NEW t \in Threads PROVE CallOK(t)'
  BY DEF ThreadsInv, CallOK, AddTlds, Goto, handlerVars, threadVars
<1>5. ASSUME NEW t \in Threads PROVE TreeOK(t)'
  BY DEF ThreadsInv, TreeOK, AddTlds, Goto, threadVars, Good, Building
<1>. QED BY <1>1, <1>2, <1>3, <1>4, <1>5 DEF ThreadsInv

(* The array is gone before another tree is built. *)
LEMMA DestroyStep ==
  ASSUME Discipline, ThreadsInv, NEW s \in Threads, Destroy(s)
  PROVE  ThreadsInv'
<1>1. TypesOK'
  BY DEF ThreadsInv, TypesOK, Destroy, Goto, handlerVars, threadVars, PcValues
<1>2. Good(tld_tree[Absent])'
  BY DEF ThreadsInv, Destroy, Good
<1>3. ArrayOK'
  BY DEF ArrayOK, Destroy
<1>4. ASSUME NEW t \in Threads PROVE CallOK(t)'
  BY DEF ThreadsInv, CallOK, Destroy, Goto, handlerVars, threadVars
<1>5. ASSUME NEW t \in Threads PROVE TreeOK(t)'
  BY DEF ThreadsInv, TreeOK, Destroy, Goto, threadVars, Good, Building, Discipline
<1>. QED BY <1>1, <1>2, <1>3, <1>4, <1>5 DEF ThreadsInv

(* The tree that is stored is live and whole. *)
LEMMA StoreStep ==
  ASSUME Discipline, ThreadsInv, NEW s \in Threads, Store(s)
  PROVE  ThreadsInv'
<1>1. TypesOK'
  BY DEF ThreadsInv, TypesOK, Store, Goto, handlerVars, PcValues
<1>2. Good(tld_tree[Absent])'
  BY DEF ThreadsInv, TreeOK, Store, Goto, Good, Building
<1>3. ArrayOK'
  BY DEF ThreadsInv, ArrayOK, Store, Goto
<1>4. ASSUME NEW t \in Threads PROVE CallOK(t)'
  BY DEF ThreadsInv, CallOK, Store, Goto, handlerVars
<1>5. ASSUME NEW t \in Threads PROVE TreeOK(t)'
  BY Separation DEF ThreadsInv, TypesOK, TreeOK, Store, Goto, Good, Building
<1>. QED BY <1>1, <1>2, <1>3, <1>4, <1>5 DEF ThreadsInv

(* A handler that was given options uses the shared tree. *)
LEMMA InitHandlerStep ==
  ASSUME Discipline, ThreadsInv, NEW s \in Threads, InitHandler(s)
  PROVE  ThreadsInv'
<1>1. TypesOK'
  BY DEF ThreadsInv, TypesOK, InitHandler, Goto, treeVars, threadVars, PcValues, Tlds
<1>2. Good(tld_tree[Absent])'
  BY DEF ThreadsInv, InitHandler, treeVars, Good
<1>3. ArrayOK'
  BY DEF ThreadsInv, ArrayOK, InitHandler, Goto, treeVars
<1>4. ASSUME NEW t \in Threads PROVE CallOK(t)'
  BY Separation DEF ThreadsInv, CallOK, InitHandler, Goto, threadVars
<1>5. ASSUME NEW t \in Threads PROVE TreeOK(t)'
  BY Separation
     DEF ThreadsInv, TreeOK, InitHandler, Goto, treeVars, threadVars, Good, Building
<1>. QED BY <1>1, <1>2, <1>3, <1>4, <1>5 DEF ThreadsInv

(* The tree that is freed is not the shared one. *)
LEMMA ReloadStep ==
  ASSUME Discipline, ThreadsInv, NEW s \in Threads, Reload(s)
  PROVE  ThreadsInv'
<1>1. TypesOK'
  BY DEF ThreadsInv, TypesOK, Reload, Goto, handlerVars, threadVars, PcValues, FreeTree
<1>2. Good(tld_tree[Absent])'
  BY DEF Discipline, ThreadsInv, TreeOK, Reload, Goto, Good, FreeTree, Building
<1>3. ArrayOK'
  BY DEF ThreadsInv, ArrayOK, Reload, Goto
<1>4. ASSUME NEW t \in Threads PROVE CallOK(t)'
  BY DEF ThreadsInv, CallOK, Reload, Goto, handlerVars, threadVars
<1>5. ASSUME NEW t \in Threads PROVE TreeOK(t)'
  BY Separation
     DEF ThreadsInv, TypesOK, TreeOK, Reload, Goto, threadVars, Good, FreeTree,
         Building, Discipline
<1>. QED BY <1>1, <1>2, <1>3, <1>4, <1>5 DEF ThreadsInv

(* Nor is it when a handler is terminated. *)
LEMMA TerminateStep ==
  ASSUME Discipline, ThreadsInv, NEW s \in Threads, Terminate(s)
  PROVE  ThreadsInv'
<1>1. TypesOK'
  BY DEF ThreadsInv, TypesOK, Terminate, Goto, handlerVars, threadVars, PcValues,
         FreeTree
<1>2. Good(tld_tree[Absent])'
  BY DEF ThreadsInv, TreeOK, Terminate, Goto, Good, FreeTree, Building
<1>3. ArrayOK'
  BY DEF ThreadsInv, ArrayOK, Terminate, Goto
<1>4. ASSUME NEW t \in Threads PROVE CallOK(t)'
  BY DEF ThreadsInv, CallOK, Terminate, Goto, handlerVars, threadVars
<1>5. ASSUME NEW t \in Threads PROVE TreeOK(t)'
  BY Separation
     DEF ThreadsInv, TypesOK, TreeOK, Terminate, Goto, threadVars, Good, FreeTree,
         Building
<1>. QED BY <1>1, <1>2, <1>3, <1>4, <1>5 DEF ThreadsInv

(* Before the threads start only the shared options have a tree. *)
LEMMA InitInv == ASSUME Discipline, ThreadsInit PROVE ThreadsInv
<1>1. ASSUME NEW t \in Threads PROVE ~Shared(t)
  BY <1>1 DEF Discipline, Shared
<1>2. TypesOK /\ Good(tld_tree[Absent]) /\ ArrayOK
  BY <1>1 DEF ThreadsInit, TypesOK, Good, ArrayOK, PcValues, Tlds, Options
<1>3. ASSUME NEW t \in Threads PROVE CallOK(t) /\ TreeOK(t)
  BY <1>1, <1>3 DEF ThreadsInit, CallOK, TreeOK, Building
<1>. QED BY <1>2, <1>3 DEF ThreadsInv

(* Every step of every thread keeps the invariant. *)
LEMMA NextInv ==
  ASSUME Discipline, ThreadsInv, [ThreadsNext]_threadsVars
  PROVE  ThreadsInv'
<1>1. CASE UNCHANGED threadsVars
  BY <1>1 DEF threadsVars, handlerVars, treeVars, threadVars, ThreadsInv, TypesOK,
              ArrayOK, CallOK, TreeOK, Good
<1>2. ASSUME NEW t \in Threads, DecodeStep(t) PROVE ThreadsInv'
  BY <1>2, BeginStep, ClearStep, ScanStep, ExtractStep, SearchStep, GetStep, DoneStep
     DEF DecodeStep
<1>3. ASSUME NEW t \in Threads, TreeStep(t) PROVE ThreadsInv'
  BY <1>3, TreeAllocStep, PopulateStep, ReadListStep, AddTldsStep, DestroyStep,
     StoreStep DEF TreeStep
<1>4. ASSUME NEW t \in Threads, InitHandler(t) \/ Reload(t) \/ Terminate(t)
      PROVE  ThreadsInv'
  BY <1>4, InitHandlerStep, ReloadStep, TerminateStep
<1>. QED BY <1>1, <1>2, <1>3, <1>4 DEF ThreadsNext

(* The invariant holds for any number of threads, URLs and addresses. *)
THEOREM ThreadsInvariant == Discipline => (ThreadsSpec => []ThreadsInv)
<1>1. Discipline /\ ThreadsInit => ThreadsInv
  BY InitInv
<1>2. Discipline /\ ThreadsInv /\ [ThreadsNext]_threadsVars => ThreadsInv'
  BY NextInv
<1>3. SUFFICES ASSUME Discipline PROVE ThreadsSpec => []ThreadsInv
  OBVIOUS
<1>. QED BY <1>1, <1>2, <1>3, PTL DEF ThreadsSpec

(* Threads that keep to the discipline are isolated: each call gives back  *)
(* the TLD of its own URL, from the whole list, whatever other threads     *)
(* decode and while one of them reloads the list or terminates.            *)
THEOREM Isolation == Discipline => (ThreadsSpec => []ReadsOwnUrl)
<1>1. ThreadsInv => ReadsOwnUrl
  BY DEF ThreadsInv, CallOK, ReadsOwnUrl, TldOf
<1>. QED BY <1>1, ThreadsInvariant, PTL

(* No thread searches a TLD tree that was freed. *)
THEOREM NoUseAfterFree == Discipline => (ThreadsSpec => []SearchesLiveTree)
<1>1. ThreadsInv => SearchesLiveTree
  BY DEF ThreadsInv, TreeOK, Good, Building, SearchesLiveTree
<1>. QED BY <1>1, ThreadsInvariant, PTL

(* Types, and the array of the list exists only while a tree is built. *)
THEOREM ThreadsTypeCorrect == Discipline => (ThreadsSpec => []ThreadsTypeOK)
<1>1. ThreadsInv => ThreadsTypeOK
  BY DEF ThreadsInv, TypesOK, ArrayOK, ThreadsTypeOK
<1>. QED BY <1>1, ThreadsInvariant, PTL

-----------------------------------------------------------------------------
(* A step of the program counter is a step of the phase.                   *)
LEMMA PhaseStep ==
  ASSUME ThreadsInv, NEW s \in Threads, NEW from, NEW to, Goto(s, from, to)
  PROVE  Phase[s] = PhaseOf(from) /\ Phase' = [Phase EXCEPT ![s] = PhaseOf(to)]
  BY DEF ThreadsInv, TypesOK, Goto, Phase, PhaseOf

(* The steps that are none of the caller's business: building trees, and   *)
(* the handler's life.                                                     *)
LEMMA HiddenStep ==
  ASSUME ThreadsInv, NEW s \in Threads, NEW from, NEW to, Goto(s, from, to),
         PhaseOf(from) = PhaseOf(to), UNCHANGED <<call_url, got>>
  PROVE  UNCHANGED Service!serviceVars
<1>1. Phase' = Phase
  BY PhaseStep DEF Phase
<1>. QED BY <1>1 DEF Service!serviceVars

(* The threads start idle. *)
LEMMA InitImplements == ASSUME ThreadsInit PROVE Service!ServiceInit
<1>1. ASSUME NEW t \in Threads PROVE PhaseOf(pc[t]) = "idle"
  BY DEF ThreadsInit, PhaseOf
<1>. QED BY <1>1 DEF ThreadsInit, Service!ServiceInit, Phase

(* Begin is Ask, Get is Answer, Done is Leave; every other step is hidden. *)
LEMMA StepImplements ==
  ASSUME Discipline, ThreadsInv, [ThreadsNext]_threadsVars
  PROVE  [Service!ServiceNext]_(Service!serviceVars)
<1>1. CASE UNCHANGED threadsVars
  BY <1>1 DEF threadsVars, threadVars, Service!serviceVars, Phase
<1>2. ASSUME NEW s \in Threads, Begin(s) PROVE Service!Ask(s)
  <2>1. Phase[s] = "idle" /\ Phase' = [Phase EXCEPT ![s] = "asked"]
    BY <1>2, PhaseStep DEF Begin, PhaseOf
  <2>. QED BY <1>2, <2>1 DEF Begin, Service!Ask
<1>3. ASSUME NEW s \in Threads, Get(s) PROVE Service!Answer(s)
  <2>1. Phase[s] = "asked" /\ Phase' = [Phase EXCEPT ![s] = "answered"]
    BY <1>3, PhaseStep DEF Get, PhaseOf
  <2>2. tld[Fh(s)] = TldOf(call_url[s])
    BY <1>3 DEF Get, Goto, ThreadsInv, CallOK
  <2>. QED BY <1>3, <2>1, <2>2 DEF Get, Service!Answer, Service!TldOf, TldOf
<1>4. ASSUME NEW s \in Threads, Done(s) PROVE Service!Leave(s)
  <2>1. Phase[s] = "answered" /\ Phase' = [Phase EXCEPT ![s] = "idle"]
    BY <1>4, PhaseStep DEF Done, PhaseOf
  <2>. QED BY <1>4, <2>1 DEF Done, Service!Leave
<1>5. ASSUME NEW s \in Threads, Clear(s) \/ Scan(s) \/ Extract(s) \/ Search(s)
      PROVE  UNCHANGED Service!serviceVars
  BY <1>5, HiddenStep DEF Clear, Scan, Extract, Search, PhaseOf, threadVars
<1>6. ASSUME NEW s \in Threads, TreeStep(s) PROVE UNCHANGED Service!serviceVars
  BY <1>6, HiddenStep DEF TreeStep, TreeAlloc, Populate, ReadList, AddTlds, Destroy,
     Store, PhaseOf, threadVars
<1>7. ASSUME NEW s \in Threads, InitHandler(s) \/ Reload(s) \/ Terminate(s)
      PROVE  UNCHANGED Service!serviceVars
  BY <1>7, HiddenStep DEF InitHandler, Reload, Terminate, PhaseOf, threadVars
<1>. QED
  BY <1>1, <1>2, <1>3, <1>4, <1>5, <1>6, <1>7
     DEF ThreadsNext, DecodeStep, Service!ServiceNext

(* A thread with a handler of its own sees the service TldService promises: *)
(* each decode, interleaved with any others, answers in one step with the   *)
(* TLD of its URL.                                                          *)
THEOREM Implementation == Discipline => (ThreadsSpec => ImplementsService)
<1>. SUFFICES ASSUME Discipline PROVE ThreadsSpec => ImplementsService
  OBVIOUS
<1>1. ThreadsInit => Service!ServiceInit
  BY InitImplements
<1>2. ThreadsInv /\ [ThreadsNext]_threadsVars => [Service!ServiceNext]_(Service!serviceVars)
  BY StepImplements
<1>3. ThreadsSpec => []ThreadsInv
  BY ThreadsInvariant
<1>. QED
  BY <1>1, <1>2, <1>3, PTL DEF ThreadsSpec, ImplementsService, Service!ServiceSpec

=============================================================================
