------------------------------ MODULE Threads -------------------------------
(***************************************************************************)
(* Several threads in the library at once.  What they can share: a handler *)
(* (the parts of the URL it decodes), the options of a handler (the TLD    *)
(* tree) and the global array the TLD list is read into.  Nothing is       *)
(* locked.  A URL is reduced to whether its host has a TLD, a decode to    *)
(* the steps that write or read what may be shared.                        *)
(***************************************************************************)
EXTENDS Naturals

CONSTANTS
  Threads, Handlers,
  HandlerOf,            \* the handler each thread uses
  External,             \* handlers that faup_init was given options for: the same
  Reloaders,            \* threads that reload the TLD list now and then
  Urls, WithTld,        \* the URLs, those that have a TLD
  Trees,                \* the addresses a TLD tree can have
  Absent                \* the pointer NULL, the position -1, ...

ASSUME HandlerOfAssumption == HandlerOf \in [Threads -> Handlers]
ASSUME ExternalAssumption == External \subseteq Handlers
ASSUME ReloadersAssumption == Reloaders \subseteq Threads
ASSUME WithTldAssumption == WithTld \subseteq Urls
ASSUME AbsentAssumption == Absent \notin Trees \cup Urls \cup Handlers

(* Options are named by the handler that made them, shared ones by Absent. *)
OptionsOf(h) == IF h \in External THEN Absent ELSE h
Options == {Absent} \cup Handlers

VARIABLES
  pc,                   \* what each thread does next
  org_str, host, tld,   \* per handler: whose string, host and TLD it holds
  tld_tree,             \* per options: its tree
  live, whole,          \* trees that are allocated; that hold all of the list
  tlds,                 \* _tlds: the array the list is read into
  call_url,             \* per thread: the URL it decodes
  held,                 \* per thread: the tree it searches or builds
  got                   \* per thread: the TLD it read back

handlerVars == <<org_str, host, tld>>
treeVars    == <<tld_tree, live, whole, tlds>>
threadVars  == <<call_url, held, got>>
threadsVars == <<pc, handlerVars, treeVars, threadVars>>

Mixed == "mixed"        \* parts of different URLs

Fh(t)  == HandlerOf[t]
Opt(t) == OptionsOf(HandlerOf[t])
IsExternal(t) == HandlerOf[t] \in External

(* A handler that several threads use is made before they start and        *)
(* terminated after they end (as in tests/multithreads.c).                 *)
Shared(t) == \E u \in Threads \ {t} : HandlerOf[u] = HandlerOf[t]

Goto(t, from, to) == pc[t] = from /\ pc' = [pc EXCEPT ![t] = to]

-----------------------------------------------------------------------------
(* faup_decode(), and the getters *)

(* The handler is told which string it is about. *)
Begin(t) ==
  /\ Goto(t, "idle", "clear")
  /\ \E u \in Urls :
       /\ call_url' = [call_url EXCEPT ![t] = u]
       /\ org_str' = [org_str EXCEPT ![Fh(t)] = u]
  /\ UNCHANGED <<host, tld, treeVars, held, got>>

(* Mutant: the positions of the previous URL stay. *)
Clear_Forgotten(t) ==
  /\ Goto(t, "clear", "scan")
  /\ UNCHANGED <<handlerVars, treeVars, threadVars>>

(* faup_features_find() forgets the previous URL... *)
Clear(t) ==
  /\ Goto(t, "clear", "scan")
  /\ host' = [host EXCEPT ![Fh(t)] = Absent]
  /\ tld' = [tld EXCEPT ![Fh(t)] = Absent]
  /\ UNCHANGED <<org_str, treeVars, threadVars>>

(* ... and finds the parts of this one. *)
Scan(t) ==
  /\ Goto(t, "scan", IF call_url[t] \in WithTld THEN "extract" ELSE "get")
  /\ host' = [host EXCEPT ![Fh(t)] = call_url[t]]
  /\ UNCHANGED <<org_str, tld, treeVars, threadVars>>

(* The host has a TLD: faup_tld_tree_extract() takes the tree of the       *)
(* options...                                                              *)
Extract(t) ==
  /\ Goto(t, "extract", "search")
  /\ held' = [held EXCEPT ![t] = tld_tree[Opt(t)]]
  /\ UNCHANGED <<handlerVars, treeVars, call_url, got>>

(* ... and searches it for the host of the handler, in the string of the   *)
(* handler.  Without a tree the TLD is the last label.                     *)
Search(t) ==
  LET found == IF org_str[Fh(t)] = host[Fh(t)] THEN host[Fh(t)] ELSE Mixed
  IN /\ Goto(t, "search", "get")
     /\ tld' = [tld EXCEPT ![Fh(t)] = [of |-> found, listed |-> held[t] \in whole]]
     /\ held' = [held EXCEPT ![t] = Absent]
     /\ UNCHANGED <<org_str, host, treeVars, call_url, got>>

(* faup_get_tld_pos() and faup_get_tld_size(). *)
Get(t) ==
  /\ Goto(t, "get", "got")
  /\ got' = [got EXCEPT ![t] = tld[Fh(t)]]
  /\ UNCHANGED <<handlerVars, treeVars, call_url, held>>

Done(t) ==
  /\ Goto(t, "got", "idle")
  /\ call_url' = [call_url EXCEPT ![t] = Absent]
  /\ got' = [got EXCEPT ![t] = Absent]
  /\ UNCHANGED <<handlerVars, treeVars, held>>

-----------------------------------------------------------------------------
(* faup_tld_tree_new() *)

(* Any address that is not in use, a freed one too. *)
TreeAlloc(t) ==
  /\ Goto(t, "alloc", "populate")
  /\ \E a \in Trees \ live :
       /\ held' = [held EXCEPT ![t] = a]
       /\ live' = live \cup {a}
       /\ whole' = whole \ {a}
  /\ UNCHANGED <<handlerVars, tld_tree, tlds, call_url, got>>

(* faup_tld_array_populate() fails when the array is there already: then   *)
(* there is no tree.                                                       *)
Populate(t) ==
  /\ IF tlds = Absent
     THEN Goto(t, "populate", "read") /\ tlds' = "partial" /\ UNCHANGED held
     ELSE /\ Goto(t, "populate", "store")
          /\ held' = [held EXCEPT ![t] = Absent]
          /\ UNCHANGED tlds
  /\ UNCHANGED <<handlerVars, tld_tree, live, whole, call_url, got>>

ReadList(t) ==
  /\ Goto(t, "read", "add")
  /\ tlds' = IF tlds = "partial" THEN "all" ELSE tlds
  /\ UNCHANGED <<handlerVars, tld_tree, live, whole, threadVars>>

AddTlds(t) ==
  /\ Goto(t, "add", "destroy")
  /\ whole' = IF tlds = "all" THEN whole \cup {held[t]} ELSE whole
  /\ UNCHANGED <<handlerVars, tld_tree, live, tlds, threadVars>>

(* Mutant: the array is freed, its pointer is kept. *)
Destroy_KeepsPointer(t) ==
  /\ Goto(t, "destroy", "store")
  /\ UNCHANGED <<handlerVars, treeVars, threadVars>>

Destroy(t) ==
  /\ Goto(t, "destroy", "store")
  /\ tlds' = Absent
  /\ UNCHANGED <<handlerVars, tld_tree, live, whole, threadVars>>

(* The options get the tree. *)
Store(t) ==
  /\ Goto(t, "store", "idle")
  /\ tld_tree' = [tld_tree EXCEPT ![Opt(t)] = held[t]]
  /\ held' = [held EXCEPT ![t] = Absent]
  /\ UNCHANGED <<handlerVars, live, whole, tlds, call_url, got>>

-----------------------------------------------------------------------------
(* Handlers *)

FreeTree(o) == live' = live \ {tld_tree[o]}

(* faup_init(): without options, the handler makes its own. *)
InitHandler(t) ==
  /\ ~Shared(t)
  /\ Goto(t, "none", IF IsExternal(t) THEN "idle" ELSE "alloc")
  /\ tld' = [tld EXCEPT ![Fh(t)] = Absent]
  /\ host' = [host EXCEPT ![Fh(t)] = Absent]
  /\ org_str' = [org_str EXCEPT ![Fh(t)] = Absent]
  /\ UNCHANGED <<treeVars, threadVars>>

(* faup_reload_tld_mozilla_list(): the tree is freed first. *)
Reload(t) ==
  /\ t \in Reloaders
  /\ Goto(t, "idle", "alloc")
  /\ FreeTree(Opt(t))
  /\ UNCHANGED <<handlerVars, tld_tree, whole, tlds, threadVars>>

(* Mutant: the options are freed whoever made them. *)
Terminate_FreesExternal(t) ==
  /\ ~Shared(t)
  /\ Goto(t, "idle", "none")
  /\ FreeTree(Opt(t))
  /\ UNCHANGED <<handlerVars, tld_tree, whole, tlds, threadVars>>

(* faup_terminate() frees the options the handler made, no others. *)
Terminate(t) ==
  /\ ~Shared(t)
  /\ Goto(t, "idle", "none")
  /\ IF IsExternal(t) THEN UNCHANGED live ELSE FreeTree(Opt(t))
  /\ UNCHANGED <<handlerVars, tld_tree, whole, tlds, threadVars>>

-----------------------------------------------------------------------------

(* The shared options were made before the threads: their tree is whole.   *)
ThreadsInit ==
  /\ pc = [t \in Threads |-> IF Shared(t) THEN "idle" ELSE "none"]
  /\ org_str = [h \in Handlers |-> Absent]
  /\ host = [h \in Handlers |-> Absent]
  /\ tld = [h \in Handlers |-> Absent]
  /\ \E a \in Trees :
       /\ tld_tree = [o \in Options |-> IF o = Absent THEN a ELSE Absent]
       /\ live = {a} /\ whole = {a}
  /\ tlds = Absent
  /\ call_url = [t \in Threads |-> Absent]
  /\ held = [t \in Threads |-> Absent]
  /\ got = [t \in Threads |-> Absent]

DecodeStep(t) ==
  Begin(t) \/ Clear(t) \/ Scan(t) \/ Extract(t) \/ Search(t) \/ Get(t) \/ Done(t)

TreeStep(t) ==
  TreeAlloc(t) \/ Populate(t) \/ ReadList(t) \/ AddTlds(t) \/ Destroy(t) \/ Store(t)

ThreadsNext ==
  \E t \in Threads :
    DecodeStep(t) \/ TreeStep(t) \/ InitHandler(t) \/ Reload(t) \/ Terminate(t)

ThreadsSpec == ThreadsInit /\ [][ThreadsNext]_threadsVars

-----------------------------------------------------------------------------

PcValues == {"none", "idle", "clear", "scan", "extract", "search", "get", "got",
             "alloc", "populate", "read", "add", "destroy", "store"}

Tlds == [of : Urls \cup {Mixed, Absent}, listed : BOOLEAN] \cup {Absent}

(* The global array exists only while a thread builds a tree.              *)
ThreadsTypeOK ==
  /\ pc \in [Threads -> PcValues]
  /\ org_str \in [Handlers -> Urls \cup {Absent}]
  /\ host \in [Handlers -> Urls \cup {Absent}]
  /\ tld \in [Handlers -> Tlds]
  /\ tld_tree \in [Options -> Trees \cup {Absent}]
  /\ live \subseteq Trees
  /\ whole \subseteq Trees
  /\ tlds \in {Absent, "partial", "all"}
  /\ tlds # Absent => \E t \in Threads : pc[t] \in {"read", "add", "destroy"}
  /\ call_url \in [Threads -> Urls \cup {Absent}]
  /\ held \in [Threads -> Trees \cup {Absent}]
  /\ got \in [Threads -> Tlds]

(* What a thread reads back is the TLD of the URL it decoded, taken from   *)
(* the whole list, and nothing for a URL that has none: no other call, of  *)
(* its own or of another thread, shows.                                    *)
ReadsOwnUrl ==
  \A t \in Threads : pc[t] = "got" =>
    got[t] = IF call_url[t] \in WithTld THEN [of |-> call_url[t], listed |-> TRUE]
             ELSE Absent

(* A tree is never searched after it was freed: reloading the list and     *)
(* terminating a handler leave the trees of the other threads alone.       *)
SearchesLiveTree ==
  \A t \in Threads : pc[t] = "search" => held[t] \in live \cup {Absent}

-----------------------------------------------------------------------------
(* A call is asked from its start until its caller has read the TLD.       *)
PhaseOf(at) ==
  IF at \in {"clear", "scan", "extract", "search", "get"} THEN "asked"
  ELSE IF at = "got" THEN "answered" ELSE "idle"

Phase == [t \in Threads |-> PhaseOf(pc[t])]

Service == INSTANCE TldService WITH phase <- Phase, asked <- call_url, answer <- got

(* Decoding with a handler of one's own looks like one step that answers   *)
(* with the TLD of the URL, whatever the other threads decode, reload or   *)
(* free meanwhile.                                                         *)
ImplementsService == Service!ServiceSpec

=============================================================================
