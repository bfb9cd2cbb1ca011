----------------------------- MODULE WorkerPool -----------------------------
(***************************************************************************)
(* The threads of the webserver, from mg_start to the exit of the process: *)
(* the main thread, which starts it, registers the handlers and is the one *)
(* that SIGINT interrupts (lib/webserver.c, tools/faup.c); the master,     *)
(* which accepts connections and gives each to a worker; the workers.      *)
(* (lib/civetweb/civetweb.c, as it is compiled: with ALTERNATIVE_QUEUE, a  *)
(* slot and an event for every worker instead of a queue.)                 *)
(*                                                                         *)
(* Every worker serves one request per connection, since keep-alive is not *)
(* enabled.  What a request asks for is fixed with its connection; whether *)
(* it arrives is not.                                                      *)
(***************************************************************************)
EXTENDS Integers, FiniteSets

CONSTANTS Workers,    \* the number of workers, num_threads
          Conns,      \* the connections that come, each when it is accepted
          NoConn,     \* none of them
          Locking     \* those whose request is for /json or /snapshot

ASSUME WorkersAssumption == Workers \in Nat \ {0}
ASSUME LockingAssumption == Locking \subseteq Conns
ASSUME NoConnAssumption == NoConn \notin Conns

Indices == 0 .. Workers - 1

VARIABLES
  main,        \* where the main thread is
  master,      \* where the master is
  worker,      \* where every worker is
  threads,     \* how many workers were created
  stop_flag,   \* 0, 1: to stop, 2: the master is done
  ctx,         \* the pointer of webserver.c: "null", "set", "freed"
  handlers,    \* the handlers are registered
  freed,       \* options and handler of faup were freed
  thread_mutex,\* who holds the mutex of the context
  lock,        \* who holds the lock of webserver.c
  backlog,     \* connections that the master has not accepted yet
  m_sock, m_i, \* master: the connection it gives away, the worker it looks at
  slot,        \* client_socks: the connection of every slot
  in_use,      \* and its mark
  event,       \* client_wait_events: signalled
  conn,        \* the connection of every worker
  closed,      \* history: how often every connection was closed
  early,       \* history: a slot was filled whose worker did not wait
  caught       \* history: SIGINT found the main thread with thread_mutex

mainVars == <<main, threads, ctx, handlers, freed, caught>>
masterVars == <<master, m_sock, m_i, early>>
slotVars == <<slot, in_use, event>>
workerVars == <<worker, conn, closed>>
vars == <<mainVars, masterVars, slotVars, workerVars, backlog, stop_flag, thread_mutex, lock>>

Init ==
  /\ main = "mg_start" /\ master = "off" /\ worker = [w \in Indices |-> "off"]
  /\ threads = 0 /\ stop_flag = 0 /\ ctx = "null"
  /\ handlers = FALSE /\ freed = FALSE
  /\ thread_mutex = "none" /\ lock = Workers
  /\ backlog = Conns
  /\ m_sock = NoConn /\ m_i = 0
  /\ slot = [w \in Indices |-> NoConn]
  /\ in_use = [w \in Indices |-> 0] /\ event = [w \in Indices |-> FALSE]
  /\ conn = [w \in Indices |-> NoConn] /\ closed = [c \in Conns |-> 0]
  /\ early = FALSE /\ caught = FALSE

(***************************************************************************)
(* The main thread: mg_start, then the handlers, then sleep.               *)
(***************************************************************************)
MainKeeps == UNCHANGED <<slotVars, backlog, m_sock, m_i, early, conn, closed, lock, freed, caught>>

StartMaster ==
  /\ main = "mg_start" /\ master = "off"
  /\ master' = "poll"
  /\ MainKeeps /\ UNCHANGED <<main, worker, threads, stop_flag, ctx, handlers, thread_mutex>>

StartWorker ==
  /\ main = "mg_start" /\ master # "off" /\ threads < Workers
  /\ worker' = [worker EXCEPT ![threads] = "loop"]
  /\ threads' = threads + 1
  /\ MainKeeps /\ UNCHANGED <<main, master, stop_flag, ctx, handlers, thread_mutex>>

Started ==
  /\ main = "mg_start" /\ threads = Workers
  /\ ctx' = "set" /\ main' = "register"
  /\ MainKeeps /\ UNCHANGED <<master, worker, threads, stop_flag, handlers, thread_mutex>>

(* mg_set_handler_type, for the three handlers *)
LockContext ==
  /\ main = "register" /\ thread_mutex = "none"
  /\ thread_mutex' = "main" /\ main' = "registering"
  /\ MainKeeps /\ UNCHANGED <<master, worker, threads, stop_flag, ctx, handlers>>

Register ==
  /\ main = "registering"
  /\ handlers' = TRUE /\ thread_mutex' = "none" /\ main' = "sleep"
  /\ MainKeeps /\ UNCHANGED <<master, worker, threads, stop_flag, ctx>>

InHandler == main \in {"stop", "wait", "free", "exit", "exited"}

(* SIGINT: sighandler_webserver, wherever the main thread is. *)
Interrupt ==
  /\ ~InHandler
  /\ main' = "stop" /\ caught' = (thread_mutex = "main")
  /\ UNCHANGED <<masterVars, slotVars, workerVars, backlog, threads, stop_flag, ctx, handlers,
                 freed, thread_mutex, lock>>

(* mg_stop does nothing when mg_start has not returned. *)
Stop ==
  /\ main = "stop"
  /\ IF ctx = "null"
     THEN main' = "free" /\ UNCHANGED stop_flag
     ELSE main' = "wait" /\ stop_flag' = 1
  /\ MainKeeps /\ UNCHANGED <<master, worker, threads, ctx, handlers, thread_mutex>>

FreeContext_NoWait ==
  /\ main = "wait" /\ stop_flag = 1
  /\ ctx' = "freed" /\ main' = "free"
  /\ MainKeeps /\ UNCHANGED <<master, worker, threads, stop_flag, handlers, thread_mutex>>

FreeContext ==
  /\ main = "wait" /\ stop_flag = 2
  /\ ctx' = "freed" /\ main' = "free"
  /\ MainKeeps /\ UNCHANGED <<master, worker, threads, stop_flag, handlers, thread_mutex>>

(* faup_options_free, faup_terminate, then exit *)
FreeHandler ==
  /\ main = "free"
  /\ freed' = TRUE /\ main' = "exit"
  /\ UNCHANGED <<masterVars, slotVars, workerVars, backlog, threads, stop_flag, ctx, handlers,
                 caught, thread_mutex, lock>>

Exit ==
  /\ main = "exit"
  /\ main' = "exited"
  /\ MainKeeps /\ UNCHANGED <<master, worker, threads, stop_flag, ctx, handlers, thread_mutex>>

Main == \/ StartMaster \/ StartWorker \/ Started \/ LockContext \/ Register
        \/ Stop \/ FreeContext \/ FreeHandler \/ Exit

(***************************************************************************)
(* The master.                                                             *)
(***************************************************************************)
Alive == main # "exited"
MasterKeeps == UNCHANGED <<mainVars, workerVars, lock>>

(* accept_new_connection *)
Accept ==
  /\ master = "poll" /\ stop_flag = 0
  /\ \E c \in backlog : m_sock' = c /\ backlog' = backlog \ {c}
  /\ master' = "produce" /\ m_i' = Workers
  /\ MasterKeeps /\ UNCHANGED <<slotVars, early, stop_flag, thread_mutex>>

(* produce_socket: the first slot that is not in use; at the end of the    *)
(* slots, and before the first, it looks whether it is to stop.            *)
FillSlot_Any ==
  /\ master = "produce" /\ m_i \in Indices
  /\ slot' = [slot EXCEPT ![m_i] = m_sock] /\ in_use' = [in_use EXCEPT ![m_i] = 1]
  /\ early' = (early \/ worker[m_i] \in {"off", "loop", "idle"}) /\ master' = "signal"
  /\ MasterKeeps /\ UNCHANGED <<backlog, m_sock, m_i, event, stop_flag, thread_mutex>>

FillSlot ==
  /\ master = "produce" /\ m_i \in Indices /\ in_use[m_i] = 0
  /\ slot' = [slot EXCEPT ![m_i] = m_sock] /\ in_use' = [in_use EXCEPT ![m_i] = 1]
  /\ early' = (early \/ worker[m_i] # "waiting") /\ master' = "signal"
  /\ MasterKeeps /\ UNCHANGED <<backlog, m_sock, m_i, event, stop_flag, thread_mutex>>

NextSlot ==
  /\ master = "produce" /\ m_i \in Indices /\ in_use[m_i] # 0
  /\ m_i' = m_i + 1
  /\ MasterKeeps /\ UNCHANGED <<slotVars, backlog, master, m_sock, early, stop_flag, thread_mutex>>

FirstSlot ==
  /\ master = "produce" /\ m_i = Workers /\ stop_flag = 0
  /\ m_i' = 0
  /\ MasterKeeps /\ UNCHANGED <<slotVars, backlog, master, m_sock, early, stop_flag, thread_mutex>>

(* The connection is left open. *)
GiveUp ==
  /\ master = "produce" /\ m_i = Workers /\ stop_flag # 0
  /\ master' = "poll" /\ m_sock' = NoConn
  /\ MasterKeeps /\ UNCHANGED <<slotVars, backlog, m_i, early, stop_flag, thread_mutex>>

Signal ==
  /\ master = "signal"
  /\ event' = [event EXCEPT ![m_i] = TRUE]
  /\ master' = "poll" /\ m_sock' = NoConn
  /\ MasterKeeps /\ UNCHANGED <<slot, in_use, backlog, m_i, early, stop_flag, thread_mutex>>

(* It stops: wakes every worker (with thread_mutex, and shuts down what is *)
(* in use, which is not needed: reading ends when it is to stop), waits    *)
(* for all of them.                                                        *)
BeginStop ==
  /\ master = "poll" /\ stop_flag # 0 /\ thread_mutex = "none"
  /\ thread_mutex' = "master" /\ master' = "wake" /\ m_i' = 0 /\ backlog' = {}
  /\ MasterKeeps /\ UNCHANGED <<slotVars, m_sock, early, stop_flag>>

Wake_InUseOnly ==
  /\ master = "wake" /\ m_i < Workers
  /\ event' = [event EXCEPT ![m_i] = in_use[m_i] = 1] /\ m_i' = m_i + 1
  /\ MasterKeeps /\ UNCHANGED <<slot, in_use, backlog, master, m_sock, early, stop_flag, thread_mutex>>

Wake ==
  /\ master = "wake" /\ m_i < Workers
  /\ event' = [event EXCEPT ![m_i] = TRUE] /\ m_i' = m_i + 1
  /\ MasterKeeps /\ UNCHANGED <<slot, in_use, backlog, master, m_sock, early, stop_flag, thread_mutex>>

AllWoken ==
  /\ master = "wake" /\ m_i = Workers
  /\ thread_mutex' = "none" /\ master' = "join"
  /\ MasterKeeps /\ UNCHANGED <<slotVars, backlog, m_sock, m_i, early, stop_flag>>

Join ==
  /\ master = "join" /\ \A w \in Indices : worker[w] = "done"
  /\ stop_flag' = 2 /\ master' = "done"
  /\ MasterKeeps /\ UNCHANGED <<slotVars, backlog, m_sock, m_i, early, thread_mutex>>

Master == \/ Accept \/ FillSlot \/ NextSlot \/ FirstSlot \/ GiveUp \/ Signal
          \/ BeginStop \/ Wake \/ AllWoken \/ Join

(***************************************************************************)
(* Worker w.                                                               *)
(***************************************************************************)
At(w, here, there) == worker[w] = here /\ worker' = [worker EXCEPT ![w] = there]
WorkerKeeps == UNCHANGED <<mainVars, masterVars, backlog, stop_flag, thread_mutex>>
OnlyMoves == WorkerKeeps /\ UNCHANGED <<slotVars, conn, closed, lock>>

EndLoop(w) == stop_flag # 0 /\ At(w, "loop", "done") /\ OnlyMoves
Loop(w) == stop_flag = 0 /\ At(w, "loop", "idle") /\ OnlyMoves

(* consume_socket *)
GoIdle(w) ==
  /\ At(w, "idle", "waiting")
  /\ in_use' = [in_use EXCEPT ![w] = 0]
  /\ WorkerKeeps /\ UNCHANGED <<slot, event, conn, closed, lock>>

Take(w) ==
  /\ event[w] /\ At(w, "waiting", "taken")
  /\ event' = [event EXCEPT ![w] = FALSE] /\ conn' = [conn EXCEPT ![w] = slot[w]]
  /\ WorkerKeeps /\ UNCHANGED <<slot, in_use, closed, lock>>

(* What it took is left open when it is to stop. *)
Quit(w) == stop_flag # 0 /\ At(w, "taken", "done") /\ OnlyMoves
Begin(w) == stop_flag = 0 /\ At(w, "taken", "reading") /\ OnlyMoves

(* process_new_connection: there is a request, or none comes in time, or   *)
(* none that can be understood, or the server is to stop.                  *)
GetRequest(w) == At(w, "reading", "routing") /\ OnlyMoves
NoRequest(w) == At(w, "reading", "closing") /\ OnlyMoves

(* get_request_handler, with thread_mutex: before the handlers are         *)
(* registered any request is one for a file, which is answered, as those   *)
(* of root_handler are, with nothing that other threads use.               *)
Route(w) ==
  /\ thread_mutex = "none"
  /\ At(w, "routing", IF handlers /\ conn[w] \in Locking THEN "entering" ELSE "closing")
  /\ OnlyMoves

(* json_output and snapshot_handler, which use the handler of faup *)
Enter(w) ==
  /\ lock = Workers /\ At(w, "entering", "handling")
  /\ lock' = w
  /\ WorkerKeeps /\ UNCHANGED <<slotVars, conn, closed>>

Leave_KeepsLock(w) ==
  /\ At(w, "handling", "closing")
  /\ UNCHANGED lock
  /\ WorkerKeeps /\ UNCHANGED <<slotVars, conn, closed>>

Leave(w) ==
  /\ At(w, "handling", "closing")
  /\ lock' = Workers
  /\ WorkerKeeps /\ UNCHANGED <<slotVars, conn, closed>>

(* close_connection *)
Close(w) ==
  /\ At(w, "closing", "loop")
  /\ closed' = IF conn[w] # NoConn THEN [closed EXCEPT ![conn[w]] = @ + 1] ELSE closed
  /\ conn' = [conn EXCEPT ![w] = NoConn]
  /\ WorkerKeeps /\ UNCHANGED <<slotVars, lock>>

Worker(w) ==
  \/ EndLoop(w) \/ Loop(w) \/ GoIdle(w) \/ Take(w) \/ Quit(w) \/ Begin(w)
  \/ GetRequest(w) \/ NoRequest(w) \/ Route(w) \/ Enter(w) \/ Leave(w) \/ Close(w)

Next ==
  /\ Alive
  /\ \/ Main \/ Interrupt \/ Master
     \/ \E w \in Indices : Worker(w)

(* Threads go on when they can; a request that does not come is given up   *)
(* after request_timeout.  Nobody has to interrupt.                        *)
Fairness ==
  /\ WF_vars(Alive /\ Main) /\ WF_vars(Alive /\ Master)
  /\ \A w \in Indices : WF_vars(Alive /\ Worker(w))

Spec == Init /\ [][Next]_vars /\ Fairness

(***************************************************************************)
(* Properties                                                              *)
(***************************************************************************)
Holding == {"reading", "routing", "entering", "handling", "closing"}
                \cup IF stop_flag = 0 THEN {"taken"} ELSE {}

InHand(c) == IF master = "produce" /\ m_sock = c THEN 1 ELSE 0
InSlots(c) == {w \in Indices : slot[w] = c /\ in_use[w] = 1 /\ worker[w] = "waiting"}
Holders(c) == {w \in Indices : conn[w] = c /\ worker[w] \in Holding}

(* produce_socket and consume_socket: from when it is accepted to when it  *)
(* is closed a connection is in one place: the master gives it away, or it *)
(* is in the slot of a worker that will take it, or a worker has it; then  *)
(* it is closed, once.  No slot is filled before its worker took what was  *)
(* in it.  Only a server that stops leaves connections behind.  A slot     *)
(* that is filled before its worker first waits is overwritten, and from   *)
(* then on the worker is busy with its slot not in use (early).            *)
InOnePlace ==
  ~early =>
    \A c \in Conns \ backlog :
      LET places == InHand(c) + Cardinality(InSlots(c)) + Cardinality(Holders(c)) + closed[c]
      IN places <= 1 /\ (stop_flag = 0 => places = 1)

(* sighandler_webserver: what it frees is used by no thread any more, and  *)
(* two requests never use it at the same time, whenever SIGINT arrives.    *)
FreedWhenQuiet ==
  LET users == {w \in Indices : worker[w] = "handling"}
  IN /\ Cardinality(users) <= 1
     /\ freed => users = {}
     /\ ctx = "freed" => master = "done" /\ \A w \in Indices : worker[w] \in {"off", "done"}

(* Every connection is closed in the end, if the server goes on, however   *)
(* many wait and whatever their clients do.                                *)
AllServed ==
  \A c \in Conns : <>(closed[c] > 0 \/ InHandler \/ early)

(* SIGINT ends the process, unless it found the main thread while it       *)
(* registered a handler: the master then waits for thread_mutex, and       *)
(* mg_stop for the master.                                                 *)
StopEnds == InHandler ~> main = "exited" \/ caught
=============================================================================
