---------------------------- MODULE ServerProofs -----------------------------
(***************************************************************************)
(* What SIGINT frees is used by nobody (sighandler_webserver, mg_stop),    *)
(* every connection is in one place (produce_socket, consume_socket), and  *)
(* none of them keeps its worker longer than it may (read_message) or is   *)
(* answered for something else than what it sent (get_request), down to    *)
(* the value that a handler gets (mg_get_var, base64_decode_block): for    *)
(* every number of workers, every set of connections, whatever is sent.    *)
(***************************************************************************)
EXTENDS WorkerPool, HttpRequest, FiniteSetTheorems, WellFoundedInduction, TLAPS

(***************************************************************************)
(* The threads                                                             *)
(***************************************************************************)
WorkerAt == {"off", "loop", "idle", "waiting", "taken", "reading", "routing", "entering", "handling",
             "closing", "done"}

MainAt == {"mg_start", "register", "registering", "sleep", "stop", "wait", "free", "exit", "exited"}

Types ==
  /\ main \in MainAt
  /\ worker \in [Indices -> WorkerAt]
  /\ stop_flag \in {0, 1, 2}
  /\ ctx \in {"null", "set", "freed"}
  /\ handlers \in BOOLEAN /\ freed \in BOOLEAN

(* One request at a time is with a handler, and only when there are any:   *)
(* they are registered when mg_start has returned.                         *)
LockOK ==
  /\ \A w \in Indices : worker[w] = "handling" => lock = w
  /\ \A w \in Indices : worker[w] \in {"entering", "handling"} => handlers
  /\ handlers => ctx # "null"

(* The main thread is past what it frees: mg_stop returns at once when     *)
(* there is no context, or when the master has joined all workers.         *)
StopOK ==
  /\ main = "mg_start" => ctx = "null"
  /\ main \in {"register", "registering", "sleep", "wait"} => ctx = "set"
  /\ main \in {"free", "exit", "exited"} => ctx \in {"null", "freed"}
  /\ stop_flag # 0 => main \in {"wait", "free", "exit", "exited"} /\ ctx # "null"
  /\ ctx = "freed" => stop_flag = 2
  /\ master \in {"wake", "join"} => stop_flag # 0
  /\ stop_flag = 2 => master = "done" /\ \A w \in Indices : worker[w] = "done"
  /\ freed => main \in {"exit", "exited"}

Quiet == Types /\ LockOK /\ StopOK

THEOREM QuietInit == Init => Quiet
<1> SUFFICES ASSUME Init PROVE Quiet
  OBVIOUS
<1>1. Types BY DEF Init, Types, MainAt, WorkerAt
<1>2. LockOK BY DEF Init, LockOK
<1>3. StopOK BY DEF Init, StopOK
<1> QED BY <1>1, <1>2, <1>3 DEF Quiet

LEMMA QuietMain ==
  ASSUME Quiet, Main \/ Interrupt PROVE Quiet'
<1> USE DEF Quiet, Types, LockOK, StopOK, MainAt, WorkerAt, MainKeeps, InHandler,
            masterVars, slotVars, workerVars, mainVars
<1>1. CASE StartMaster BY <1>1 DEF StartMaster
<1>2. CASE StartWorker
  <2>1. /\ worker' \in [Indices -> WorkerAt]
        /\ \A w \in Indices : worker'[w] \in {worker[w], "loop"}
    BY <1>2 DEF StartWorker
  <2>2. UNCHANGED <<main, master, stop_flag, ctx, handlers, freed, lock>> /\ main = "mg_start"
    BY <1>2 DEF StartWorker
  <2>3. \A w \in Indices : worker'[w] \in {"entering", "handling"} => worker[w] = worker'[w]
    BY <2>1
  <2>4. Types' BY <2>1, <2>2
  <2>5. LockOK' BY <2>2, <2>3
  <2>6. StopOK' BY <2>2
  <2> QED BY <2>4, <2>5, <2>6
<1>3. CASE Started BY <1>3 DEF Started
<1>4. CASE LockContext BY <1>4 DEF LockContext
<1>5. CASE Register BY <1>5 DEF Register
<1>6. CASE Stop BY <1>6 DEF Stop
<1>7. CASE FreeContext BY <1>7 DEF FreeContext
<1>8. CASE FreeHandler BY <1>8 DEF FreeHandler
<1>9. CASE Exit BY <1>9 DEF Exit
<1>10. CASE Interrupt BY <1>10 DEF Interrupt
<1> QED BY <1>1, <1>2, <1>3, <1>4, <1>5, <1>6, <1>7, <1>8, <1>9, <1>10 DEF Main

LEMMA QuietMaster ==
  ASSUME Quiet, Master PROVE Quiet'
<1> USE DEF Quiet, Types, LockOK, StopOK, MainAt, WorkerAt, MasterKeeps, mainVars, slotVars, workerVars
<1>1. CASE Accept BY <1>1 DEF Accept
<1>2. CASE FillSlot BY <1>2 DEF FillSlot
<1>3. CASE NextSlot BY <1>3 DEF NextSlot
<1>4. CASE FirstSlot BY <1>4 DEF FirstSlot
<1>5. CASE GiveUp BY <1>5 DEF GiveUp
<1>6. CASE Signal BY <1>6 DEF Signal
<1>7. CASE BeginStop BY <1>7 DEF BeginStop
<1>8. CASE Wake BY <1>8 DEF Wake
<1>9. CASE AllWoken BY <1>9 DEF AllWoken
<1>10. CASE Join BY <1>10 DEF Join
<1> QED BY <1>1, <1>2, <1>3, <1>4, <1>5, <1>6, <1>7, <1>8, <1>9, <1>10 DEF Master

LEMMA QuietWorker ==
  ASSUME Quiet, NEW w \in Indices, Worker(w) PROVE Quiet'
<1> USE DEF Quiet, Types, LockOK, StopOK, MainAt, WorkerAt, At, WorkerKeeps, OnlyMoves, mainVars,
            masterVars, slotVars
<1>1. CASE EndLoop(w) BY <1>1 DEF EndLoop
<1>2. CASE Loop(w) BY <1>2 DEF Loop
<1>3. CASE GoIdle(w) BY <1>3 DEF GoIdle
<1>4. CASE Take(w) BY <1>4 DEF Take
<1>5. CASE Quit(w) BY <1>5 DEF Quit
<1>6. CASE Begin(w) BY <1>6 DEF Begin
<1>7. CASE GetRequest(w) BY <1>7 DEF GetRequest
<1>8. CASE NoRequest(w) BY <1>8 DEF NoRequest
<1>9. CASE Route(w) BY <1>9 DEF Route
<1>10. CASE Enter(w) BY <1>10, WorkersAssumption DEF Enter, Indices
<1>11. CASE Leave(w) BY <1>11 DEF Leave
<1>12. CASE Close(w) BY <1>12 DEF Close
<1> QED BY <1>1, <1>2, <1>3, <1>4, <1>5, <1>6, <1>7, <1>8, <1>9, <1>10, <1>11, <1>12 DEF Worker

LEMMA QuietStep == Quiet /\ [Next]_vars => Quiet'
<1> SUFFICES ASSUME Quiet, [Next]_vars PROVE Quiet'
  OBVIOUS
<1>1. CASE UNCHANGED vars
  BY <1>1 DEF vars, mainVars, masterVars, workerVars, slotVars, Quiet, Types, LockOK, StopOK, MainAt, WorkerAt
<1>2. CASE Main \/ Interrupt BY <1>2, QuietMain
<1>3. CASE Master BY <1>3, QuietMaster
<1>4. CASE \E w \in Indices : Worker(w) BY <1>4, QuietWorker
<1> QED BY <1>1, <1>2, <1>3, <1>4 DEF Next

LEMMA QuietIsEnough == Quiet => FreedWhenQuiet
<1> SUFFICES ASSUME Quiet PROVE FreedWhenQuiet
  OBVIOUS
<1> DEFINE users == {w \in Indices : worker[w] = "handling"}
<1>1. users \subseteq {lock}
  BY DEF Quiet, LockOK
<1>2. Cardinality(users) <= 1
  <2>1. IsFiniteSet({lock}) /\ Cardinality({lock}) = 1
    BY FS_Singleton
  <2>2. Cardinality(users) <= Cardinality({lock})
    BY <1>1, <2>1, FS_Subset
  <2> QED BY <2>1, <2>2
<1>3. freed => users = {}
  BY DEF Quiet, LockOK, StopOK
<1>4. ctx = "freed" => master = "done" /\ \A w \in Indices : worker[w] \in {"off", "done"}
  BY DEF Quiet, StopOK
<1> QED BY <1>2, <1>3, <1>4 DEF FreedWhenQuiet

(* sighandler_webserver: what it frees is used by no thread any more, and  *)
(* two requests never use it at the same time, whenever SIGINT arrives,    *)
(* however many workers there are.                                         *)
THEOREM NothingFreedInUse == Spec => []FreedWhenQuiet
<1>1. Init => Quiet BY QuietInit
<1>2. Quiet /\ [Next]_vars => Quiet' BY QuietStep
<1>3. Quiet => FreedWhenQuiet BY QuietIsEnough
<1> QED BY <1>1, <1>2, <1>3, PTL DEF Spec


-----------------------------------------------------------------------------
(* Where a connection is, as the inductive invariant of InOnePlace says it: *)
(* without counting.                                                       *)
Hand(c) == master = "produce" /\ m_sock = c

Have(w, c) ==
  \/ worker[w] = "waiting" /\ in_use[w] = 1 /\ slot[w] = c
  \/ worker[w] \in Holding /\ conn[w] = c

PlaceTypes ==
  /\ slot \in [Indices -> Conns \cup {NoConn}] /\ conn \in [Indices -> Conns \cup {NoConn}]
  /\ in_use \in [Indices -> {0, 1}] /\ event \in [Indices -> BOOLEAN]
  /\ closed \in [Conns -> Nat] /\ backlog \subseteq Conns
  /\ m_i \in 0 .. Workers /\ m_sock \in Conns \cup {NoConn}
  /\ early \in BOOLEAN
  /\ threads \in 0 .. Workers /\ \A w \in Indices : w >= threads => worker[w] = "off"

(* An event is signalled for a worker that waits with its slot filled, once *)
(* for each filling, until the master wakes all of them to stop: a worker  *)
(* that is woken before then takes a connection that is new to it.         *)
Stopping == master \in {"wake", "join", "done"}

EventsOK ==
  /\ master = "signal" => m_i \in Indices /\ worker[m_i] = "waiting" /\ in_use[m_i] = 1
  /\ ~Stopping =>
       \A w \in Indices :
         event[w] => worker[w] = "waiting" /\ in_use[w] = 1 /\ ~(master = "signal" /\ m_i = w)
  /\ Stopping => stop_flag # 0

AtMostOnce(c) ==
  /\ closed[c] \in {0, 1}
  /\ Hand(c) => closed[c] = 0
  /\ \A w \in Indices : Have(w, c) => closed[c] = 0 /\ ~Hand(c)
  /\ \A u, w \in Indices : Have(u, c) /\ Have(w, c) => u = w
  /\ c \in backlog => closed[c] = 0 /\ ~Hand(c) /\ \A w \in Indices : ~Have(w, c)

NotLost(c) ==
  stop_flag = 0 => c \in backlog \/ Hand(c) \/ closed[c] = 1 \/ \E w \in Indices : Have(w, c)

Places == EventsOK /\ \A c \in Conns : AtMostOnce(c) /\ NotLost(c)

OnePlace == Quiet /\ PlaceTypes /\ (~early => Places)

LEMMA OnePlaceInit == Init => OnePlace
<1> SUFFICES ASSUME Init PROVE OnePlace
  OBVIOUS
<1>1. PlaceTypes
  <2>1. threads \in 0 .. Workers /\ m_i \in 0 .. Workers BY WorkersAssumption DEF Init
  <2>2. \A w \in Indices : worker[w] = "off" BY DEF Init
  <2> QED BY <2>1, <2>2 DEF Init, PlaceTypes
<1>2. EventsOK BY DEF Init, EventsOK, Stopping
<1>3. ASSUME NEW c \in Conns PROVE AtMostOnce(c) /\ NotLost(c)
  BY <1>3, NoConnAssumption DEF Init, AtMostOnce, NotLost, Hand, Have, Holding
<1> QED BY <1>1, <1>2, <1>3, QuietInit DEF OnePlace, Places

(* A step that moves no connection. *)
LEMMA NothingMoves ==
  ASSUME NEW c \in Conns, AtMostOnce(c) /\ NotLost(c),
         Hand(c)' <=> Hand(c), closed'[c] = closed[c], c \in backlog' <=> c \in backlog,
         \A w \in Indices : Have(w, c)' <=> Have(w, c),
         stop_flag' = 0 => stop_flag = 0
  PROVE  AtMostOnce(c)' /\ NotLost(c)'
BY DEF AtMostOnce, NotLost

(* A step that only lets go of connections, when the server is to stop. *)
LEMMA LetsGo ==
  ASSUME NEW c \in Conns, AtMostOnce(c), stop_flag' # 0,
         Hand(c)' => Hand(c), closed'[c] = closed[c], c \in backlog' => c \in backlog,
         \A w \in Indices : Have(w, c)' => Have(w, c)
  PROVE  AtMostOnce(c)' /\ NotLost(c)'
BY DEF AtMostOnce, NotLost

(* The main thread moves no connection; when it stops the server, what the *)
(* workers took but did not begin is left.                                 *)
LEMMA PlacesMain ==
  ASSUME OnePlace, Main \/ Interrupt PROVE PlaceTypes' /\ (~early' => Places')
<1> USE DEF MainKeeps, masterVars, slotVars, workerVars
<1>1. CASE StartMaster
  <2>1. PlaceTypes' BY <1>1 DEF StartMaster, OnePlace, PlaceTypes
  <2>2. ASSUME ~early' PROVE EventsOK'
    BY <1>1, <2>2 DEF StartMaster, OnePlace, Places, EventsOK, Stopping
  <2>3. ASSUME ~early', NEW c \in Conns PROVE AtMostOnce(c)' /\ NotLost(c)'
    <3>1. AtMostOnce(c) /\ NotLost(c) BY <1>1, <2>3 DEF StartMaster, OnePlace, Places
    <3>2. Hand(c)' <=> Hand(c) BY <1>1 DEF StartMaster, Hand
    <3>3. \A w \in Indices : Have(w, c)' <=> Have(w, c) BY <1>1 DEF StartMaster, Have, Holding
    <3> QED BY <1>1, <3>1, <3>2, <3>3, NothingMoves DEF StartMaster
  <2> QED BY <2>1, <2>2, <2>3 DEF Places
<1>2. CASE StartWorker
  <2>1. /\ threads \in Indices /\ worker[threads] = "off" /\ worker \in [Indices -> WorkerAt]
        /\ threads' = threads + 1
    BY <1>2, WorkersAssumption DEF StartWorker, OnePlace, PlaceTypes, Quiet, Types, Indices
  <2>2. \A w \in Indices : worker'[w] = IF w = threads THEN "loop" ELSE worker[w]
    BY <1>2, <2>1 DEF StartWorker
  <2>3. PlaceTypes'
    <3>1. threads' \in 0 .. Workers /\ \A w \in Indices : w >= threads' => worker'[w] = "off"
      BY <1>2, <2>1, <2>2, WorkersAssumption DEF OnePlace, PlaceTypes, Indices
    <3> QED BY <1>2, <3>1 DEF StartWorker, OnePlace, PlaceTypes
  <2>4. ASSUME ~early' PROVE EventsOK'
    BY <1>2, <2>1, <2>2, <2>4 DEF StartWorker, OnePlace, Places, EventsOK, Stopping
  <2>5. ASSUME ~early', NEW c \in Conns PROVE AtMostOnce(c)' /\ NotLost(c)'
    <3>1. AtMostOnce(c) /\ NotLost(c) BY <1>2, <2>5 DEF StartWorker, OnePlace, Places
    <3>2. Hand(c)' <=> Hand(c) BY <1>2 DEF StartWorker, Hand
    <3>3. \A w \in Indices : Have(w, c)' <=> Have(w, c)
      BY <1>2, <2>1, <2>2 DEF StartWorker, Have, Holding
    <3> QED BY <1>2, <3>1, <3>2, <3>3, NothingMoves DEF StartWorker
  <2> QED BY <2>3, <2>4, <2>5 DEF Places
<1>3. CASE Stop
  <2>1. PlaceTypes' BY <1>3 DEF Stop, OnePlace, PlaceTypes
  <2>2. ASSUME ~early' PROVE EventsOK'
    BY <1>3, <2>2 DEF Stop, OnePlace, Places, EventsOK, Stopping
  <2>3. ASSUME ~early', NEW c \in Conns PROVE AtMostOnce(c)' /\ NotLost(c)'
    <3>1. AtMostOnce(c) /\ NotLost(c) BY <1>3, <2>3 DEF Stop, OnePlace, Places
    <3>2. Hand(c)' <=> Hand(c) BY <1>3 DEF Stop, Hand
    <3>3. CASE stop_flag' = stop_flag
      <4>1. \A w \in Indices : Have(w, c)' <=> Have(w, c) BY <1>3, <3>3 DEF Stop, Have, Holding
      <4> QED BY <1>3, <3>1, <3>2, <3>3, <4>1, NothingMoves DEF Stop
    <3>4. CASE stop_flag' = 1
      <4>1. \A w \in Indices : Have(w, c)' => Have(w, c) BY <1>3, <3>4 DEF Stop, Have, Holding
      <4> QED BY <1>3, <3>1, <3>2, <3>4, <4>1, LetsGo DEF Stop
    <3> QED BY <1>3, <3>3, <3>4 DEF Stop
  <2> QED BY <2>1, <2>2, <2>3 DEF Places
<1>4. CASE Started \/ LockContext \/ Register \/ FreeContext \/ FreeHandler \/ Exit \/ Interrupt
  <2> SUFFICES ASSUME UNCHANGED <<master, worker, threads, stop_flag, slotVars, backlog, m_sock, m_i,
                                  early, conn, closed>>
               PROVE PlaceTypes' /\ (~early' => Places')
    BY <1>4 DEF Started, LockContext, Register, FreeContext, FreeHandler, Exit, Interrupt
  <2> QED BY DEF OnePlace, PlaceTypes, Places, EventsOK, Stopping, AtMostOnce, NotLost, Hand, Have, Holding
<1> QED BY <1>1, <1>2, <1>3, <1>4 DEF Main

(* The master takes a connection from those that wait, puts it in a slot,  *)
(* or lets go of it when it is to stop.                                    *)
LEMMA PlacesMaster ==
  ASSUME OnePlace, Master PROVE PlaceTypes' /\ (~early' => Places')
<1> USE DEF MasterKeeps, mainVars, slotVars, workerVars
<1>0. early => early' BY DEF Master, Accept, FillSlot, NextSlot, FirstSlot, GiveUp, Signal, BeginStop,
                             Wake, AllWoken, Join
<1>1. CASE Accept
  <2>1. PICK c0 \in backlog : m_sock' = c0 /\ backlog' = backlog \ {c0} BY <1>1 DEF Accept
  <2>2. PlaceTypes' BY <1>1, <2>1, WorkersAssumption DEF Accept, OnePlace, PlaceTypes
  <2>3. ASSUME ~early' PROVE EventsOK'
    BY <1>1, <2>3 DEF Accept, OnePlace, Places, EventsOK, Stopping
  <2>4. ASSUME ~early', NEW c \in Conns PROVE AtMostOnce(c)' /\ NotLost(c)'
    <3>1. AtMostOnce(c) /\ NotLost(c) BY <1>1, <2>4 DEF Accept, OnePlace, Places
    <3>2. \A w \in Indices : Have(w, c)' <=> Have(w, c) BY <1>1 DEF Accept, Have, Holding
    <3>3. CASE c = c0
      <4>1. c \in backlog /\ c \notin backlog' /\ Hand(c)' BY <1>1, <2>1, <3>3 DEF Accept, Hand
      <4> QED BY <1>1, <3>1, <3>2, <4>1 DEF Accept, AtMostOnce, NotLost
    <3>4. CASE c # c0
      <4>1. ~Hand(c) /\ ~Hand(c)' /\ (c \in backlog' <=> c \in backlog)
        BY <1>1, <2>1, <3>4 DEF Accept, Hand
      <4> QED BY <1>1, <3>1, <3>2, <4>1, NothingMoves DEF Accept
    <3> QED BY <3>3, <3>4
  <2> QED BY <2>2, <2>3, <2>4 DEF Places
<1>2. CASE FillSlot
  <2>1. /\ m_i \in Indices /\ in_use[m_i] = 0 /\ master = "produce" /\ master' = "signal"
        /\ slot' \in [Indices -> Conns \cup {NoConn}] /\ in_use' \in [Indices -> {0, 1}]
        /\ \A w \in Indices : slot'[w] = IF w = m_i THEN m_sock ELSE slot[w]
        /\ \A w \in Indices : in_use'[w] = IF w = m_i THEN 1 ELSE in_use[w]
        /\ ~early' => worker[m_i] = "waiting"
        /\ early' \in BOOLEAN
    BY <1>2 DEF FillSlot, OnePlace, PlaceTypes
  <2>2. PlaceTypes' BY <1>2, <2>1 DEF FillSlot, OnePlace, PlaceTypes
  <2>3. ASSUME ~early' PROVE EventsOK'
    BY <1>0, <1>2, <2>1, <2>3 DEF FillSlot, OnePlace, Places, EventsOK, Stopping
  <2>4. ASSUME ~early', NEW c \in Conns PROVE AtMostOnce(c)' /\ NotLost(c)'
    <3>1. AtMostOnce(c) /\ NotLost(c) BY <1>0, <2>4 DEF OnePlace, Places
    <3>2. /\ \A w \in Indices : w # m_i => (Have(w, c)' <=> Have(w, c))
          /\ ~Have(m_i, c)
          /\ Have(m_i, c)' <=> c = m_sock
      BY <1>2, <2>1, <2>4 DEF FillSlot, Have, Holding
    <3>3. (Hand(c) <=> c = m_sock) /\ ~Hand(c)' BY <1>2 DEF FillSlot, Hand
    <3>4. m_i \in Indices /\ UNCHANGED <<m_i, closed, backlog, stop_flag>>
      BY <1>2 DEF FillSlot
    <3>5. CASE c = m_sock
      <4>1. /\ Hand(c) /\ closed[c] = 0 /\ c \notin backlog /\ \A w \in Indices : ~Have(w, c)
        BY <3>1, <3>3, <3>5 DEF AtMostOnce
      <4>2. \A w \in Indices : Have(w, c)' <=> w = m_i
        BY <3>2, <3>4, <3>5, <4>1
      <4> QED BY <3>3, <3>4, <4>1, <4>2 DEF AtMostOnce, NotLost
    <3>6. CASE c # m_sock
      <4>1. \A w \in Indices : Have(w, c)' <=> Have(w, c)
        BY <3>2, <3>4, <3>6
      <4>2. Hand(c)' <=> Hand(c)
        BY <3>3, <3>6
      <4> QED BY <3>1, <3>4, <4>1, <4>2, NothingMoves
    <3> QED BY <3>5, <3>6
  <2> QED BY <2>2, <2>3, <2>4 DEF Places
<1>3. CASE NextSlot \/ FirstSlot
  <2>1. /\ UNCHANGED <<worker, threads, slot, in_use, event, conn, closed, backlog, master, m_sock,
                       early, stop_flag>>
        /\ m_i' \in 0 .. Workers /\ master = "produce"
    BY <1>3, WorkersAssumption DEF NextSlot, FirstSlot, OnePlace, PlaceTypes, Indices
  <2>2. PlaceTypes' BY <2>1 DEF OnePlace, PlaceTypes
  <2>3. EventsOK => EventsOK' BY <2>1 DEF EventsOK, Stopping
  <2>4. ASSUME NEW c \in Conns, AtMostOnce(c) /\ NotLost(c) PROVE AtMostOnce(c)' /\ NotLost(c)'
    BY <2>1, <2>4 DEF AtMostOnce, NotLost, Hand, Have, Holding
  <2> QED BY <2>1, <2>2, <2>3, <2>4 DEF OnePlace, Places
<1>4. CASE GiveUp
  <2>1. PlaceTypes' BY <1>4 DEF GiveUp, OnePlace, PlaceTypes
  <2>2. EventsOK => EventsOK' BY <1>4 DEF GiveUp, EventsOK, Stopping
  <2>3. ASSUME NEW c \in Conns, AtMostOnce(c) /\ NotLost(c) PROVE AtMostOnce(c)' /\ NotLost(c)'
    <3>1. ~Hand(c)' BY <1>4 DEF GiveUp, Hand
    <3>2. \A w \in Indices : Have(w, c)' <=> Have(w, c) BY <1>4 DEF GiveUp, Have, Holding
    <3> QED BY <1>4, <2>3, <3>1, <3>2, LetsGo DEF GiveUp
  <2> QED BY <1>0, <2>1, <2>2, <2>3 DEF OnePlace, Places
<1>5. CASE Signal
  <2>1. PlaceTypes' BY <1>5 DEF Signal, OnePlace, PlaceTypes
  <2>2. ASSUME EventsOK PROVE EventsOK'
    <3>1. /\ m_i \in Indices /\ worker[m_i] = "waiting" /\ in_use[m_i] = 1
          /\ \A w \in Indices : event'[w] => w = m_i \/ event[w]
      BY <1>5, <2>2 DEF Signal, EventsOK, OnePlace, PlaceTypes
    <3> QED BY <1>5, <2>2, <3>1 DEF Signal, EventsOK, Stopping
  <2>3. ASSUME NEW c \in Conns, AtMostOnce(c) /\ NotLost(c) PROVE AtMostOnce(c)' /\ NotLost(c)'
    <3>1. ~Hand(c) /\ ~Hand(c)' BY <1>5 DEF Signal, Hand
    <3>2. \A w \in Indices : Have(w, c)' <=> Have(w, c) BY <1>5 DEF Signal, Have, Holding
    <3> QED BY <1>5, <2>3, <3>1, <3>2, NothingMoves DEF Signal
  <2> QED BY <1>0, <2>1, <2>2, <2>3 DEF OnePlace, Places
<1>6. CASE BeginStop \/ Wake \/ AllWoken \/ Join
  <2>1. /\ UNCHANGED <<worker, threads, slot, in_use, conn, closed, m_sock, early>>
        /\ m_i' \in 0 .. Workers /\ event' \in [Indices -> BOOLEAN]
        /\ backlog' \in {backlog, {}}
        /\ stop_flag # 0 /\ stop_flag' # 0
        /\ master' \in {"wake", "join", "done"} /\ master # "produce"
    <3>1. CASE BeginStop
      BY <3>1, WorkersAssumption DEF BeginStop, OnePlace, PlaceTypes
    <3>2. CASE Wake
      <4>1. m_i \in 0 .. Workers /\ m_i < Workers /\ m_i' = m_i + 1
        BY <3>2 DEF Wake, OnePlace, PlaceTypes
      <4>2. m_i' \in 0 .. Workers
        BY <4>1, WorkersAssumption
      <4>3. master = "wake" /\ stop_flag # 0
        BY <3>2 DEF Wake, OnePlace, Quiet, StopOK
      <4>4. event' \in [Indices -> BOOLEAN]
        BY <3>2 DEF Wake, OnePlace, PlaceTypes
      <4> QED BY <3>2, <4>2, <4>3, <4>4 DEF Wake
    <3>3. CASE AllWoken \/ Join
      BY <3>3 DEF AllWoken, Join, OnePlace, PlaceTypes, Quiet, StopOK
    <3> QED BY <1>6, <3>1, <3>2, <3>3
  <2>2. PlaceTypes' BY <2>1 DEF OnePlace, PlaceTypes
  <2>3. EventsOK' BY <2>1 DEF EventsOK, Stopping
  <2>4. ASSUME NEW c \in Conns, AtMostOnce(c) /\ NotLost(c) PROVE AtMostOnce(c)' /\ NotLost(c)'
    <3>1. ~Hand(c)' BY <2>1 DEF Hand
    <3>2. \A w \in Indices : Have(w, c)' => Have(w, c) BY <2>1 DEF Have, Holding
    <3> QED BY <2>1, <2>4, <3>1, <3>2, LetsGo
  <2> QED BY <1>0, <2>2, <2>3, <2>4 DEF OnePlace, Places
<1> QED BY <1>1, <1>2, <1>3, <1>4, <1>5, <1>6 DEF Master

(* What worker w has changes only when it takes and when it closes.        *)
LEMMA PlacesWorker ==
  ASSUME OnePlace, NEW w \in Indices, Worker(w) PROVE PlaceTypes' /\ (~early' => Places')
<1> USE DEF WorkerKeeps, OnlyMoves, mainVars, masterVars, slotVars
<1>0. /\ worker[w] # "off" /\ (\A u \in Indices : u # w => worker'[u] = worker[u])
      /\ \A u \in Indices : worker[u] = "off" => worker'[u] = "off"
      /\ UNCHANGED <<threads, backlog, stop_flag, master, m_i, m_sock, early>>
  BY DEF Worker, EndLoop, Loop, GoIdle, Take, Quit, Begin, GetRequest, NoRequest, Route, Enter, Leave,
         Close, At, OnePlace, Quiet, Types
<1>1. CASE EndLoop(w) \/ Loop(w) \/ Quit(w) \/ Begin(w) \/ GetRequest(w) \/ NoRequest(w) \/ Route(w)
           \/ Enter(w) \/ Leave(w)
  <2>1. /\ UNCHANGED <<slot, in_use, event, conn, closed>>
        /\ worker[w] # "waiting" /\ worker'[w] # "waiting"
        /\ worker[w] \in Holding <=> worker'[w] \in Holding
    BY <1>1 DEF EndLoop, Loop, Quit, Begin, GetRequest, NoRequest, Route, Enter, Leave, At, Holding,
                OnePlace, Quiet, Types
  <2>2. PlaceTypes' BY <1>0, <2>1 DEF OnePlace, PlaceTypes
  <2>3. EventsOK => EventsOK' BY <1>0, <2>1 DEF EventsOK, Stopping
  <2>4. ASSUME NEW c \in Conns, AtMostOnce(c) /\ NotLost(c) PROVE AtMostOnce(c)' /\ NotLost(c)'
    <3>1. \A u \in Indices : Have(u, c)' <=> Have(u, c) BY <1>0, <2>1 DEF Have, Holding
    <3> QED BY <1>0, <2>1, <2>4, <3>1, NothingMoves DEF Hand
  <2> QED BY <1>0, <2>2, <2>3, <2>4 DEF OnePlace, Places
<1>2. CASE GoIdle(w)
  <2>1. /\ UNCHANGED <<slot, event, conn, closed>> /\ in_use' \in [Indices -> {0, 1}]
        /\ worker[w] = "idle" /\ worker'[w] = "waiting"
        /\ \A u \in Indices : in_use'[u] = IF u = w THEN 0 ELSE in_use[u]
    BY <1>2 DEF GoIdle, At, OnePlace, PlaceTypes, Quiet, Types
  <2>2. PlaceTypes' BY <1>0, <2>1 DEF OnePlace, PlaceTypes
  <2>3. EventsOK => EventsOK' BY <1>0, <2>1 DEF EventsOK, Stopping
  <2>4. ASSUME NEW c \in Conns, AtMostOnce(c) /\ NotLost(c) PROVE AtMostOnce(c)' /\ NotLost(c)'
    <3>1. \A u \in Indices : Have(u, c)' <=> Have(u, c) BY <1>0, <2>1 DEF Have, Holding
    <3> QED BY <1>0, <2>1, <2>4, <3>1, NothingMoves DEF Hand
  <2> QED BY <1>0, <2>2, <2>3, <2>4 DEF OnePlace, Places
<1>3. CASE Take(w)
  <2>1. /\ UNCHANGED <<slot, in_use, closed>>
        /\ event' \in [Indices -> BOOLEAN] /\ conn' \in [Indices -> Conns \cup {NoConn}]
        /\ event[w] /\ worker[w] = "waiting" /\ worker'[w] = "taken"
        /\ \A u \in Indices : event'[u] <=> u # w /\ event[u]
        /\ \A u \in Indices : conn'[u] = IF u = w THEN slot[w] ELSE conn[u]
    BY <1>3 DEF Take, At, OnePlace, PlaceTypes, Quiet, Types
  <2>2. PlaceTypes' BY <1>0, <2>1 DEF OnePlace, PlaceTypes
  <2>3. ASSUME EventsOK PROVE EventsOK'
    <3>1. master = "signal" => m_i # w BY <2>1, <2>3 DEF EventsOK, Stopping
    <3> QED BY <1>0, <2>1, <2>3, <3>1 DEF EventsOK, Stopping
  <2>4. ASSUME EventsOK, NEW c \in Conns, AtMostOnce(c) /\ NotLost(c)
        PROVE AtMostOnce(c)' /\ NotLost(c)'
    <3>1. \A u \in Indices : u # w => (Have(u, c)' <=> Have(u, c)) BY <1>0, <2>1 DEF Have, Holding
    <3>2. CASE stop_flag = 0
      <4>1. in_use[w] = 1 BY <2>1, <2>4, <3>2 DEF EventsOK
      <4>2. Have(w, c)' <=> Have(w, c) BY <1>0, <2>1, <3>2, <4>1 DEF Have, Holding
      <4> QED BY <1>0, <2>1, <2>4, <3>1, <4>2, NothingMoves DEF Hand
    <3>3. CASE stop_flag # 0
      <4>1. ~Have(w, c)' BY <1>0, <2>1, <3>3 DEF Have, Holding
      <4> QED BY <1>0, <2>1, <2>4, <3>1, <3>3, <4>1, LetsGo DEF Hand
    <3> QED BY <3>2, <3>3
  <2> QED BY <1>0, <2>2, <2>3, <2>4 DEF OnePlace, Places
<1>4. CASE Close(w)
  <2>1. /\ UNCHANGED <<slot, in_use, event>> /\ conn' \in [Indices -> Conns \cup {NoConn}]
        /\ worker[w] = "closing" /\ worker'[w] = "loop"
        /\ \A u \in Indices : u # w => conn'[u] = conn[u]
    BY <1>4 DEF Close, At, OnePlace, PlaceTypes, Quiet, Types
  <2>2. /\ closed' \in [Conns -> Nat]
        /\ \A c \in Conns : closed'[c] = IF c = conn[w] THEN closed[c] + 1 ELSE closed[c]
    BY <1>4, NoConnAssumption DEF Close, OnePlace, PlaceTypes
  <2>3. PlaceTypes' BY <1>0, <2>1, <2>2 DEF OnePlace, PlaceTypes
  <2>4. EventsOK => EventsOK' BY <1>0, <2>1 DEF EventsOK, Stopping
  <2>5. ASSUME NEW c \in Conns, AtMostOnce(c) /\ NotLost(c) PROVE AtMostOnce(c)' /\ NotLost(c)'
    <3>1. /\ \A u \in Indices : u # w => (Have(u, c)' <=> Have(u, c))
          /\ Have(w, c) <=> conn[w] = c
          /\ ~Have(w, c)'
      BY <1>0, <2>1 DEF Have, Holding
    <3>2. Hand(c)' <=> Hand(c) BY <1>0 DEF Hand
    <3>3. CASE conn[w] = c
      <4>1. closed[c] = 0 /\ ~Hand(c) /\ c \notin backlog BY <2>5, <3>1, <3>3 DEF AtMostOnce
      <4>2. closed'[c] = 1 BY <2>2, <3>3, <4>1
      <4>3. \A u \in Indices : ~Have(u, c)' BY <2>5, <3>1, <3>3 DEF AtMostOnce
      <4> QED BY <1>0, <3>2, <4>1, <4>2, <4>3 DEF AtMostOnce, NotLost
    <3>4. CASE conn[w] # c
      BY <1>0, <2>2, <2>5, <3>1, <3>2, <3>4, NothingMoves
    <3> QED BY <3>3, <3>4
  <2> QED BY <1>0, <2>3, <2>4, <2>5 DEF OnePlace, Places
<1> QED BY <1>1, <1>2, <1>3, <1>4 DEF Worker

LEMMA OnePlaceStep == OnePlace /\ [Next]_vars => OnePlace'
<1> SUFFICES ASSUME OnePlace, [Next]_vars PROVE OnePlace'
  OBVIOUS
<1>1. Quiet' BY QuietStep DEF OnePlace
<1>2. CASE UNCHANGED vars
  BY <1>1, <1>2 DEF vars, mainVars, masterVars, workerVars, slotVars, OnePlace, PlaceTypes, Places,
                    EventsOK, Stopping, AtMostOnce, NotLost, Hand, Have, Holding
<1>3. CASE Main \/ Interrupt BY <1>1, <1>3, PlacesMain DEF OnePlace
<1>4. CASE Master BY <1>1, <1>4, PlacesMaster DEF OnePlace
<1>5. CASE \E w \in Indices : Worker(w) BY <1>1, <1>5, PlacesWorker DEF OnePlace
<1> QED BY <1>2, <1>3, <1>4, <1>5 DEF Next

(* What is said without counting, counted.                                 *)
LEMMA OnePlaceIsEnough == OnePlace => InOnePlace
<1> SUFFICES ASSUME OnePlace, ~early, NEW c \in Conns \ backlog
             PROVE  LET places == InHand(c) + Cardinality(InSlots(c)) + Cardinality(Holders(c)) + closed[c]
                    IN places <= 1 /\ (stop_flag = 0 => places = 1)
  BY DEF InOnePlace
<1> DEFINE S == InSlots(c)  H == Holders(c)
<1>1. AtMostOnce(c) /\ NotLost(c) /\ closed[c] \in {0, 1}
  BY DEF OnePlace, Places, AtMostOnce
<1>2. /\ \A w \in Indices : Have(w, c) <=> w \in S \cup H
      /\ S \subseteq Indices /\ H \subseteq Indices /\ S \cap H = {}
  BY DEF InSlots, Holders, Have, Holding
<1>3. InHand(c) = IF Hand(c) THEN 1 ELSE 0
  BY DEF InHand, Hand
<1>4. CASE S \cup H = {}
  <2>1. Cardinality(S) = 0 /\ Cardinality(H) = 0
    BY <1>4, FS_EmptySet
  <2> QED BY <1>1, <1>2, <1>3, <1>4, <2>1 DEF AtMostOnce, NotLost
<1>5. CASE S \cup H # {}
  <2>1. PICK w \in Indices : w \in S \cup H
    BY <1>2, <1>5
  <2>2. \A u \in S \cup H : u = w
    BY <1>1, <1>2, <2>1 DEF AtMostOnce
  <2>3. \/ S = {w} /\ H = {}
        \/ S = {} /\ H = {w}
    BY <1>2, <2>1, <2>2
  <2>4. /\ Cardinality(S) \in Nat /\ Cardinality(H) \in Nat
        /\ Cardinality(S) + Cardinality(H) = 1
    <3>1. Cardinality({}) = 0 /\ Cardinality({w}) = 1 BY FS_EmptySet, FS_Singleton
    <3> HIDE DEF S, H
    <3>2. \/ Cardinality(S) = 1 /\ Cardinality(H) = 0
          \/ Cardinality(S) = 0 /\ Cardinality(H) = 1
      BY <2>3, <3>1, Zenon
    <3> QED BY <3>2
  <2>5. closed[c] = 0 /\ ~Hand(c)
    BY <1>1, <1>2, <2>1 DEF AtMostOnce
  <2> QED BY <1>3, <2>4, <2>5
<1> QED BY <1>4, <1>5

(* produce_socket, consume_socket and close_connection: a connection that  *)
(* was accepted is in one place until it is closed, once, however many     *)
(* workers and connections there are, unless a slot was filled before its  *)
(* worker first waited; only a server that stops leaves one behind.        *)
THEOREM ConnectionsInOnePlace == Spec => []InOnePlace
<1>1. Init => OnePlace BY OnePlaceInit
<1>2. OnePlace /\ [Next]_vars => OnePlace' BY OnePlaceStep
<1>3. OnePlace => InOnePlace BY OnePlaceIsEnough
<1> QED BY <1>1, <1>2, <1>3, PTL DEF Spec

(***************************************************************************)
(* One worker and the time it gives to a connection                        *)
(***************************************************************************)
(* What reading keeps: the time of the last action is the time, and a      *)
(* client that is waited for has not used more than two timeouts.          *)
Clients == UNION {Range(v) : v \in Visits}

ReadInTime ==
  /\ client \in Clients /\ later \in Seq(Clients)
  /\ data_len \in 0 .. buf_size
  /\ now \in Nat /\ last_action \in Nat
  /\ pc = "reading" => now = last_action /\ now <= 2 * Timeout
  /\ now <= 3 * Timeout

LEMMA SmallestOf ==
  ASSUME NEW S \in SUBSET Nat, S # {}
  PROVE  Min(S) \in S /\ \A x \in S : Min(S) <= x
<1>1. PICK m \in S : \A y \in S : ~(<<y, m>> \in OpToRel(<, Nat))
  BY NatLessThanWellFounded, WFMin, Zenon
<1>2. ASSUME NEW y \in S PROVE m <= y
  <2>1. <<y, m>> \notin OpToRel(<, Nat) BY <1>1
  <2>2. ~(y < m) BY <2>1 DEF OpToRel
  <2> QED BY <2>2
<1>3. \E x \in S : \A y \in S : x <= y BY <1>2
<1> QED BY <1>3, Zenon DEF Min

(* The cases of get_http_header_len are all there are.                     *)
LEMMA HeaderLenIsInt ==
  ASSUME NEW b, NEW n \in Nat
  PROVE  HeaderLen(b, n) \in Int
<1> DEFINE two(i) == i + 1 <= n /\ b[i] = LF /\ b[i + 1] = LF
           four(i) == i + 3 <= n /\ SubSeq(b, i, i + 3) = <<CR, LF, CR, LF>>
           stops == {i \in 1 .. n : Bad(b[i]) \/ two(i) \/ four(i)}
           stop == Min(stops)
<1>1. stops # {} => stop \in Nat
  <2>1. stops \in SUBSET Nat OBVIOUS
  <2> HIDE DEF stops
  <2> QED BY <2>1, SmallestOf
<1>2. HeaderLen(b, n) = IF stops = {} THEN 0
                        ELSE IF Bad(b[stop]) THEN -1
                        ELSE IF two(stop) THEN stop + 1 ELSE stop + 3
  BY Zenon DEF HeaderLen
<1> HIDE DEF stops, two
<1> QED BY <1>1, <1>2

LEMMA ClientsSend ==
  ASSUME NEW c \in Clients
  PROVE  Len(c.stream) \in Nat
<1>1. PICK v \in Visits : c \in Range(v) BY DEF Clients
<1>2. c.stream \in Seq(Nat) BY <1>1, VisitsAssumption
<1> QED BY <1>2

LEMMA ReadInTimeInit == RequestInit => ReadInTime
<1> SUFFICES ASSUME RequestInit PROVE ReadInTime OBVIOUS
<1>1. PICK v \in Visits : client = v[1] /\ later = Tail(v) BY DEF RequestInit
<1>2. v \in Seq(Range(v)) /\ v # << >> BY VisitsAssumption
<1>3. Range(v) \subseteq Clients BY DEF Clients
<1>4. v \in Seq(Clients) BY <1>2, <1>3
<1>5. client \in Clients /\ later \in Seq(Clients) BY <1>1, <1>2, <1>4
<1> QED BY <1>5, TimeoutAssumption, BufferAssumption DEF RequestInit, ReadInTime

(* A read that ends, however it ends, leaves the clock where the wait put  *)
(* it; one that goes on began within the first timeout.                    *)
LEMMA GoesOnInTime ==
  ASSUME ReadInTime, pc = "reading",
         NEW wait \in 0 .. Timeout, now' = now + wait, data_len' \in 0 .. buf_size,
         GoOn \/ GiveUpReading
  PROVE  ReadInTime'
<1> USE TimeoutAssumption DEF ReadInTime
<1>1. CASE GiveUpReading BY <1>1 DEF GiveUpReading
<1>2. CASE LastedTooLong /\ GoOn BY <1>2 DEF GoOn, GiveUpReading
<1>3. CASE ~LastedTooLong /\ GoOn BY <1>3 DEF GoOn, LastedTooLong
<1> QED BY <1>1, <1>2, <1>3

LEMMA ReadInTimeReceive ==
  ASSUME ReadInTime, Receive PROVE ReadInTime'
<1> USE TimeoutAssumption, BufferAssumption
<1> DEFINE sent == Min({Len(client.stream), buf_size})
<1>1. PICK n \in 1 .. sent - data_len, wait \in 0 .. Timeout :
        LET b == [i \in 1 .. buf_size |->
                    IF i \in data_len + 1 .. data_len + n THEN client.stream[i] ELSE buf[i]]
            len == Received(b, data_len + n)
        IN /\ data_len' = data_len + n /\ now' = now + wait
           /\ CASE len > 0 -> Finish(b)
                [] len = 0 -> buf' = b /\ GoOn
                [] len < 0 -> buf' = b /\ GiveUpReading
  BY Zenon DEF Receive
<1> DEFINE b == [i \in 1 .. buf_size |->
                   IF i \in data_len + 1 .. data_len + n THEN client.stream[i] ELSE buf[i]]
           len == Received(b, data_len + n)
<1>2. sent \in Nat /\ sent <= buf_size
  <2>1. {Len(client.stream), buf_size} \in SUBSET Nat BY ClientsSend DEF ReadInTime
  <2> QED BY <2>1, SmallestOf
<1> HIDE DEF sent
<1>3. data_len \in Nat BY DEF ReadInTime
<1>4. data_len + n \in 0 .. buf_size BY <1>2, <1>3
<1>5. len \in Int BY <1>4, HeaderLenIsInt DEF Received
<1> HIDE DEF b, len
<1>6. /\ data_len' = data_len + n /\ now' = now + wait
      /\ CASE len > 0 -> Finish(b)
           [] len = 0 -> buf' = b /\ GoOn
           [] len < 0 -> buf' = b /\ GiveUpReading
  BY <1>1, Zenon DEF b, len
<1>7. Finish(b) \/ GoOn \/ GiveUpReading
  <2>1. len > 0 \/ len = 0 \/ len < 0 BY <1>5
  <2>2. /\ ~(len > 0 /\ len = 0) /\ ~(len > 0 /\ len < 0)
        /\ ~(len = 0 /\ len < 0)
    BY <1>5
  <2> QED BY <1>6, <2>1, <2>2, Zenon
<1>8. pc = "reading" BY DEF Receive
<1>9. CASE Finish(b)
  BY <1>4, <1>6, <1>8, <1>9 DEF Finish, ReadInTime
<1> QED BY <1>4, <1>6, <1>7, <1>8, <1>9, GoesOnInTime

LEMMA ReadInTimeStep == ReadInTime /\ [RequestNext]_requestVars => ReadInTime'
<1> SUFFICES ASSUME ReadInTime, [RequestNext]_requestVars PROVE ReadInTime'
  OBVIOUS
<1> USE TimeoutAssumption, BufferAssumption
<1>1. CASE Receive BY <1>1, ReadInTimeReceive
<1>2. CASE Silence
  <2>1. Timeout \in 0 .. Timeout /\ now' = now + Timeout /\ data_len' \in 0 .. buf_size /\ GoOn
    BY <1>2 DEF Silence, ReadInTime
  <2> QED BY <1>2, <2>1, GoesOnInTime DEF Silence
<1>3. CASE StopReading
  BY <1>3 DEF StopReading, GiveUpReading, ReadInTime
<1>4. CASE NextConnection
  <2>1. later[1] \in Clients /\ Tail(later) \in Seq(Clients)
    BY <1>4 DEF NextConnection, ReadInTime
  <2> QED BY <1>4, <2>1 DEF NextConnection, ReadInTime
<1>5. CASE UNCHANGED requestVars
  BY <1>5 DEF requestVars, ReadInTime
<1> QED BY <1>1, <1>2, <1>3, <1>4, <1>5 DEF RequestNext

(* read_message: a client that is slow, or silent, keeps its worker for    *)
(* three times request_timeout at most, whatever it sends, in whatever     *)
(* pieces, and whatever the buffer held before.                            *)
THEOREM RequestEndsInTime == RequestSpec => []EndsInTime
<1>1. RequestInit => ReadInTime BY ReadInTimeInit
<1>2. ReadInTime /\ [RequestNext]_requestVars => ReadInTime' BY ReadInTimeStep
<1>3. ReadInTime => EndsInTime BY DEF ReadInTime, EndsInTime
<1> QED BY <1>1, <1>2, <1>3, PTL DEF RequestSpec

(***************************************************************************)
(* Numbers: loops, the first place of some kind, and the n-th of a set.    *)
(***************************************************************************)
LEMMA UpTo ==
  ASSUME NEW N \in Nat, NEW S, 0 \in S, \A i \in 1 .. N : i - 1 \in S => i \in S
  PROVE  \A i \in 0 .. N : i \in S
<1> DEFINE T == {i \in 0 .. N : i \notin S}
<1>1. SUFFICES ASSUME T # {} PROVE FALSE OBVIOUS
<1>2. T \in SUBSET Nat OBVIOUS
<1>3. PICK m : m = Min(T) OBVIOUS
<1>4. m \in T /\ \A x \in T : m <= x BY <1>1, <1>2, <1>3, SmallestOf
<1>5. m \in 1 .. N BY <1>4
<1>6. m - 1 \notin T BY <1>4, <1>5
<1> QED BY <1>4, <1>5, <1>6

StaysIn(T, N, G) == \A i \in 1 .. N : \A x \in T : G[i][x] \in T
Iterates(g, N, a, G) == g[0] = a /\ \A i \in 1 .. N : g[i] = G[i][g[i - 1]]

LEMMA Recursion ==
  ASSUME NEW N \in Nat, NEW T, NEW a \in T, NEW G, StaysIn(T, N, G)
  PROVE  \E g \in [0 .. N -> T] : Iterates(g, N, a, G)
<1> USE DEF StaysIn, Iterates
<1> DEFINE Is(g, n) == Iterates(g, n, a, G)
           S == {n \in 0 .. N : \E g \in [0 .. n -> T] : Is(g, n)}
<1>1. 0 \in S
  <2>1. [i \in 0 .. 0 |-> a] \in [0 .. 0 -> T] OBVIOUS
  <2>2. Is([i \in 0 .. 0 |-> a], 0) OBVIOUS
  <2>3. 0 \in 0 .. N OBVIOUS
  <2> HIDE DEF Is
  <2> QED BY <2>1, <2>2, <2>3
<1>2. ASSUME NEW n \in 1 .. N, n - 1 \in S PROVE n \in S
  <2>1. PICK g \in [0 .. n - 1 -> T] : Is(g, n - 1) BY <1>2
  <2> DEFINE h == [i \in 0 .. n |-> IF i = n THEN G[n][g[n - 1]] ELSE g[i]]
  <2>2. h \in [0 .. n -> T]
    <3>1. ASSUME NEW i \in 0 .. n PROVE h[i] \in T
      <4>1. g[n - 1] \in T OBVIOUS
      <4>2. i # n => g[i] \in T OBVIOUS
      <4> QED BY <4>1, <4>2
    <3> QED BY <3>1
  <2>3. h[0] = a BY <2>1
  <2>4. ASSUME NEW i \in 1 .. n PROVE h[i] = G[i][h[i - 1]]
    <3>1. h[i - 1] = g[i - 1] OBVIOUS
    <3>2. CASE i = n BY <3>1, <3>2
    <3>3. CASE i # n
      <4>1. i \in 1 .. n - 1 BY <3>3
      <4>2. g[i] = G[i][g[i - 1]] BY <2>1, <4>1
      <4>3. h[i] = g[i] BY <3>3
      <4> QED BY <3>1, <4>2, <4>3
    <3> QED BY <3>2, <3>3
  <2>5. Is(h, n) BY <2>3, <2>4
  <2>6. n \in 0 .. N OBVIOUS
  <2> HIDE DEF Is, h
  <2> QED BY <2>2, <2>5, <2>6
<1>3. \A n \in 0 .. N : n \in S
  <2> HIDE DEF S
  <2> QED BY <1>1, <1>2, UpTo
<1>4. N \in S BY <1>3
<1> QED BY <1>4

LEMMA LargestOf ==
  ASSUME NEW S \in SUBSET Nat, S # {}, NEW N \in Nat, \A x \in S : x <= N
  PROVE  Max(S) \in S /\ \A x \in S : x <= Max(S)
<1> DEFINE T == {n \in Nat : \A x \in S : x <= n}
<1>1. T \in SUBSET Nat /\ T # {} OBVIOUS
<1>2. PICK m : m = Min(T) OBVIOUS
<1>3. m \in T /\ \A x \in T : m <= x
  <2> HIDE DEF T
  <2> QED BY <1>1, <1>2, SmallestOf
<1>4. m \in Nat /\ \A x \in S : x <= m BY <1>3
<1>5. m \in S
  <2>1. SUFFICES ASSUME m \notin S PROVE FALSE OBVIOUS
  <2>2. PICK y \in S : y \in Nat OBVIOUS
  <2>3. m # 0 /\ m - 1 \in Nat BY <1>4, <2>1, <2>2
  <2>4. \A x \in S : x <= m - 1 BY <1>4, <2>1
  <2>5. m - 1 \in T BY <2>3, <2>4
  <2> QED BY <1>3, <1>4, <2>5
<1>6. \A x \in S : m >= x BY <1>4
<1>7. \E x \in S : \A y \in S : x >= y BY <1>5, <1>6
<1>8. Max(S) \in S /\ \A y \in S : Max(S) >= y BY <1>7, Zenon DEF Max
<1> QED BY <1>8

LEMMA SmallestIs ==
  ASSUME NEW S \in SUBSET Nat, NEW m \in S, \A x \in S : m <= x
  PROVE  Min(S) = m
<1>1. PICK k : k = Min(S) OBVIOUS
<1>2. k \in S /\ \A x \in S : k <= x BY <1>1, SmallestOf
<1>3. k \in Nat /\ m \in Nat /\ k <= m /\ m <= k BY <1>2
<1> QED BY <1>1, <1>3

Rank(S, i) == Cardinality({j \in S : j <= i})

LEMMA RankIsNat ==
  ASSUME NEW N \in Nat, NEW S \in SUBSET (1 .. N), NEW i \in S
  PROVE  /\ IsFiniteSet({j \in S : j <= i}) /\ IsFiniteSet(S)
         /\ Rank(S, i) \in 1 .. Cardinality(S) /\ Cardinality(S) \in Nat
<1>1. IsFiniteSet(S)
  <2>1. IsFiniteSet(1 .. N) BY FS_Interval
  <2> QED BY <2>1, FS_Subset
<1> DEFINE T == {j \in S : j <= i}
<1>2. T \in SUBSET S /\ T # {} OBVIOUS
<1>3. IsFiniteSet(T) /\ Cardinality(T) <= Cardinality(S) BY <1>1, <1>2, FS_Subset
<1>4. Cardinality(T) # 0 BY <1>2, <1>3, FS_EmptySet
<1>5. Cardinality(T) \in Nat /\ Cardinality(S) \in Nat BY <1>1, <1>3, FS_CardinalityType
<1>6. Rank(S, i) = Cardinality(T) BY DEF Rank
<1> HIDE DEF T
<1>7. Rank(S, i) \in 1 .. Cardinality(S) BY <1>3, <1>4, <1>5, <1>6
<1> QED BY <1>1, <1>3, <1>5, <1>7 DEF T

(* The next one has the next number. *)
LEMMA RankNext ==
  ASSUME NEW N \in Nat, NEW S \in SUBSET (1 .. N), NEW i \in S, NEW j \in S, i < j,
         \A k \in S : k <= i \/ j <= k
  PROVE  Rank(S, j) = Rank(S, i) + 1
<1> DEFINE T == {k \in S : k <= i}
           U == {k \in S : k <= j}
<1>1. IsFiniteSet(T) BY RankIsNat
<1>2. U = T \cup {j}
  <2>1. ASSUME NEW k \in U PROVE k \in T \cup {j} OBVIOUS
  <2>2. ASSUME NEW k \in T \cup {j} PROVE k \in U OBVIOUS
  <2> QED BY <2>1, <2>2
<1>3. j \notin T OBVIOUS
<1>4. Rank(S, j) = Cardinality(U) /\ Rank(S, i) = Cardinality(T) BY DEF Rank
<1> HIDE DEF T, U
<1> QED BY <1>1, <1>2, <1>3, <1>4, FS_AddElement

LEMMA RankFirst ==
  ASSUME NEW N \in Nat, NEW S \in SUBSET (1 .. N), NEW i \in S, \A k \in S : i <= k
  PROVE  Rank(S, i) = 1
<1>1. {k \in S : k <= i} = {i}
  <2>1. ASSUME NEW k \in S, k <= i PROVE k = i
    <3>1. i <= k /\ i \in Nat /\ k \in Nat OBVIOUS
    <3> QED BY <2>1, <3>1
  <2> QED BY <2>1
<1> QED BY <1>1, FS_Singleton DEF Rank

LEMMA RankLast ==
  ASSUME NEW S, NEW i, \A k \in S : k <= i
  PROVE  Rank(S, i) = Cardinality(S)
<1>1. {k \in S : k <= i} = S OBVIOUS
<1> QED BY <1>1 DEF Rank

LEMMA RankGrows ==
  ASSUME NEW N \in Nat, NEW S \in SUBSET (1 .. N), NEW i \in S, NEW j \in S, i < j
  PROVE  Rank(S, i) < Rank(S, j)
<1> DEFINE T == {k \in S : k <= i}
           U == {k \in S : k <= j}
<1>1. IsFiniteSet(T) /\ IsFiniteSet(U) BY RankIsNat
<1>2. T \in SUBSET U /\ j \in U /\ j \notin T
  <2>1. ASSUME NEW k \in T PROVE k \in U
    <3>1. k \in Nat /\ i \in Nat /\ j \in Nat /\ k \in S /\ k <= i OBVIOUS
    <3>2. k <= j BY <3>1
    <3> QED BY <3>1, <3>2
  <2>2. j \in U OBVIOUS
  <2>3. j \notin T OBVIOUS
  <2> HIDE DEF T, U
  <2> QED BY <2>1, <2>2, <2>3
<1>3. Cardinality(T) <= Cardinality(U) /\ Cardinality(T) # Cardinality(U)
  <2> HIDE DEF T, U
  <2> QED BY <1>1, <1>2, FS_Subset
<1>4. Rank(S, j) = Cardinality(U) /\ Rank(S, i) = Cardinality(T) BY DEF Rank
<1>5. Cardinality(T) \in Nat /\ Cardinality(U) \in Nat BY <1>1, FS_CardinalityType
<1> HIDE DEF T, U
<1> QED BY <1>3, <1>4, <1>5

LEMMA NthOfRank ==
  ASSUME NEW N \in Nat, NEW S \in SUBSET (1 .. N), NEW i \in S
  PROVE  Nth(S, Rank(S, i)) = i
<1>1. PICK n : n = Rank(S, i) OBVIOUS
<1>2. PICK j : j = Nth(S, n) OBVIOUS
<1>3. \E k \in S : Cardinality({l \in S : l <= k}) = n BY <1>1 DEF Rank
<1>4. j \in S /\ Cardinality({l \in S : l <= j}) = n BY <1>2, <1>3, Zenon DEF Nth
<1>5. Rank(S, j) = n BY <1>4 DEF Rank
<1>6. ~(i < j)
  <2>1. SUFFICES ASSUME i < j PROVE FALSE OBVIOUS
  <2>2. Rank(S, i) < Rank(S, j) BY <1>4, <2>1, RankGrows
  <2>3. n \in Nat
    <3>1. n \in 1 .. Cardinality(S) /\ Cardinality(S) \in Nat BY <1>1, RankIsNat
    <3> QED BY <3>1
  <2> QED BY <1>1, <1>5, <2>2, <2>3
<1>7. ~(j < i)
  <2>1. SUFFICES ASSUME j < i PROVE FALSE OBVIOUS
  <2>2. Rank(S, j) < Rank(S, i) BY <1>4, <2>1, RankGrows
  <2>3. n \in Nat
    <3>1. n \in 1 .. Cardinality(S) /\ Cardinality(S) \in Nat BY <1>1, RankIsNat
    <3> QED BY <3>1
  <2> QED BY <1>1, <1>5, <2>2, <2>3
<1>8. i \in Nat /\ j \in Nat BY <1>4
<1> QED BY <1>1, <1>2, <1>6, <1>7, <1>8

(* Where each of the parser's searches ends: at the first such place, if   *)
(* there is one.                                                           *)
LEMMA SpacesEnd ==
  ASSUME NEW b \in Seq(Nat), NEW i \in Nat, NEW j \in i .. Len(b), ~isspace(b[j]),
         NEW m, m = PastSpaces(b, i)
  PROVE  m \in i .. j /\ ~isspace(b[m]) /\ \A k \in i .. m - 1 : isspace(b[k])
<1> DEFINE S == {x \in i .. j : ~isspace(b[x])}
<1>1. S \in SUBSET Nat /\ j \in S OBVIOUS
<1>2. PICK l : l = Min(S) OBVIOUS
<1>3. l \in S /\ \A x \in S : l <= x
  <2> HIDE DEF S
  <2> QED BY <1>1, <1>2, SmallestOf
<1>4. l \in i .. Len(b) /\ ~isspace(b[l]) /\ \A k \in i .. l - 1 : ~~isspace(b[k])
  <2>1. l \in i .. j /\ ~isspace(b[l]) BY <1>3
  <2>2. ASSUME NEW k \in i .. l - 1, ~isspace(b[k]) PROVE FALSE
    <3>1. k \in S /\ l \in Nat BY <2>1, <2>2
    <3> QED BY <1>3, <3>1
  <2> QED BY <2>1, <2>2
<1>5. \E x \in i .. Len(b) : ~isspace(b[x]) /\ \A k \in i .. x - 1 : ~~isspace(b[k])
  BY <1>4
<1>6. m \in i .. Len(b) /\ ~isspace(b[m]) /\ \A k \in i .. m - 1 : ~~isspace(b[k])
  BY <1>5, Zenon DEF PastSpaces, From
<1>7. ~(j < m)
  <2>1. j < m => j \in i .. m - 1 BY <1>6
  <2> QED BY <1>6, <2>1
<1>8. m \in i .. j
  <2>1. i \in Nat /\ j \in Nat /\ m \in Nat /\ i <= m BY <1>6
  <2> QED BY <1>7, <2>1
<1> QED BY <1>6, <1>8

LEMMA WordEnds ==
  ASSUME NEW b \in Seq(Nat), NEW i \in Nat, NEW j \in i .. Len(b), ~isgraph(b[j]),
         NEW m, m = PastWord(b, i)
  PROVE  m \in i .. j /\ ~isgraph(b[m]) /\ \A k \in i .. m - 1 : isgraph(b[k])
<1> DEFINE S == {x \in i .. j : ~isgraph(b[x])}
<1>1. S \in SUBSET Nat /\ j \in S OBVIOUS
<1>2. PICK l : l = Min(S) OBVIOUS
<1>3. l \in S /\ \A x \in S : l <= x
  <2> HIDE DEF S
  <2> QED BY <1>1, <1>2, SmallestOf
<1>4. l \in i .. Len(b) /\ ~isgraph(b[l]) /\ \A k \in i .. l - 1 : ~~isgraph(b[k])
  <2>1. l \in i .. j /\ ~isgraph(b[l]) BY <1>3
  <2>2. ASSUME NEW k \in i .. l - 1, ~isgraph(b[k]) PROVE FALSE
    <3>1. k \in S /\ l \in Nat BY <2>1, <2>2
    <3> QED BY <1>3, <3>1
  <2> QED BY <2>1, <2>2
<1>5. \E x \in i .. Len(b) : ~isgraph(b[x]) /\ \A k \in i .. x - 1 : ~~isgraph(b[k])
  BY <1>4
<1>6. m \in i .. Len(b) /\ ~isgraph(b[m]) /\ \A k \in i .. m - 1 : ~~isgraph(b[k])
  BY <1>5, Zenon DEF PastWord, From
<1>7. ~(j < m)
  <2>1. j < m => j \in i .. m - 1 BY <1>6
  <2> QED BY <1>6, <2>1
<1>8. m \in i .. j
  <2>1. i \in Nat /\ j \in Nat /\ m \in Nat /\ i <= m BY <1>6
  <2> QED BY <1>7, <2>1
<1> QED BY <1>6, <1>8

LEMMA NameEnds ==
  ASSUME NEW b \in Seq(Nat), NEW i \in Nat, NEW j \in i .. Len(b), (b[j] = Colon \/ ~isgraph(b[j])),
         NEW m, m = PastName(b, i)
  PROVE  m \in i .. j /\ (b[m] = Colon \/ ~isgraph(b[m])) /\ \A k \in i .. m - 1 : (b[k] # Colon /\ isgraph(b[k]))
<1> DEFINE S == {x \in i .. j : (b[x] = Colon \/ ~isgraph(b[x]))}
<1>1. S \in SUBSET Nat /\ j \in S OBVIOUS
<1>2. PICK l : l = Min(S) OBVIOUS
<1>3. l \in S /\ \A x \in S : l <= x
  <2> HIDE DEF S
  <2> QED BY <1>1, <1>2, SmallestOf
<1>4. l \in i .. Len(b) /\ (b[l] = Colon \/ ~isgraph(b[l])) /\ \A k \in i .. l - 1 : ~(b[k] = Colon \/ ~isgraph(b[k]))
  <2>1. l \in i .. j /\ (b[l] = Colon \/ ~isgraph(b[l])) BY <1>3
  <2>2. ASSUME NEW k \in i .. l - 1, (b[k] = Colon \/ ~isgraph(b[k])) PROVE FALSE
    <3>1. k \in S /\ l \in Nat BY <2>1, <2>2
    <3> QED BY <1>3, <3>1
  <2> QED BY <2>1, <2>2
<1>5. \E x \in i .. Len(b) : (b[x] = Colon \/ ~isgraph(b[x])) /\ \A k \in i .. x - 1 : ~(b[k] = Colon \/ ~isgraph(b[k]))
  BY <1>4
<1>6. m \in i .. Len(b) /\ (b[m] = Colon \/ ~isgraph(b[m])) /\ \A k \in i .. m - 1 : ~(b[k] = Colon \/ ~isgraph(b[k]))
  BY <1>5, Zenon DEF PastName, From
<1>7. ~(j < m)
  <2>1. j < m => j \in i .. m - 1 BY <1>6
  <2> QED BY <1>6, <2>1
<1>8. m \in i .. j
  <2>1. i \in Nat /\ j \in Nat /\ m \in Nat /\ i <= m BY <1>6
  <2> QED BY <1>7, <2>1
<1> QED BY <1>6, <1>8

LEMMA BlanksEnd ==
  ASSUME NEW b \in Seq(Nat), NEW i \in Nat, NEW j \in i .. Len(b), b[j] # Space,
         NEW m, m = PastBlanks(b, i)
  PROVE  m \in i .. j /\ b[m] # Space /\ \A k \in i .. m - 1 : b[k] = Space
<1> DEFINE S == {x \in i .. j : b[x] # Space}
<1>1. S \in SUBSET Nat /\ j \in S OBVIOUS
<1>2. PICK l : l = Min(S) OBVIOUS
<1>3. l \in S /\ \A x \in S : l <= x
  <2> HIDE DEF S
  <2> QED BY <1>1, <1>2, SmallestOf
<1>4. l \in i .. Len(b) /\ b[l] # Space /\ \A k \in i .. l - 1 : ~(b[k] # Space)
  <2>1. l \in i .. j /\ b[l] # Space BY <1>3
  <2>2. ASSUME NEW k \in i .. l - 1, b[k] # Space PROVE FALSE
    <3>1. k \in S /\ l \in Nat BY <2>1, <2>2
    <3> QED BY <1>3, <3>1
  <2> QED BY <2>1, <2>2
<1>5. \E x \in i .. Len(b) : b[x] # Space /\ \A k \in i .. x - 1 : ~(b[k] # Space)
  BY <1>4
<1>6. m \in i .. Len(b) /\ b[m] # Space /\ \A k \in i .. m - 1 : ~(b[k] # Space)
  BY <1>5, Zenon DEF PastBlanks, From
<1>7. ~(j < m)
  <2>1. j < m => j \in i .. m - 1 BY <1>6
  <2> QED BY <1>6, <2>1
<1>8. m \in i .. j
  <2>1. i \in Nat /\ j \in Nat /\ m \in Nat /\ i <= m BY <1>6
  <2> QED BY <1>7, <2>1
<1> QED BY <1>6, <1>8

LEMMA LineEnds ==
  ASSUME NEW b \in Seq(Nat), NEW i \in Nat, NEW j \in i .. Len(b), b[j] \in {CR, LF, 0},
         NEW m, m = LineEnd(b, i)
  PROVE  m \in i .. j /\ b[m] \in {CR, LF, 0} /\ \A k \in i .. m - 1 : b[k] \notin {CR, LF, 0}
<1> DEFINE S == {x \in i .. j : b[x] \in {CR, LF, 0}}
<1>1. S \in SUBSET Nat /\ j \in S OBVIOUS
<1>2. PICK l : l = Min(S) OBVIOUS
<1>3. l \in S /\ \A x \in S : l <= x
  <2> HIDE DEF S
  <2> QED BY <1>1, <1>2, SmallestOf
<1>4. l \in i .. Len(b) /\ b[l] \in {CR, LF, 0} /\ \A k \in i .. l - 1 : ~(b[k] \in {CR, LF, 0})
  <2>1. l \in i .. j /\ b[l] \in {CR, LF, 0} BY <1>3
  <2>2. ASSUME NEW k \in i .. l - 1, b[k] \in {CR, LF, 0} PROVE FALSE
    <3>1. k \in S /\ l \in Nat BY <2>1, <2>2
    <3> QED BY <1>3, <3>1
  <2> QED BY <2>1, <2>2
<1>5. \E x \in i .. Len(b) : b[x] \in {CR, LF, 0} /\ \A k \in i .. x - 1 : ~(b[k] \in {CR, LF, 0})
  BY <1>4
<1>6. m \in i .. Len(b) /\ b[m] \in {CR, LF, 0} /\ \A k \in i .. m - 1 : ~(b[k] \in {CR, LF, 0})
  BY <1>5, Zenon DEF LineEnd, From
<1>7. ~(j < m)
  <2>1. j < m => j \in i .. m - 1 BY <1>6
  <2> QED BY <1>6, <2>1
<1>8. m \in i .. j
  <2>1. i \in Nat /\ j \in Nat /\ m \in Nat /\ i <= m BY <1>6
  <2> QED BY <1>7, <2>1
<1> QED BY <1>6, <1>8

(***************************************************************************)
(* A request that is well formed: where its header and its lines end.      *)
(***************************************************************************)
LEMMA HeaderEnds ==
  ASSUME NEW s \in Seq(Nat), Ends(s) # {}, NEW e, e = Min(Ends(s))
  PROVE  /\ e \in 1 .. Len(s) - 3 /\ s[e] = CR /\ s[e + 1] = LF /\ s[e + 2] = CR /\ s[e + 3] = LF
         /\ \A i \in 1 .. Len(s) - 3 :
              s[i] = CR /\ s[i + 1] = LF /\ s[i + 2] = CR /\ s[i + 3] = LF => e <= i
<1>1. Ends(s) \in SUBSET Nat BY DEF Ends
<1>2. e \in Ends(s) /\ \A x \in Ends(s) : e <= x BY <1>1, SmallestOf
<1>3. e \in 1 .. Len(s) - 3 /\ CRLF(s, e) /\ CRLF(s, e + 2) BY <1>2 DEF Ends
<1>4. e + 2 + 1 = e + 3 /\ e \in Nat BY <1>3
<1>5. s[e] = CR /\ s[e + 1] = LF /\ s[e + 2] = CR /\ s[e + 3] = LF BY <1>3, <1>4 DEF CRLF
<1>6. ASSUME NEW i \in 1 .. Len(s) - 3, s[i] = CR, s[i + 1] = LF, s[i + 2] = CR, s[i + 3] = LF
      PROVE  e <= i
  <2>1. i + 2 + 1 = i + 3 /\ i < Len(s) /\ i + 2 < Len(s) OBVIOUS
  <2>2. i \in Ends(s) BY <1>6, <2>1 DEF Ends, CRLF
  <2> QED BY <1>2, <2>2
<1> QED BY <1>3, <1>5, <1>6

LEMMA BreaksAre ==
  ASSUME NEW s \in Seq(Nat), Ends(s) # {}, NEW e, e = Min(Ends(s))
  PROVE  /\ Breaks(s) \in SUBSET (1 .. e) /\ e \in Breaks(s)
         /\ \A q \in 1 .. e : q \in Breaks(s) <=> s[q] = CR /\ s[q + 1] = LF
         /\ \A q \in Breaks(s) : q + 1 \notin Breaks(s) /\ q + 2 \notin Breaks(s)
<1>1. /\ e \in 1 .. Len(s) - 3 /\ s[e] = CR /\ s[e + 1] = LF /\ s[e + 2] = CR /\ s[e + 3] = LF
      /\ \A i \in 1 .. Len(s) - 3 :
           s[i] = CR /\ s[i + 1] = LF /\ s[i + 2] = CR /\ s[i + 3] = LF => e <= i
  BY HeaderEnds, Zenon
<1>2. \A q \in 1 .. e : q \in Breaks(s) <=> s[q] = CR /\ s[q + 1] = LF
  <2>1. \A q \in 1 .. e : q < Len(s) BY <1>1
  <2> QED BY <2>1 DEF Breaks, CRLF
<1>3. Breaks(s) \in SUBSET (1 .. e) BY DEF Breaks
<1>4. ASSUME NEW q \in Breaks(s) PROVE q + 1 \notin Breaks(s) /\ q + 2 \notin Breaks(s)
  <2>1. q \in 1 .. e /\ s[q] = CR /\ s[q + 1] = LF BY <1>2, <1>3
  <2>2. q + 1 \notin Breaks(s)
    <3>1. q + 1 \in Breaks(s) => s[q + 1] = CR BY <1>2, <1>3
    <3> QED BY <2>1, <3>1 DEF CR, LF
  <2>3. ASSUME q + 2 \in Breaks(s) PROVE FALSE
    <3>1. q + 2 \in 1 .. e /\ s[q + 2] = CR /\ s[(q + 2) + 1] = LF BY <1>2, <1>3, <2>3
    <3>2. (q + 2) + 1 = q + 3 /\ q \in 1 .. Len(s) - 3 BY <1>1, <2>1, <3>1
    <3>3. e <= q BY <1>1, <2>1, <3>1, <3>2
    <3>4. e \in Nat /\ q \in Nat /\ q + 2 <= e BY <1>1, <2>1, <3>1
    <3> QED BY ONLY <3>3, <3>4
  <2> QED BY <2>2, <2>3
<1>5. e \in Breaks(s) BY <1>1, <1>2
<1> QED BY <1>2, <1>3, <1>4, <1>5

(* Line n is from i to the break at q. *)
LineAt(s, n, i, q) ==
  LET B == Breaks(s)
  IN /\ q \in B /\ n = Rank(B, q) /\ n \in 1 .. Cardinality(B) /\ i \in 1 .. q
     /\ i = 1 \/ i - 2 \in B
     /\ \A p \in B : p < i - 1 \/ q <= p
     /\ LinesOf(s)[n] = SubSeq(s, i, q - 1)

LEMMA LineBefore ==
  ASSUME NEW s \in Seq(Nat), Ends(s) # {}, NEW q \in Breaks(s)
  PROVE  \E n, i \in Nat : LineAt(s, n, i, q)
<1>1. PICK e : e = Min(Ends(s)) OBVIOUS
<1>2. PICK B : B = Breaks(s) OBVIOUS
<1>3. /\ B \in SUBSET (1 .. e) /\ e \in B
      /\ \A x \in B : x + 1 \notin B /\ x + 2 \notin B
  BY <1>1, <1>2, BreaksAre, Zenon
<1>0. e \in Nat /\ q \in B /\ q \in 1 .. e BY <1>2, <1>3
<1>4. PICK n : n = Rank(B, q) OBVIOUS
<1>5. n \in 1 .. Cardinality(B) /\ Cardinality(B) \in Nat BY <1>0, <1>3, <1>4, RankIsNat
<1>6. Nth(B, n) = q BY <1>0, <1>3, <1>4, NthOfRank
<1>7. LinesOf(s)[n] = SubSeq(s, IF n = 1 THEN 1 ELSE Nth(B, n - 1) + 2, Nth(B, n) - 1)
  BY <1>2, <1>5 DEF LinesOf
<1> DEFINE S == {x \in B : x < q}
<1>8. CASE S = {}
  <2>1. \A x \in B : q <= x BY <1>0, <1>3, <1>8
  <2>2. n = 1 BY <1>0, <1>3, <1>4, <2>1, RankFirst
  <2>3. LinesOf(s)[n] = SubSeq(s, 1, q - 1) BY <1>6, <1>7, <2>2
  <2>4. LineAt(s, n, 1, q) BY <1>0, <1>2, <1>4, <1>5, <2>1, <2>3 DEF LineAt
  <2> QED BY <1>5, <2>4
<1>9. CASE S # {}
  <2>0. \A x \in B : x \in 1 .. e BY <1>3
  <2>1. S \in SUBSET Nat /\ \A x \in S : x <= e
    <3>1. ASSUME NEW x \in S PROVE x \in Nat /\ x <= e BY <1>0, <2>0
    <3> QED BY <3>1
  <2>2. PICK r : r = Max(S) OBVIOUS
  <2>3. r \in S /\ \A x \in S : x <= r
    <3> HIDE DEF S
    <3> QED BY <1>0, <1>9, <2>1, <2>2, LargestOf
  <2>4. r \in B /\ r < q /\ r \in Nat BY <1>3, <2>3
  <2>5. \A x \in B : x <= r \/ q <= x BY <1>0, <1>3, <2>3
  <2>6. n = Rank(B, r) + 1 BY <1>0, <1>3, <1>4, <2>4, <2>5, RankNext
  <2>7. Rank(B, r) \in 1 .. Cardinality(B) BY <1>0, <1>3, <2>4, RankIsNat
  <2>8. n - 1 = Rank(B, r) /\ n # 1 BY <1>5, <2>6, <2>7
  <2>9. Nth(B, n - 1) = r BY <1>0, <1>3, <2>4, <2>8, NthOfRank
  <2>10. LinesOf(s)[n] = SubSeq(s, r + 2, q - 1) BY <1>6, <1>7, <2>8, <2>9
  <2>11. r + 2 \in 1 .. q /\ r + 2 - 2 = r
    <3>1. r + 1 # q BY <1>0, <1>3, <2>4
    <3> QED BY <1>0, <2>4, <3>1
  <2>12. \A x \in B : x < (r + 2) - 1 \/ q <= x BY <1>3, <2>4, <2>5
  <2>13. LineAt(s, n, r + 2, q) BY <1>0, <1>2, <1>4, <1>5, <2>4, <2>10, <2>11, <2>12 DEF LineAt
  <2> QED BY <1>5, <2>4, <2>13
<1> QED BY <1>8, <1>9

LEMMA FirstLine ==
  ASSUME NEW s \in Seq(Nat), IsRfc(s)
  PROVE  LineAt(s, 1, 1, 6) /\ s[1] \in {GET, POST} /\ s[2] = Space /\ s[3] = URI /\ s[4] = Space
         /\ s[5] \in {HTTP10, HTTP11} /\ LinesOf(s)[1] = SubSeq(s, 1, 5)
<1>1. PICK e : e = Min(Ends(s)) OBVIOUS
<1>2. PICK B : B = Breaks(s) OBVIOUS
<1>0. Ends(s) # {} /\ IsRequestLine(LinesOf(s)[1]) BY DEF IsRfc
<1>3. B \in SUBSET (1 .. e) /\ e \in B BY <1>0, <1>1, <1>2, BreaksAre, Zenon
<1>4. PICK q : q = Min(B) OBVIOUS
<1>5. q \in B /\ \A x \in B : q <= x
  <2>1. B \in SUBSET Nat BY <1>3
  <2> QED BY <1>3, <1>4, <2>1, SmallestOf
<1>6. PICK n, i \in Nat : LineAt(s, n, i, q) BY <1>0, <1>2, <1>5, LineBefore
<1>7. i = 1
  <2>1. i = 1 \/ i - 2 \in B BY <1>2, <1>6 DEF LineAt
  <2>2. i \in 1 .. q BY <1>6 DEF LineAt
  <2>3. ~(q <= i - 2) BY <1>3, <1>5, <2>2
  <2> QED BY <1>5, <2>1, <2>3
<1>8. n = 1
  <2>1. n = Rank(B, q) BY <1>2, <1>6 DEF LineAt
  <2>2. e \in Nat BY <1>3
  <2> QED BY <1>3, <1>5, <2>1, <2>2, RankFirst
<1>9. LinesOf(s)[1] = SubSeq(s, 1, q - 1) BY <1>6, <1>7, <1>8 DEF LineAt
<1>10. PICK l : l = SubSeq(s, 1, q - 1) OBVIOUS
<1>11. e \in 1 .. Len(s) - 3
  <2>1. Ends(s) # {} BY <1>0
  <2> QED BY <1>1, <2>1, HeaderEnds
<1>12. q \in 1 .. Len(s) BY <1>3, <1>5, <1>11
<1>13. Len(l) = q - 1 /\ \A k \in 1 .. q - 1 : l[k] = s[k] BY <1>10, <1>12
<1>14. Len(l) = 5 /\ l[1] \in {GET, POST} /\ l[2] = Space /\ l[3] = URI /\ l[4] = Space /\ l[5] \in {HTTP10, HTTP11}
  BY <1>0, <1>9, <1>10 DEF IsRequestLine
<1>15. q = 6
  <2>1. Len(l) = q - 1 /\ Len(l) = 5 BY <1>13, <1>14
  <2>2. q \in Nat BY <1>12
  <2>3. q - 1 = 5 BY <2>1, Zenon
  <2> QED BY ONLY <2>2, <2>3
<1> QED BY <1>6, <1>7, <1>8, <1>9, <1>13, <1>14, <1>15

LEMMA NextLine ==
  ASSUME NEW s \in Seq(Nat), Ends(s) # {}, NEW e, e = Min(Ends(s)),
         NEW n, NEW i, NEW q, LineAt(s, n, i, q), q # e
  PROVE  \E p \in q + 2 .. e : LineAt(s, n + 1, q + 2, p)
<1>2. PICK B : B = Breaks(s) OBVIOUS
<1>3. /\ B \in SUBSET (1 .. e) /\ e \in B
      /\ \A x \in B : x + 1 \notin B /\ x + 2 \notin B
  BY <1>2, BreaksAre, Zenon
<1>4. q \in B /\ n = Rank(B, q) BY <1>2 DEF LineAt
<1>5. q \in 1 .. e /\ e \in Nat /\ q < e BY <1>3, <1>4
<1> DEFINE S == {x \in B : q < x}
<1>6. PICK p : p = Min(S) OBVIOUS
<1>7. p \in S /\ \A x \in S : p <= x
  <2>0. \A x \in B : x \in 1 .. e BY <1>3
  <2>1. S \in SUBSET Nat /\ S # {}
    <3>1. e \in S BY <1>3, <1>5
    <3>2. \A x \in S : x \in Nat BY <2>0
    <3> QED BY <3>1, <3>2
  <2> HIDE DEF S
  <2> QED BY <1>6, <2>1, SmallestOf
<1>8. p \in B /\ q < p /\ p \in 1 .. e BY <1>3, <1>7
<1>9. \A x \in B : x <= q \/ p <= x BY <1>3, <1>5, <1>7
<1>10. Rank(B, p) = n + 1 BY <1>3, <1>4, <1>5, <1>8, <1>9, RankNext
<1>11. PICK m, j \in Nat : LineAt(s, m, j, p) BY <1>2, <1>8, LineBefore
<1>12. m = n + 1 BY <1>2, <1>10, <1>11 DEF LineAt
<1>13. j = q + 2
  <2>1. j \in 1 .. p /\ (j = 1 \/ j - 2 \in B) /\ (\A x \in B : x < j - 1 \/ p <= x)
    BY <1>2, <1>11 DEF LineAt
  <2>2. q < j - 1 BY <1>4, <1>8, <2>1
  <2>3. j # 1 BY <1>5, <2>2
  <2>4. j - 2 <= q
    <3>1. j - 2 \in B /\ ~(p <= j - 2) BY <1>8, <2>1, <2>3
    <3> QED BY <1>9, <3>1
  <2> QED BY <1>5, <2>1, <2>2, <2>4
<1>14. p \in q + 2 .. e
  <2>1. p # q + 1 BY <1>3, <1>4, <1>8
  <2> QED BY <1>5, <1>8, <2>1
<1> QED BY <1>11, <1>12, <1>13, <1>14

(***************************************************************************)
(* The characters of a header, and where the parser finds its end.         *)
(***************************************************************************)
(* What the parser looks for is not in a line.                             *)
LEMMA PlainChars ==
  /\ \A c \in Nat : isgraph(c) \/ c = Space => ~Bad(c) /\ c # LF /\ c # CR /\ c # 0
  /\ \A c \in {GET, POST, URI, HTTP10, HTTP11} : isgraph(c)
  /\ ~isgraph(Space) /\ ~isgraph(CR) /\ ~isgraph(LF) /\ ~isgraph(0)
<1>1. \A c \in Nat : c > 255 \/ c \in 33 .. 126 => ~Bad(c) /\ c # LF /\ c # CR /\ c # 0
  BY DEF Bad, iscntrl, CR, LF
<1>2. ~Bad(Space) /\ Space # LF /\ Space # CR /\ Space # 0 BY DEF Bad, iscntrl, CR, LF, Space
<1>3. \A c \in {GET, POST, URI, HTTP10, HTTP11} : c > 255 BY DEF GET, POST, URI, HTTP10, HTTP11
<1>4. ~isgraph(Space) /\ ~isgraph(CR) /\ ~isgraph(LF) /\ ~isgraph(0) BY DEF isgraph, CR, LF, Space
<1> QED BY <1>1, <1>2, <1>3, <1>4 DEF isgraph

(* What is in a line of the header: the request line has five characters,  *)
(* the others a name, a colon and a value.                                 *)
LEMMA LineChars ==
  ASSUME NEW s \in Seq(Nat), IsRfc(s), NEW e, e = Min(Ends(s)),
         NEW n, NEW i, NEW q, LineAt(s, n, i, q)
  PROVE  \A k \in i .. q - 1 : isgraph(s[k]) \/ s[k] = Space
<1>0. Ends(s) # {} BY DEF IsRfc
<1>1. /\ Breaks(s) \in SUBSET (1 .. e) /\ e \in Nat /\ e <= Len(s) - 3
  BY <1>0, HeaderEnds, BreaksAre
<1>2. q \in 1 .. e /\ i \in 1 .. q /\ n \in 1 .. Cardinality(Breaks(s)) BY <1>1 DEF LineAt
<1>3. PICK l : l = SubSeq(s, i, q - 1) OBVIOUS
<1>4. LinesOf(s)[n] = l BY <1>3 DEF LineAt
<1>5. Len(l) = q - i /\ \A k \in 1 .. q - i : l[k] = s[i + k - 1] BY <1>1, <1>2, <1>3
<1>6. Cardinality(Breaks(s)) \in Nat BY <1>1, RankIsNat DEF LineAt
<1>7. CASE n = 1
  <2>1. l = SubSeq(s, 1, 5) BY <1>4, <1>7, FirstLine
  <2>2. Len(s) \in Nat /\ Len(s) >= 4 BY <1>1, <1>2
  <2>3. s[1] \in {GET, POST} /\ s[2] = Space /\ s[3] = URI /\ s[4] = Space /\ s[5] \in {HTTP10, HTTP11}
        /\ LineAt(s, 1, 1, 6)
    BY FirstLine
  <2>4. i = 1 /\ q = 6
    <3>1. Rank(Breaks(s), 6) = 1 /\ 6 \in Breaks(s) BY <2>3 DEF LineAt
    <3>2. Rank(Breaks(s), q) = 1 /\ q \in Breaks(s) BY <1>7 DEF LineAt
    <3>3. q = 6
      <4>1. PICK B : B = Breaks(s) OBVIOUS
      <4>2. B \in SUBSET (1 .. e) /\ e \in Nat /\ q \in B /\ 6 \in B /\ Rank(B, 6) = Rank(B, q)
        BY <1>1, <3>1, <3>2, <4>1
      <4>3. Nth(B, Rank(B, 6)) = 6 BY ONLY <4>2, NthOfRank
      <4>4. Nth(B, Rank(B, q)) = q BY ONLY <4>2, NthOfRank
      <4> QED BY <4>2, <4>3, <4>4
    <3>4. \A p \in Breaks(s) : 6 <= p
      <4>1. \A p \in Breaks(s) : p < 0 \/ 6 <= p BY <2>3 DEF LineAt
      <4> QED BY <1>1, <4>1
    <3>5. i = 1 \/ i - 2 \in Breaks(s) BY DEF LineAt
    <3> QED BY <1>2, <3>3, <3>4, <3>5
  <2>5. ASSUME NEW k \in i .. q - 1 PROVE isgraph(s[k]) \/ s[k] = Space
    <3>1. k \in {1, 2, 3, 4, 5} BY <2>4
    <3>2. isgraph(s[1]) /\ isgraph(s[3]) /\ isgraph(s[5]) /\ s[2] = Space /\ s[4] = Space
      BY <2>3, PlainChars
    <3> QED BY <3>1, <3>2
  <2> QED BY <2>5
<1>8. CASE n # 1
  <2>1. n \in 2 .. Len(LinesOf(s))
    <3>1. Len(LinesOf(s)) = Cardinality(Breaks(s)) BY <1>6 DEF LinesOf
    <3> QED BY <1>2, <1>6, <1>8, <3>1
  <2>2. IsLine(l) BY <1>4, <2>1 DEF IsRfc
  <2>3. ASSUME NEW k \in i .. q - 1 PROVE isgraph(s[k]) \/ s[k] = Space
    <3>1. k - i + 1 \in 1 .. q - i /\ i + (k - i + 1) - 1 = k BY <1>2
    <3>2. l[k - i + 1] = s[k] BY <1>5, <3>1
    <3> QED BY <1>5, <2>2, <3>1, <3>2 DEF IsLine
  <2> QED BY <2>3
<1> QED BY <1>7, <1>8

LEMMA HeaderChars ==
  ASSUME NEW s \in Seq(Nat), IsRfc(s), NEW e, e = Min(Ends(s)), NEW p \in 1 .. e + 1
  PROVE  p \in Breaks(s) \/ p - 1 \in Breaks(s) \/ isgraph(s[p]) \/ s[p] = Space
<1>0. Ends(s) # {} BY DEF IsRfc
<1>1. PICK B : B = Breaks(s) OBVIOUS
<1>2. /\ B \in SUBSET (1 .. e) /\ e \in B /\ e \in Nat BY <1>0, <1>1, HeaderEnds, BreaksAre
<1>3. \A x \in B : x \in Nat BY <1>2
<1> DEFINE S == {x \in B : p - 1 <= x}
<1>4. PICK q : q = Min(S) OBVIOUS
<1>5. q \in S /\ \A x \in S : q <= x
  <2>1. e \in S /\ \A x \in S : x \in Nat BY <1>2, <1>3
  <2> HIDE DEF S
  <2> QED BY <1>4, <2>1, SmallestOf
<1>6. PICK n, i \in Nat : LineAt(s, n, i, q) BY <1>0, <1>1, <1>5, LineBefore
<1>7. i \in 1 .. q /\ (i = 1 \/ i - 2 \in B) /\ q \in B BY <1>1, <1>6 DEF LineAt
<1>8. CASE q = p - 1 \/ q = p BY <1>1, <1>7, <1>8
<1>9. CASE q # p - 1 /\ q # p
  <2>1. p < q BY <1>3, <1>5, <1>7, <1>9
  <2>2. i <= p
    <3>1. i - 2 \in B => i - 2 < p - 1
      <4>1. ASSUME i - 2 \in B, ~(i - 2 < p - 1) PROVE FALSE
        <5>1. i - 2 \in S BY <4>1, <1>3
        <5>2. q <= i - 2 /\ q \in Nat BY <1>3, <1>5, <5>1
        <5> QED BY <1>7, <5>2
      <4> QED BY <4>1
    <3> QED BY <1>7, <3>1
  <2>3. p \in i .. q - 1 BY <1>3, <1>7, <2>1, <2>2
  <2> QED BY <1>6, <2>3, LineChars
<1> QED BY <1>8, <1>9

(* The end of the header is where get_http_header_len finds it, and not    *)
(* before it has come.                                                     *)
LEMMA NoStopBefore ==
  ASSUME NEW s \in Seq(Nat), IsRfc(s), NEW e, e = Min(Ends(s)), NEW p \in 1 .. e + 2
  PROVE  ~Bad(s[p]) /\ ~(s[p] = LF /\ s[p + 1] = LF)
<1>e. Ends(s) # {} BY DEF IsRfc
<1>1. /\ e \in 1 .. Len(s) - 3 /\ s[e] = CR /\ s[e + 1] = LF /\ s[e + 2] = CR /\ s[e + 3] = LF
  BY <1>e, HeaderEnds, Zenon
<1>0. e \in Nat BY <1>1
<1>2. PICK B : B = Breaks(s) OBVIOUS
<1>3. /\ B \in SUBSET (1 .. e) /\ \A q \in 1 .. e : q \in B <=> s[q] = CR /\ s[q + 1] = LF
  BY <1>e, <1>2, BreaksAre, Zenon
<1>4. ASSUME NEW k \in 1 .. e + 1 PROVE ~Bad(s[k]) /\ (s[k] = LF => k - 1 \in B)
  <2>1. CASE k \in B
    <3>1. s[k] = CR BY <1>3, <2>1
    <3> QED BY <3>1 DEF Bad, iscntrl, CR, LF
  <2>2. CASE k - 1 \in B
    <3>1. s[k - 1 + 1] = LF /\ k - 1 + 1 = k BY <1>3, <2>2
    <3> QED BY <2>2, <3>1 DEF Bad, iscntrl, CR, LF
  <2>3. CASE isgraph(s[k]) \/ s[k] = Space
    <3>1. s[k] \in Nat
      <4>1. k \in 1 .. Len(s) BY <1>1
      <4> QED BY <4>1
    <3> QED BY <2>3, <3>1, PlainChars
  <2>4. k \in B \/ k - 1 \in B \/ isgraph(s[k]) \/ s[k] = Space BY <1>2, HeaderChars, Zenon
  <2> QED BY <2>1, <2>2, <2>3, <2>4
<1>5. CASE p = e + 2 BY <1>1, <1>5 DEF Bad, iscntrl, CR, LF
<1>6. CASE p = e + 1
  <2>1. s[p + 1] = CR BY <1>1, <1>6
  <2> QED BY <1>4, <1>6, <2>1 DEF CR, LF
<1>7. CASE p \in 1 .. e
  <2>1. ASSUME s[p] = LF, s[p + 1] = LF PROVE FALSE
    <3>0. p + 1 \in 1 .. e + 1 /\ p + 1 - 1 = p BY ONLY <1>7, <1>0
    <3>1. p + 1 - 1 \in B /\ p + 1 - 1 = p BY <1>4, <2>1, <3>0
    <3>2. s[p] = CR BY <1>3, <3>1
    <3> QED BY <2>1, <3>2 DEF CR, LF
  <2>2. p \in 1 .. e + 1 BY <1>1, <1>7
  <2> QED BY <1>4, <2>1, <2>2
<1> QED BY <1>0, <1>5, <1>6, <1>7

Stops(b, n) ==
  {i \in 1 .. n : Bad(b[i]) \/ (i + 1 <= n /\ b[i] = LF /\ b[i + 1] = LF)
                            \/ (i + 3 <= n /\ SubSeq(b, i, i + 3) = <<CR, LF, CR, LF>>)}

LEMMA FourAre ==
  ASSUME NEW b \in Seq(Nat), NEW i \in 1 .. Len(b), i + 3 <= Len(b)
  PROVE  SubSeq(b, i, i + 3) = <<CR, LF, CR, LF>> <=>
           b[i] = CR /\ b[i + 1] = LF /\ b[i + 2] = CR /\ b[i + 3] = LF
<1>1. PICK l : l = SubSeq(b, i, i + 3) OBVIOUS
<1>2. l \in Seq(Nat) /\ Len(l) = 4 /\ l[1] = b[i] /\ l[2] = b[i + 1] /\ l[3] = b[i + 2] /\ l[4] = b[i + 3]
  BY <1>1
<1>3. PICK c, d \in Nat : c = CR /\ d = LF BY DEF CR, LF
<1>4. l = <<c, d, c, d>> <=> l[1] = c /\ l[2] = d /\ l[3] = c /\ l[4] = d
  <2>1. l = <<c, d, c, d>> => l[1] = c /\ l[2] = d /\ l[3] = c /\ l[4] = d OBVIOUS
  <2>2. ASSUME l[1] = c, l[2] = d, l[3] = c, l[4] = d PROVE l = <<c, d, c, d>>
    <3>0. <<c, d, c, d>> \in Seq(Nat) BY <1>3
    <3>1. PICK m \in Seq(Nat) : m = <<c, d, c, d>> BY <3>0
    <3>2. Len(m) = 4 /\ m[1] = c /\ m[2] = d /\ m[3] = c /\ m[4] = d BY <3>1
    <3>3. \A k \in 1 .. 4 : l[k] = m[k]
      <4>1. ASSUME NEW k \in 1 .. 4 PROVE l[k] = m[k]
        <5>1. k = 1 \/ k = 2 \/ k = 3 \/ k = 4 OBVIOUS
        <5> QED BY <2>2, <3>2, <5>1
      <4> QED BY <4>1
    <3>4. l = [k \in 1 .. 4 |-> l[k]] /\ m = [k \in 1 .. 4 |-> m[k]] BY <1>2, <3>2
    <3> QED BY <3>1, <3>3, <3>4, Zenon
  <2> QED BY <2>1, <2>2
<1> QED BY <1>1, <1>2, <1>3, <1>4

LEMMA HeaderLenIs ==
  ASSUME NEW b, NEW n \in Nat
  PROVE  HeaderLen(b, n) =
           IF Stops(b, n) = {} THEN 0
           ELSE LET i == Min(Stops(b, n))
                IN IF Bad(b[i]) THEN -1
                   ELSE IF i + 1 <= n /\ b[i] = LF /\ b[i + 1] = LF THEN i + 1 ELSE i + 3
BY Zenon DEF HeaderLen, Stops

LEMMA HeaderFound ==
  ASSUME NEW s \in Seq(Nat), IsRfc(s), NEW e, e = Min(Ends(s)),
         NEW b \in Seq(Nat), NEW n \in Nat, n <= Len(b), \A i \in 1 .. e + 3 : i <= n => b[i] = s[i]
  PROVE  HeaderLen(b, n) = IF e + 3 <= n THEN e + 3 ELSE 0
<1>1. /\ e \in 1 .. Len(s) - 3 /\ s[e] = CR /\ s[e + 1] = LF /\ s[e + 2] = CR /\ s[e + 3] = LF
      /\ \A i \in 1 .. Len(s) - 3 :
           s[i] = CR /\ s[i + 1] = LF /\ s[i + 2] = CR /\ s[i + 3] = LF => e <= i
  <2>1. Ends(s) # {} BY DEF IsRfc
  <2> QED BY <2>1, HeaderEnds, Zenon
<1>0. e \in Nat /\ 1 <= e /\ Len(s) \in Nat /\ e + 3 <= Len(s) BY <1>1
<1>2. PICK S : S = Stops(b, n) OBVIOUS
<1>3. ASSUME NEW i \in S, i <= e + 2
      PROVE  i + 3 <= n /\ b[i] = CR /\ b[i + 1] = LF /\ b[i + 2] = CR /\ b[i + 3] = LF
  <2>1. i \in 1 .. n /\ (Bad(b[i]) \/ (i + 1 <= n /\ b[i] = LF /\ b[i + 1] = LF)
                            \/ (i + 3 <= n /\ SubSeq(b, i, i + 3) = <<CR, LF, CR, LF>>))
    BY <1>2 DEF Stops
  <2>2. i \in 1 .. e + 2 /\ i \in 1 .. e + 3 /\ i <= n BY <1>1, <1>3, <2>1
  <2>3. b[i] = s[i] BY <2>2
  <2>4. ~Bad(b[i]) BY <2>2, <2>3, NoStopBefore
  <2>5. ~(i + 1 <= n /\ b[i] = LF /\ b[i + 1] = LF)
    <3>1. i + 1 \in 1 .. e + 3 BY ONLY <1>0, <2>2
    <3>2. i + 1 <= n => b[i + 1] = s[i + 1] BY <3>1
    <3>3. ~(s[i] = LF /\ s[i + 1] = LF) BY <2>2, NoStopBefore
    <3> QED BY <2>3, <3>2, <3>3
  <2>6. i + 3 <= n /\ SubSeq(b, i, i + 3) = <<CR, LF, CR, LF>> BY <2>1, <2>4, <2>5
  <2>7. i \in 1 .. Len(b) /\ i + 3 <= Len(b) BY <2>1, <2>6
  <2> QED BY <2>6, <2>7, FourAre
<1>4. ASSUME NEW i \in S, i < e PROVE FALSE
  <2>1. i \in 1 .. n BY <1>2 DEF Stops
  <2>2. i + 3 <= n /\ b[i] = CR /\ b[i + 1] = LF /\ b[i + 2] = CR /\ b[i + 3] = LF
    <3>1. i <= e + 2 BY <1>1, <1>4, <2>1
    <3> QED BY <1>3, <3>1
  <2>3. /\ i \in 1 .. e + 3 /\ i + 1 \in 1 .. e + 3 /\ i + 2 \in 1 .. e + 3 /\ i + 3 \in 1 .. e + 3
        /\ i <= n /\ i + 1 <= n /\ i + 2 <= n /\ i + 3 <= n
    BY ONLY <1>0, <1>4, <2>1, <2>2, n \in Nat
  <2>4. b[i] = s[i] /\ b[i + 1] = s[i + 1] /\ b[i + 2] = s[i + 2] /\ b[i + 3] = s[i + 3] BY <2>3
  <2>5. i \in 1 .. Len(s) - 3 BY <1>1, <1>4, <2>1
  <2>6. e <= i BY <1>1, <2>2, <2>4, <2>5
  <2> QED BY <1>1, <1>4, <2>1, <2>6
<1>5. S \in SUBSET Nat /\ \A i \in S : i \in 1 .. n BY <1>2 DEF Stops
<1>6. CASE e + 3 <= n
  <2>1. /\ e \in 1 .. e + 3 /\ e + 1 \in 1 .. e + 3 /\ e + 2 \in 1 .. e + 3 /\ e + 3 \in 1 .. e + 3
        /\ e <= n /\ e + 1 <= n /\ e + 2 <= n /\ e + 3 <= n /\ e \in 1 .. n /\ e \in 1 .. Len(b) /\ e + 3 <= Len(b)
    <3>1. n \in Nat /\ e \in Nat /\ n <= Len(b) /\ Len(b) \in Nat /\ 1 <= e BY <1>0
    <3> QED BY ONLY <1>6, <3>1
  <2>2. b[e] = s[e] /\ b[e + 1] = s[e + 1] /\ b[e + 2] = s[e + 2] /\ b[e + 3] = s[e + 3] BY <2>1
  <2>3. SubSeq(b, e, e + 3) = <<CR, LF, CR, LF>> BY <1>1, <2>1, <2>2, FourAre
  <2>4. e \in S BY <1>2, <1>6, <2>1, <2>3 DEF Stops
  <2>5. \A i \in S : e <= i
    <3>1. ASSUME NEW i \in S PROVE e <= i
      <4>1. ~(i < e) /\ i \in Nat BY <1>4, <1>5
      <4> QED BY <1>1, <4>1
    <3> QED BY <3>1
  <2>6. Min(S) = e BY <1>5, <2>4, <2>5, SmallestIs
  <2>7. ~Bad(b[e]) /\ b[e] # LF BY <1>1, <2>2 DEF Bad, iscntrl, CR, LF
  <2>8. S # {} /\ HeaderLen(b, n) = IF S = {} THEN 0 ELSE LET i == Min(S)
                IN IF Bad(b[i]) THEN -1
                   ELSE IF i + 1 <= n /\ b[i] = LF /\ b[i + 1] = LF THEN i + 1 ELSE i + 3
    BY <1>2, <2>4, HeaderLenIs
  <2> QED BY <1>6, <2>6, <2>7, <2>8
<1>7. CASE ~(e + 3 <= n)
  <2>1. ASSUME NEW i \in S PROVE FALSE
    <3>1. i \in 1 .. n BY <1>5
    <3>2. i <= e + 2 BY <1>1, <1>7, <3>1
    <3>3. i + 3 <= n BY <1>3, <3>2
    <3>4. i < e BY <1>1, <1>7, <3>1, <3>3
    <3> QED BY <1>4, <3>4
  <2> QED BY <1>2, <1>7, <2>1, HeaderLenIs
<1> QED BY <1>6, <1>7

(***************************************************************************)
(* The parser's steps.                                                     *)
(***************************************************************************)
LEMMA ZeroedIs ==
  ASSUME NEW b \in Seq(Nat), NEW i, NEW j
  PROVE  /\ Zeroed(b, i, j) \in Seq(Nat) /\ Len(Zeroed(b, i, j)) = Len(b)
         /\ \A k \in 1 .. Len(b) : Zeroed(b, i, j)[k] = IF k \in i .. j THEN 0 ELSE b[k]
<1>1. Len(b) \in Nat /\ \A k \in 1 .. Len(b) : b[k] \in Nat OBVIOUS
<1>2. PICK z : z = Zeroed(b, i, j) OBVIOUS
<1>3. z = [k \in 1 .. Len(b) |-> IF k \in i .. j THEN 0 ELSE b[k]] BY <1>2 DEF Zeroed
<1>4. z \in [1 .. Len(b) -> Nat]
  <2>1. ASSUME NEW k \in 1 .. Len(b) PROVE (IF k \in i .. j THEN 0 ELSE b[k]) \in Nat BY <1>1
  <2> QED BY <1>3, <2>1
<1>5. z \in Seq(Nat) /\ Len(z) = Len(b) BY <1>1, <1>4
<1> QED BY <1>2, <1>3, <1>5

LEMMA SkipWordAre ==
  ASSUME NEW b, NEW i, NEW eol \in BOOLEAN
  PROVE  SkipWord(b, i, eol) =
           LET end == PastWord(b, i)
               next == PastSpaces(b, end + 1)
           IN IF (eol /\ b[end] \notin {CR, LF}) \/ (~eol /\ b[end] # Space) THEN Failed(b)
              ELSE IF ~eol /\ ~isgraph(b[next]) THEN Failed(Zeroed(b, end, next - 1))
              ELSE [ok |-> TRUE, buf |-> Zeroed(b, end, next - 1), word |-> SubSeq(b, i, end - 1), at |-> next]
BY ZenonT(60) DEF SkipWord

LEMMA SkipWordIs ==
  ASSUME NEW b \in Seq(Nat), NEW i \in Nat, NEW j \in i .. Len(b), NEW k \in j + 1 .. Len(b), NEW eol \in BOOLEAN,
         1 <= i, \A m \in i .. j - 1 : isgraph(b[m]), ~isgraph(b[j]),
         \A m \in j + 1 .. k - 1 : isspace(b[m]), ~isspace(b[k]),
         (eol /\ b[j] \in {CR, LF}) \/ (~eol /\ b[j] = Space), eol \/ isgraph(b[k])
  PROVE  SkipWord(b, i, eol) = [ok |-> TRUE, buf |-> Zeroed(b, j, k - 1), word |-> SubSeq(b, i, j - 1), at |-> k]
<1> DEFINE end == PastWord(b, i)
           next == PastSpaces(b, end + 1)
<1>7. SkipWord(b, i, eol) =
        IF (eol /\ b[end] \notin {CR, LF}) \/ (~eol /\ b[end] # Space) THEN Failed(b)
        ELSE IF ~eol /\ ~isgraph(b[next]) THEN Failed(Zeroed(b, end, next - 1))
        ELSE [ok |-> TRUE, buf |-> Zeroed(b, end, next - 1), word |-> SubSeq(b, i, end - 1), at |-> next]
  BY SkipWordAre, Zenon
<1>1. end = PastWord(b, i) OBVIOUS
<1>4. next = PastSpaces(b, end + 1) OBVIOUS
<1> HIDE DEF next, end
<1>2. end \in i .. j /\ ~isgraph(b[end]) BY <1>1, WordEnds
<1>3. end = j
  <2>1. end \in Nat /\ j \in Nat /\ end <= j BY <1>2
  <2>2. end < j => end \in i .. j - 1 BY <1>2, <2>1
  <2> QED BY <1>2, <2>1, <2>2
<1>5. next \in j + 1 .. k /\ ~isspace(b[next])
  <2>1. j + 1 \in Nat /\ k \in j + 1 .. Len(b) /\ next = PastSpaces(b, j + 1) BY <1>3, <1>4
  <2> QED BY <2>1, SpacesEnd
<1>6. next = k
  <2>1. next \in Nat /\ k \in Nat /\ next <= k BY <1>5
  <2>2. next < k => next \in j + 1 .. k - 1 BY <1>5, <2>1
  <2> QED BY <1>5, <2>1, <2>2
<1> QED BY <1>3, <1>6, <1>7, Zenon

(* The loop of parse_http_headers.                                         *)
HeadersFrom(b, i) == [goes_on |-> TRUE, ok |-> TRUE, buf |-> b, at |-> i, headers |-> << >>]
Turn(x) == IF x.goes_on THEN ParseHeader(x) ELSE x
Turns(f, b, i, n) == f[0] = HeadersFrom(b, i) /\ \A k \in 1 .. n : f[k] = Turn(f[k - 1])

LEMMA TurnsExist ==
  ASSUME NEW b, NEW i, NEW N \in Nat
  PROVE  \E f : Turns(f, b, i, N)
<1> DEFINE S == {n \in 0 .. N : \E f : Turns(f, b, i, n)}
<1>1. 0 \in S
  <2> DEFINE f == [k \in {0} |-> HeadersFrom(b, i)]
  <2>1. f[0] = HeadersFrom(b, i) OBVIOUS
  <2> HIDE DEF f
  <2>2. Turns(f, b, i, 0) BY <2>1 DEF Turns
  <2> QED BY <2>2
<1>2. ASSUME NEW n \in 1 .. N, n - 1 \in S PROVE n \in S
  <2>1. PICK f : Turns(f, b, i, n - 1) BY <1>2
  <2> DEFINE h == [k \in 0 .. n |-> IF k = n THEN Turn(f[n - 1]) ELSE f[k]]
  <2>2. \A k \in 0 .. n : h[k] = IF k = n THEN Turn(f[n - 1]) ELSE f[k] OBVIOUS
  <2> HIDE DEF h
  <2>3. h[0] = HeadersFrom(b, i)
    <3>1. h[0] = f[0] BY <2>2
    <3> QED BY <2>1, <3>1 DEF Turns
  <2>4. ASSUME NEW k \in 1 .. n PROVE h[k] = Turn(h[k - 1])
    <3>1. h[k - 1] = f[k - 1] BY <2>2
    <3>2. CASE k = n
      <4>1. h[k] = Turn(f[n - 1]) BY <2>2, <3>2
      <4> QED BY <3>1, <3>2, <4>1
    <3>3. CASE k # n
      <4>1. k \in 1 .. n - 1 BY <3>3
      <4>2. f[k] = Turn(f[k - 1]) BY <2>1, <4>1 DEF Turns
      <4>3. h[k] = f[k] BY <2>2, <3>3
      <4> QED BY <3>1, <4>2, <4>3
    <3> QED BY <3>2, <3>3
  <2>5. Turns(h, b, i, n) BY <2>3, <2>4 DEF Turns
  <2> QED BY <2>5
<1>3. \A n \in 0 .. N : n \in S
  <2> HIDE DEF S
  <2> QED BY <1>1, <1>2, UpTo
<1> QED BY <1>3

LEMMA HeadersLoop ==
  ASSUME NEW b, NEW i
  PROVE  \E f : Turns(f, b, i, MaxHeaders) /\ ParseHeaders(b, i) = f[MaxHeaders]
<1> USE HeadersAssumption
<1> DEFINE G(f) == [n \in 0 .. MaxHeaders |->
                     IF n = 0 THEN [goes_on |-> TRUE, ok |-> TRUE, buf |-> b, at |-> i, headers |-> << >>]
                     ELSE IF f[n - 1].goes_on THEN ParseHeader(f[n - 1]) ELSE f[n - 1]]
           after == CHOOSE f : f = G(f)
<1>1. PICK f : Turns(f, b, i, MaxHeaders) BY TurnsExist
<1> DEFINE h == [n \in 0 .. MaxHeaders |-> f[n]]
<1>2. h = G(h)
  <2>1. \A n \in 0 .. MaxHeaders : h[n] = f[n] OBVIOUS
  <2>2. ASSUME NEW n \in 0 .. MaxHeaders
        PROVE  f[n] = IF n = 0 THEN [goes_on |-> TRUE, ok |-> TRUE, buf |-> b, at |-> i, headers |-> << >>]
                      ELSE IF h[n - 1].goes_on THEN ParseHeader(h[n - 1]) ELSE h[n - 1]
    <3>1. CASE n = 0 BY <1>1, <3>1 DEF Turns, HeadersFrom
    <3>2. CASE n # 0
      <4>1. n \in 1 .. MaxHeaders /\ n - 1 \in 0 .. MaxHeaders BY <3>2
      <4>2. f[n] = Turn(f[n - 1]) BY <1>1, <4>1 DEF Turns
      <4>3. h[n - 1] = f[n - 1] BY <2>1, <4>1
      <4> HIDE DEF h
      <4> QED BY <3>2, <4>2, <4>3, Zenon DEF Turn
    <3> QED BY <3>1, <3>2
  <2> QED BY <2>2, Zenon
<1>3. after = G(after)
  <2> HIDE DEF G, h
  <2> QED BY <1>2, Zenon
<1>4. Turns(after, b, i, MaxHeaders)
  <2>1. \A n \in 0 .. MaxHeaders : after[n] = 
          IF n = 0 THEN [goes_on |-> TRUE, ok |-> TRUE, buf |-> b, at |-> i, headers |-> << >>]
                     ELSE IF after[n - 1].goes_on THEN ParseHeader(after[n - 1]) ELSE after[n - 1]
    <3> HIDE DEF after
    <3> QED BY <1>3, Zenon
  <2> HIDE DEF after, G
  <2>2. after[0] = HeadersFrom(b, i)
    <3>1. 0 \in 0 .. MaxHeaders OBVIOUS
    <3> QED BY <2>1, <3>1, Zenon DEF HeadersFrom
  <2>3. ASSUME NEW k \in 1 .. MaxHeaders PROVE after[k] = Turn(after[k - 1])
    <3>1. k \in 0 .. MaxHeaders /\ k # 0 OBVIOUS
    <3> QED BY <2>1, <3>1, Zenon DEF Turn
  <2> QED BY <2>2, <2>3 DEF Turns
<1>5. ParseHeaders(b, i) = after[MaxHeaders] BY Zenon DEF ParseHeaders
<1> HIDE DEF after
<1> QED BY <1>4, <1>5

(***************************************************************************)
(* The request line: its three words.                                      *)
(***************************************************************************)
LEMMA SpaceChars ==
  /\ isspace(CR) /\ isspace(LF) /\ isspace(Space) /\ ~isspace(0)
  /\ \A c \in Nat : isgraph(c) => ~isspace(c)
BY DEF isspace, isgraph, CR, LF, Space

LEMMA FindIs ==
  ASSUME NEW text, NEW chars, NEW N \in Nat, Len(text) = N
  PROVE  \/ Find(text, chars) = 0 /\ \A k \in 1 .. N : text[k] \notin chars
         \/ /\ Find(text, chars) \in 1 .. N /\ text[Find(text, chars)] \in chars
            /\ \A k \in 1 .. Find(text, chars) - 1 : text[k] \notin chars
<1> DEFINE places == {i \in 1 .. N : text[i] \in chars}
<1>1. Find(text, chars) = IF places = {} THEN 0 ELSE Min(places) BY DEF Find
<1>2. CASE places = {} BY <1>1, <1>2
<1>3. CASE places # {}
  <2>1. PICK m : m = Min(places) OBVIOUS
  <2>2. places \in SUBSET Nat OBVIOUS
  <2>3. m \in places /\ \A x \in places : m <= x
    <3> HIDE DEF places
    <3> QED BY <1>3, <2>1, <2>2, SmallestOf
  <2>4. m \in 1 .. N /\ text[m] \in chars BY <2>3
  <2>5. ASSUME NEW k \in 1 .. m - 1, text[k] \in chars PROVE FALSE
    <3>1. k \in places BY <2>4, <2>5
    <3>2. m <= k BY <2>3, <3>1
    <3> QED BY <2>4, <3>2
  <2>6. Find(text, chars) = m BY <1>1, <1>3, <2>1
  <2> QED BY <2>4, <2>5, <2>6
<1> QED BY <1>2, <1>3

FieldLine(s, n, i, q) == n # 1 /\ LineAt(s, n, i, q)

(* A field: its name, its colon, and the characters of its line.           *)
FieldIs(s, e, n, i, q) ==
  /\ n \in 2 .. Len(LinesOf(s)) /\ n - 1 \in 1 .. Len(LinesOf(s)) - 1
  /\ i \in 1 .. q /\ q \in 1 .. e /\ e \in Nat /\ e + 3 <= Len(s) /\ Len(s) \in Nat
  /\ LinesOf(s)[n] = SubSeq(s, i, q - 1)
  /\ \E c \in i + 1 .. q - 1 :
       /\ s[c] = Colon /\ \A k \in i .. c - 1 : isgraph(s[k]) /\ s[k] # Colon
       /\ Find(SubSeq(s, i, q - 1), {Colon}) = c - i + 1

LEMMA FieldAt ==
  ASSUME NEW s \in Seq(Nat), IsRfc(s), NEW e, e = Min(Ends(s)),
         NEW n, NEW i, NEW q, FieldLine(s, n, i, q)
  PROVE  FieldIs(s, e, n, i, q)
<1>l. n # 1 /\ LineAt(s, n, i, q) BY DEF FieldLine
<1>0. Ends(s) # {} BY DEF IsRfc
<1>1. e \in 1 .. Len(s) - 3 BY <1>0, HeaderEnds, Zenon
<1>2. Breaks(s) \in SUBSET (1 .. e) BY <1>0, BreaksAre, Zenon
<1>3. e \in Nat /\ e + 3 <= Len(s) /\ Len(s) \in Nat BY <1>1
<1>4. q \in 1 .. e /\ i \in 1 .. q /\ n \in 1 .. Cardinality(Breaks(s)) BY <1>2, <1>l DEF LineAt
<1>5. Cardinality(Breaks(s)) \in Nat
  <2>1. q \in Breaks(s) BY <1>l DEF LineAt
  <2> QED BY <1>2, <1>3, <2>1, RankIsNat
<1>6. Len(LinesOf(s)) = Cardinality(Breaks(s)) BY <1>5 DEF LinesOf
<1>7. n \in 2 .. Len(LinesOf(s)) /\ n - 1 \in 1 .. Len(LinesOf(s)) - 1 BY <1>l, <1>4, <1>5, <1>6
<1>8. PICK l : l = SubSeq(s, i, q - 1) OBVIOUS
<1>9. LinesOf(s)[n] = l BY <1>l, <1>8 DEF LineAt
<1>10. Len(l) = q - i /\ q - i \in Nat /\ \A k \in 1 .. q - i : l[k] = s[i + k - 1] BY <1>3, <1>4, <1>8
<1>11. IsField(l) BY <1>7, <1>9 DEF IsRfc
<1>12. PICK f : f = Find(l, {Colon}) OBVIOUS
<1>13. f > 1 /\ \A k \in 1 .. f - 1 : isgraph(l[k]) BY <1>11, <1>12 DEF IsField
<1>14. f \in 1 .. q - i /\ l[f] = Colon /\ \A k \in 1 .. f - 1 : l[k] # Colon
  <2>1. f # 0 BY <1>13
  <2> QED BY <1>10, <1>12, <2>1, FindIs
<1>15. PICK c \in Nat : c = i + f - 1 BY <1>4, <1>14
<1>16. c \in i + 1 .. q - 1 /\ f = c - i + 1 /\ c - i + 1 \in 1 .. q - i /\ i + (c - i + 1) - 1 = c
  BY <1>4, <1>13, <1>14, <1>15
<1>17. s[c] = Colon BY <1>10, <1>14, <1>16
<1>18. ASSUME NEW k \in i .. c - 1 PROVE isgraph(s[k]) /\ s[k] # Colon
  <2>1. k - i + 1 \in 1 .. f - 1 /\ k - i + 1 \in 1 .. q - i /\ i + (k - i + 1) - 1 = k BY <1>4, <1>14, <1>16
  <2>2. l[k - i + 1] = s[k] BY <1>10, <2>1
  <2> QED BY <1>13, <1>14, <2>1, <2>2
<1> QED BY <1>3, <1>4, <1>7, <1>8, <1>9, <1>12, <1>16, <1>17, <1>18 DEF FieldIs

(* What is left to be parsed from a on.                                    *)
Left(s, e, c, a) ==
  /\ c \in Seq(Nat) /\ e + 3 <= Len(c) /\ c[e + 3] = 0
  /\ a \in Nat /\ \A k \in a .. e + 2 : c[k] = s[k]

LEMMA LeftAfter ==
  ASSUME NEW s \in Seq(Nat), NEW e \in Nat, NEW c, NEW a \in Nat, Left(s, e, c, a), 1 <= a,
         NEW i \in Nat, NEW j \in Nat, NEW d \in Nat, a <= d, j < d, j < e + 3
  PROVE  Left(s, e, Zeroed(c, i, j), d)
<1>1. c \in Seq(Nat) /\ e + 3 <= Len(c) /\ Len(c) \in Nat BY DEF Left
<1>2. PICK z : z = Zeroed(c, i, j) OBVIOUS
<1>3. z \in Seq(Nat) /\ Len(z) = Len(c) /\ \A k \in 1 .. Len(c) : z[k] = IF k \in i .. j THEN 0 ELSE c[k]
  BY <1>1, <1>2, ZeroedIs
<1>4. z[e + 3] = 0
  <2>1. e + 3 \in 1 .. Len(c) /\ e + 3 \notin i .. j BY <1>1
  <2> QED BY <1>3, <2>1 DEF Left
<1>5. ASSUME NEW k \in d .. e + 2 PROVE z[k] = s[k]
  <2>1. k \in 1 .. Len(c) /\ k \notin i .. j /\ k \in a .. e + 2 BY <1>1
  <2> QED BY <1>3, <2>1 DEF Left
<1> QED BY <1>1, <1>2, <1>3, <1>4, <1>5 DEF Left

LEMMA OneElement ==
  ASSUME NEW c \in Seq(Nat), NEW a \in 1 .. Len(c)
  PROVE  SubSeq(c, a, a) = <<c[a]>>
<1>1. PICK l : l = SubSeq(c, a, a) OBVIOUS
<1>0. a \in Nat /\ Len(c) \in Nat /\ 1 <= a /\ a <= Len(c) /\ c[a] \in Nat OBVIOUS
<1>2. l \in Seq(Nat) /\ Len(l) = 1 /\ l[1] = c[a] BY <1>0, <1>1
<1>3. PICK m : m = <<c[a]>> OBVIOUS
<1>4. m \in Seq(Nat) /\ Len(m) = 1 /\ m[1] = c[a] BY <1>3
<1>5. \A k \in 1 .. 1 : l[k] = m[k] BY <1>2, <1>4
<1>6. l = [k \in 1 .. 1 |-> l[k]] /\ m = [k \in 1 .. 1 |-> m[k]] BY <1>2, <1>4
<1>7. l = m BY <1>5, <1>6, Zenon
<1> QED BY <1>1, <1>3, <1>7

LEMMA OneWord ==
  ASSUME NEW s \in Seq(Nat), NEW e \in Nat, NEW c, NEW a \in Nat, Left(s, e, c, a), 1 <= a, a + 2 <= e + 2,
         NEW r, r.buf = c, r.at = a,
         isgraph(s[a]), s[a + 1] = Space, isgraph(s[a + 2]), s[a + 2] \in Nat
  PROVE  NextWord(r, FALSE) = [ok |-> TRUE, buf |-> Zeroed(c, a + 1, a + 1), word |-> <<s[a]>>, at |-> a + 2]
<1>1. c \in Seq(Nat) /\ e + 3 <= Len(c) /\ Len(c) \in Nat BY DEF Left
<1>2. a + 1 \in a .. Len(c) /\ a + 2 \in (a + 1) + 1 .. Len(c) /\ a \in 1 .. Len(c) BY <1>1
<1>3. c[a] = s[a] /\ c[a + 1] = s[a + 1] /\ c[a + 2] = s[a + 2]
  <2>1. a \in a .. e + 2 /\ a + 1 \in a .. e + 2 /\ a + 2 \in a .. e + 2 OBVIOUS
  <2> QED BY <2>1 DEF Left
<1>4. \A m \in a .. (a + 1) - 1 : isgraph(c[m])
  <2>1. \A m \in a .. (a + 1) - 1 : m = a OBVIOUS
  <2> QED BY <1>3, <2>1
<1>5. \A m \in (a + 1) + 1 .. (a + 2) - 1 : isspace(c[m]) OBVIOUS
<1>6. ~isgraph(c[a + 1]) /\ ~isspace(c[a + 2]) /\ isgraph(c[a + 2]) /\ c[a + 1] = Space BY <1>3, PlainChars, SpaceChars
<1>7. SkipWord(c, a, FALSE) = [ok |-> TRUE, buf |-> Zeroed(c, a + 1, (a + 2) - 1), word |-> SubSeq(c, a, (a + 1) - 1), at |-> a + 2]
  <2>1. PICK j, k \in Nat : j = a + 1 /\ k = a + 2 OBVIOUS
  <2>2. j \in a .. Len(c) /\ k \in j + 1 .. Len(c) /\ FALSE \in BOOLEAN BY <1>2, <2>1
  <2>3. (FALSE /\ c[j] \in {CR, LF}) \/ (~FALSE /\ c[j] = Space) BY <1>6, <2>1
  <2>4. SkipWord(c, a, FALSE) = [ok |-> TRUE, buf |-> Zeroed(c, j, k - 1), word |-> SubSeq(c, a, j - 1), at |-> k]
    BY ONLY <1>1, <1>4, <1>5, <1>6, <2>1, <2>2, <2>3, SkipWordIs, a \in Nat, 1 <= a
  <2> QED BY <2>1, <2>4
<1>8. SubSeq(c, a, (a + 1) - 1) = <<s[a]>>
  <2>1. (a + 1) - 1 = a /\ SubSeq(c, a, a) = <<c[a]>> BY <1>1, <1>2, OneElement
  <2> QED BY <1>3, <2>1
<1>9. (a + 2) - 1 = a + 1 OBVIOUS
<1> QED BY <1>7, <1>8, <1>9 DEF NextWord

(* The three words of the request line; then come the fields, or what was  *)
(* the end of the header.                                                  *)
FirstWords(s) ==
  /\ s[1] \in {GET, POST} /\ s[2] = Space /\ s[3] = URI /\ s[4] = Space /\ s[5] \in {HTTP10, HTTP11}
  /\ s[6] = CR /\ s[7] = LF

LEMMA MethodAndTarget ==
  ASSUME NEW s \in Seq(Nat), NEW e \in Nat, 6 <= e, e + 3 <= Len(s), FirstWords(s), NEW cut, Left(s, e, cut, 1)
  PROVE  /\ \A r : r.buf = cut /\ r.at = 1 =>
              NextWord(r, FALSE) = [ok |-> TRUE, buf |-> Zeroed(cut, 2, 2), word |-> <<s[1]>>, at |-> 3]
         /\ \A r : r.buf = Zeroed(cut, 2, 2) /\ r.at = 3 =>
              NextWord(r, FALSE) = [ok |-> TRUE, buf |-> Zeroed(Zeroed(cut, 2, 2), 4, 4), word |-> <<URI>>, at |-> 5]
         /\ Left(s, e, Zeroed(Zeroed(cut, 2, 2), 4, 4), 5)
<1>1. 1 \in 1 .. Len(s) /\ 3 \in 1 .. Len(s) /\ 5 \in 1 .. Len(s) OBVIOUS
<1>2. s[1] \in Nat /\ s[3] \in Nat /\ s[5] \in Nat BY <1>1
<1>3. isgraph(s[1]) /\ isgraph(s[3]) /\ isgraph(s[5]) /\ s[2] = Space /\ s[4] = Space /\ s[3] = URI
  BY PlainChars DEF FirstWords
<1>4. ASSUME NEW r, r.buf = cut, r.at = 1
      PROVE  NextWord(r, FALSE) = [ok |-> TRUE, buf |-> Zeroed(cut, 2, 2), word |-> <<s[1]>>, at |-> 3]
  <2>1. isgraph(s[1]) /\ s[1 + 1] = Space /\ isgraph(s[1 + 2]) /\ s[1 + 2] \in Nat BY <1>2, <1>3
  <2>2. 1 \in Nat /\ 1 <= 1 /\ 1 + 2 <= e + 2 OBVIOUS
  <2>3. NextWord(r, FALSE) = [ok |-> TRUE, buf |-> Zeroed(cut, 1 + 1, 1 + 1), word |-> <<s[1]>>, at |-> 1 + 2]
    BY <1>4, <2>1, <2>2, OneWord
  <2>4. 1 + 1 = 2 /\ 1 + 2 = 3 OBVIOUS
  <2> QED BY <2>3, <2>4, Zenon
<1>5. PICK c : c = Zeroed(cut, 2, 2) OBVIOUS
<1>6. Left(s, e, c, 3) BY <1>5, LeftAfter
<1>7. ASSUME NEW r, r.buf = c, r.at = 3
      PROVE  NextWord(r, FALSE) = [ok |-> TRUE, buf |-> Zeroed(c, 4, 4), word |-> <<URI>>, at |-> 5]
  <2>1. isgraph(s[3]) /\ s[3 + 1] = Space /\ isgraph(s[3 + 2]) /\ s[3 + 2] \in Nat BY <1>2, <1>3
  <2>2. 3 \in Nat /\ 1 <= 3 /\ 3 + 2 <= e + 2 OBVIOUS
  <2>3. NextWord(r, FALSE) = [ok |-> TRUE, buf |-> Zeroed(c, 3 + 1, 3 + 1), word |-> <<s[3]>>, at |-> 3 + 2]
    BY <1>6, <1>7, <2>1, <2>2, OneWord
  <2>4. 3 + 1 = 4 /\ 3 + 2 = 5 OBVIOUS
  <2> QED BY <1>3, <2>3, <2>4, Zenon
<1>8. Left(s, e, Zeroed(c, 4, 4), 5) BY <1>6, LeftAfter
<1> QED BY <1>4, <1>5, <1>7, <1>8, Zenon

LEMMA VersionWord ==
  ASSUME NEW s \in Seq(Nat), NEW e \in Nat, 6 <= e, e + 3 <= Len(s), FirstWords(s), NEW d, Left(s, e, d, 5),
         NEW v \in {8, 9}, v = 9 => e = 6 /\ s[8] = CR, v = 8 => e # 6 /\ isgraph(s[8])
  PROVE  /\ \A r : r.buf = d /\ r.at = 5 =>
              NextWord(r, TRUE) = [ok |-> TRUE, buf |-> Zeroed(d, 6, v - 1), word |-> <<s[5]>>, at |-> v]
         /\ Left(s, e, Zeroed(d, 6, v - 1), v)
<1>1. d \in Seq(Nat) /\ Len(d) \in Nat /\ e + 3 <= Len(d) /\ d[5] = s[5] /\ d[6] = s[6] /\ d[7] = s[7] /\ d[8] = s[8] /\ d[e + 3] = 0
  <2>1. 5 \in 5 .. e + 2 /\ 6 \in 5 .. e + 2 /\ 7 \in 5 .. e + 2 /\ 8 \in 5 .. e + 2 OBVIOUS
  <2> QED BY <2>1 DEF Left
<1>2. s[5] \in Nat /\ s[8] \in Nat
  <2>1. 5 \in 1 .. Len(s) /\ 8 \in 1 .. Len(s) OBVIOUS
  <2> QED BY <2>1
<1>3. v \in Nat /\ v \in 6 + 1 .. Len(d) /\ v - 1 \in Nat /\ 5 <= v /\ 6 <= v - 1 /\ v - 1 < v /\ v - 1 < e + 3
  <2>1. Len(d) \in Nat /\ e + 3 <= Len(d) /\ e \in Nat /\ 6 <= e BY <1>1
  <2>2. CASE v = 8 BY ONLY <2>1, <2>2
  <2>3. CASE v = 9 BY ONLY <2>1, <2>3
  <2> QED BY <2>2, <2>3
<1>4. ~isspace(d[v]) /\ \A m \in 6 + 1 .. v - 1 : isspace(d[m])
  <2>1. CASE v = 9
    <3>1. d[9] = 0 /\ d[8] = CR /\ d[7] = LF BY <1>1, <2>1 DEF FirstWords
    <3>2. \A m \in 6 + 1 .. 9 - 1 : m = 7 \/ m = 8 OBVIOUS
    <3> QED BY <2>1, <3>1, <3>2, SpaceChars
  <2>2. CASE v = 8
    <3>1. \A m \in 6 + 1 .. 8 - 1 : m = 7 OBVIOUS
    <3>2. d[7] = LF BY <1>1 DEF FirstWords
    <3> QED BY <1>1, <1>2, <2>2, <3>1, <3>2, SpaceChars
  <2> QED BY <2>1, <2>2
<1>5. isgraph(s[5]) /\ d[6] = CR BY <1>1, PlainChars DEF FirstWords
<1>6. 5 \in Nat /\ 6 \in 5 .. Len(d) /\ 1 <= 5 /\ TRUE \in BOOLEAN BY <1>1
<1>7. \A m \in 5 .. 6 - 1 : isgraph(d[m])
  <2>1. \A m \in 5 .. 6 - 1 : m = 5 OBVIOUS
  <2> QED BY <1>1, <1>5, <2>1
<1>8. ~isgraph(d[6]) /\ ((TRUE /\ d[6] \in {CR, LF}) \/ (~TRUE /\ d[6] = Space)) BY <1>5, PlainChars
<1>9. SkipWord(d, 5, TRUE) = [ok |-> TRUE, buf |-> Zeroed(d, 6, v - 1), word |-> SubSeq(d, 5, 6 - 1), at |-> v]
  <2>1. TRUE \/ isgraph(d[v]) OBVIOUS
  <2> QED BY ONLY <1>1, <1>3, <1>4, <1>6, <1>7, <1>8, <2>1, SkipWordIs
<1>10. 6 - 1 = 5 /\ SubSeq(d, 5, 5) = <<s[5]>>
  <2>1. 5 \in 1 .. Len(d) BY <1>6
  <2>2. SubSeq(d, 5, 5) = <<d[5]>> BY <1>1, <2>1, OneElement
  <2> QED BY <1>1, <2>2
<1>11. ASSUME NEW r, r.buf = d, r.at = 5
       PROVE  NextWord(r, TRUE) = [ok |-> TRUE, buf |-> Zeroed(d, 6, v - 1), word |-> <<s[5]>>, at |-> v]
  BY <1>9, <1>10, <1>11, Zenon DEF NextWord
<1>12. Left(s, e, Zeroed(d, 6, v - 1), v) BY ONLY <1>3, LeftAfter, s \in Seq(Nat), e \in Nat, 5 \in Nat, 6 \in Nat, Left(s, e, d, 5), 1 <= 5
<1> QED BY <1>11, <1>12

LEMMA RequestLine ==
  ASSUME NEW s \in Seq(Nat), IsRfc(s), NEW e, e = Min(Ends(s))
  PROVE  /\ e \in Nat /\ 6 <= e /\ e + 3 <= Len(s) /\ FirstWords(s)
         /\ e = 6 => s[8] = CR
         /\ e # 6 => isgraph(s[8]) /\ \E p \in 8 .. e : LineAt(s, 2, 8, p)
<1>0. Ends(s) # {} BY DEF IsRfc
<1>1. e \in 1 .. Len(s) - 3 /\ s[e] = CR /\ s[e + 1] = LF /\ s[e + 2] = CR /\ s[e + 3] = LF
  BY <1>0, HeaderEnds, Zenon
<1>2. LineAt(s, 1, 1, 6) /\ s[1] \in {GET, POST} /\ s[2] = Space /\ s[3] = URI /\ s[4] = Space
      /\ s[5] \in {HTTP10, HTTP11}
  BY FirstLine, Zenon
<1>3. Breaks(s) \in SUBSET (1 .. e) /\ \A q \in 1 .. e : q \in Breaks(s) <=> s[q] = CR /\ s[q + 1] = LF
  BY <1>0, BreaksAre, Zenon
<1>4. 6 \in Breaks(s) BY <1>2 DEF LineAt
<1>5. 6 \in 1 .. e BY <1>3, <1>4
<1>6. e \in Nat /\ 6 <= e /\ e + 3 <= Len(s) BY ONLY <1>1, <1>5, s \in Seq(Nat)
<1>7. s[6] = CR /\ s[6 + 1] = LF /\ 6 + 1 = 7 BY <1>3, <1>4, <1>5
<1>8. ASSUME e # 6 PROVE isgraph(s[8]) /\ \E p \in 8 .. e : LineAt(s, 2, 8, p)
  <2>0. 6 # e /\ 1 + 1 = 2 /\ 6 + 2 = 8 BY <1>8
  <2>1. PICK p \in 6 + 2 .. e : LineAt(s, 1 + 1, 6 + 2, p) BY <1>0, <1>2, <2>0, NextLine, Zenon
  <2>2. LineAt(s, 2, 8, p) /\ p \in 8 .. e BY <2>0, <2>1, Zenon
  <2>3. PICK f \in 8 + 1 .. p - 1 : \A k \in 8 .. f - 1 : isgraph(s[k]) /\ s[k] # Colon
    <3>1. PICK n, i \in Nat : n = 2 /\ i = 8 OBVIOUS
    <3>2. FieldLine(s, n, i, p) BY <2>2, <3>1 DEF FieldLine
    <3>3. \E f \in i + 1 .. p - 1 :
              /\ s[f] = Colon /\ \A k \in i .. f - 1 : isgraph(s[k]) /\ s[k] # Colon
              /\ Find(SubSeq(s, i, p - 1), {Colon}) = f - i + 1
      <4>1. FieldIs(s, e, n, i, p) BY <3>2, FieldAt, Zenon
      <4> QED BY <4>1 DEF FieldIs
    <3> QED BY ONLY <3>1, <3>3
  <2>4. 8 \in 8 .. f - 1 BY ONLY <2>2, <2>3, <1>6
  <2> QED BY <2>2, <2>3, <2>4
<1>9. ASSUME e = 6 PROVE s[8] = CR
  <2>1. e + 2 = 8 BY ONLY <1>9
  <2> QED BY <1>1, <2>1, Zenon
<1>10. FirstWords(s) BY <1>2, <1>7, Zenon DEF FirstWords
<1> QED BY <1>6, <1>8, <1>9, <1>10

(***************************************************************************)
(* A line with a field: what the parser stores is what it says.            *)
(***************************************************************************)
(* Parts of sequences. *)
LEMMA SameSequence ==
  ASSUME NEW S, NEW a \in Seq(S), NEW b \in Seq(S), Len(a) = Len(b), \A k \in 1 .. Len(a) : a[k] = b[k]
  PROVE  a = b
<1>1. a = [k \in 1 .. Len(a) |-> a[k]] /\ b = [k \in 1 .. Len(b) |-> b[k]] OBVIOUS
<1> QED BY <1>1, Zenon

LEMMA PartIs ==
  ASSUME NEW S, NEW s \in Seq(S), NEW i \in Nat, NEW j \in Int, 1 <= i, j <= Len(s), i <= j + 1
  PROVE  /\ SubSeq(s, i, j) \in Seq(S) /\ Len(SubSeq(s, i, j)) = j - i + 1 /\ j - i + 1 \in Nat
         /\ \A k \in 1 .. j - i + 1 : SubSeq(s, i, j)[k] = s[i + k - 1]
<1>1. Len(s) \in Nat /\ j - i + 1 \in Nat OBVIOUS
<1>2. CASE i = j + 1
  <2>1. SubSeq(s, i, j) = << >> /\ << >> \in Seq(S) /\ Len(<< >>) = 0 BY <1>1, <1>2
  <2>2. j - i + 1 = 0 BY <1>2
  <2> QED BY <2>1, <2>2
<1>3. CASE i <= j
  <2>1. \A k \in i .. j : s[k] \in S BY <1>1
  <2>2. SubSeq(s, i, j) \in Seq(S) BY <1>1, <1>3, <2>1
  <2>3. Len(SubSeq(s, i, j)) = j - i + 1 BY <1>1, <1>3
  <2>4. \A k \in 1 .. j - i + 1 : SubSeq(s, i, j)[k] = s[i + k - 1] BY <1>1, <1>3
  <2> QED BY <1>1, <2>2, <2>3, <2>4
<1> QED BY <1>2, <1>3

LEMMA SamePart ==
  ASSUME NEW S, NEW a \in Seq(S), NEW b \in Seq(S), NEW i \in Nat, NEW j \in Int,
         1 <= i, j <= Len(a), j <= Len(b), i <= j + 1, \A k \in i .. j : a[k] = b[k]
  PROVE  SubSeq(a, i, j) = SubSeq(b, i, j)
<1>1. PICK c : c = SubSeq(a, i, j) OBVIOUS
<1>2. PICK d : d = SubSeq(b, i, j) OBVIOUS
<1>3. c \in Seq(S) /\ Len(c) = j - i + 1 /\ j - i + 1 \in Nat /\ \A k \in 1 .. j - i + 1 : c[k] = a[i + k - 1]
  BY <1>1, PartIs
<1>4. d \in Seq(S) /\ Len(d) = j - i + 1 /\ \A k \in 1 .. j - i + 1 : d[k] = b[i + k - 1]
  BY <1>2, PartIs
<1>5. \A k \in 1 .. j - i + 1 : i + k - 1 \in i .. j OBVIOUS
<1>6. \A k \in 1 .. Len(c) : c[k] = d[k] BY <1>3, <1>4, <1>5
<1>7. c = d BY <1>3, <1>4, <1>6, SameSequence
<1> QED BY <1>1, <1>2, <1>7

LEMMA PartOfPart ==
  ASSUME NEW S, NEW s \in Seq(S), NEW i \in Nat, NEW j \in Int, 1 <= i, j <= Len(s), i <= j + 1,
         NEW m \in Nat, NEW n \in Int, 1 <= m, n <= j - i + 1, m <= n + 1
  PROVE  SubSeq(SubSeq(s, i, j), m, n) = SubSeq(s, i + m - 1, i + n - 1)
<1>1. PICK c : c = SubSeq(s, i, j) OBVIOUS
<1>2. c \in Seq(S) /\ Len(c) = j - i + 1 /\ j - i + 1 \in Nat /\ \A k \in 1 .. j - i + 1 : c[k] = s[i + k - 1]
  BY <1>1, PartIs
<1>3. PICK d : d = SubSeq(c, m, n) OBVIOUS
<1>4. d \in Seq(S) /\ Len(d) = n - m + 1 /\ n - m + 1 \in Nat /\ \A k \in 1 .. n - m + 1 : d[k] = c[m + k - 1]
  BY <1>2, <1>3, PartIs
<1>5. PICK f : f = SubSeq(s, i + m - 1, i + n - 1) OBVIOUS
<1>6. i + m - 1 \in Nat /\ i + n - 1 \in Int /\ 1 <= i + m - 1 /\ i + n - 1 <= Len(s) /\ i + m - 1 <= (i + n - 1) + 1
      /\ (i + n - 1) - (i + m - 1) + 1 = n - m + 1
  BY <1>2
<1>7. f \in Seq(S) /\ Len(f) = n - m + 1 /\ \A k \in 1 .. n - m + 1 : f[k] = s[(i + m - 1) + k - 1]
  BY <1>5, <1>6, PartIs
<1>8. ASSUME NEW k \in 1 .. n - m + 1 PROVE d[k] = f[k]
  <2>1. m + k - 1 \in 1 .. j - i + 1 /\ i + (m + k - 1) - 1 = (i + m - 1) + k - 1 BY <1>4
  <2>2. d[k] = c[m + k - 1] /\ f[k] = s[(i + m - 1) + k - 1] BY <1>4, <1>7
  <2>3. c[m + k - 1] = s[i + (m + k - 1) - 1] BY <1>2, <2>1
  <2> QED BY <2>1, <2>2, <2>3
<1>9. d = f
  <2>1. \A k \in 1 .. Len(d) : d[k] = f[k] BY <1>4, <1>8
  <2> QED BY <1>4, <1>7, <2>1, SameSequence
<1> QED BY <1>1, <1>3, <1>5, <1>9

(* What one turn does with a line that has a name, a colon and an end.     *)
Stored(x, b, i) ==
  LET colon == PastName(b, i)
      value == PastBlanks(b, colon + 1)
      end == LineEnd(b, value)
      ended == Zeroed(Zeroed(b, colon, colon), end, end + 1)
  IN [x EXCEPT !.goes_on = ended[end + 2] # CR, !.buf = ended, !.at = end + 2,
               !.headers = Append(@, [name |-> SubSeq(b, i, colon - 1), value |-> SubSeq(b, value, end - 1)])]

LEMMA ParseHeaderIs ==
  ASSUME NEW x, NEW b, b = x.buf, NEW i, i = x.at,
         PastName(b, i) # i, b[PastName(b, i)] = Colon,
         b[LineEnd(b, PastBlanks(b, PastName(b, i) + 1))] = CR,
         b[LineEnd(b, PastBlanks(b, PastName(b, i) + 1)) + 1] = LF
  PROVE  ParseHeader(x) = Stored(x, b, i)
BY Zenon DEF ParseHeader, Stored

(* A line with a field from i to the break at q, its colon at c, its value *)
(* from v on.                                                              *)
ColonAt(s, e, i, q, c) ==
  /\ e \in Nat /\ e + 3 <= Len(s) /\ q \in 1 .. e /\ i \in 1 .. q /\ c \in i + 1 .. q - 1
  /\ s[c] = Colon /\ \A k \in i .. c - 1 : isgraph(s[k]) /\ s[k] # Colon
  /\ \A k \in i .. q - 1 : isgraph(s[k]) \/ s[k] = Space
  /\ s[q] = CR /\ s[q + 1] = LF
ValueAt(s, q, c, v) == v \in c + 1 .. q /\ s[v] # Space /\ \A k \in c + 1 .. v - 1 : s[k] = Space

NextAt(x, go, b, a, t) == [x EXCEPT !.goes_on = go, !.buf = b, !.at = a, !.headers = Append(@, t)]
OneParsed(s, q, c, x, b, i) ==
  \E v : /\ ValueAt(s, q, c, v)
         /\ ParseHeader(x) =
              NextAt(x, Zeroed(Zeroed(b, c, c), q, q + 1)[q + 2] # CR, Zeroed(Zeroed(b, c, c), q, q + 1), q + 2,
                     [name |-> SubSeq(s, i, c - 1), value |-> SubSeq(s, v, q - 1)])

LEMMA FieldParsed ==
  ASSUME NEW s \in Seq(Nat), NEW e, NEW i, NEW q, NEW c, ColonAt(s, e, i, q, c),
         NEW x, NEW b, b = x.buf, i = x.at, Left(s, e, b, i)
  PROVE  OneParsed(s, q, c, x, b, i)
<1>1. /\ e \in Nat /\ q \in Nat /\ i \in Nat /\ c \in Nat /\ Len(s) \in Nat /\ Len(b) \in Nat
      /\ 1 <= i /\ i <= q /\ q <= e /\ i + 1 <= c /\ c + 1 <= q /\ e + 3 <= Len(s) /\ e + 3 <= Len(b)
  <2>1. e \in Nat /\ e + 3 <= Len(s) /\ q \in 1 .. e /\ i \in 1 .. q /\ c \in i + 1 .. q - 1
    BY Zenon DEF ColonAt
  <2>2. b \in Seq(Nat) /\ e + 3 <= Len(b) BY Zenon DEF Left
  <2>3. q \in Nat /\ i \in Nat BY ONLY <2>1
  <2>4. c \in Nat /\ Len(s) \in Nat /\ Len(b) \in Nat BY ONLY <2>1, <2>2, <2>3, s \in Seq(Nat)
  <2> QED BY ONLY <2>1, <2>2, <2>3, <2>4
<1>2. b \in Seq(Nat) /\ \A k \in i .. e + 2 : b[k] = s[k] BY DEF Left
<1>3. \A k \in i .. q + 1 : b[k] = s[k]
  <2>1. ASSUME NEW k \in i .. q + 1 PROVE k \in i .. e + 2 BY ONLY <1>1, k \in i .. q + 1
  <2> QED BY <1>2, <2>1
<1>4. PICK n : n = PastName(b, i) OBVIOUS
<1>5. n = c
  <2>1. c \in i .. Len(b) /\ c \in i .. q + 1 BY ONLY <1>1
  <2>2. b[c] = Colon BY <1>3, <2>1 DEF ColonAt
  <2>3. n \in i .. c /\ (b[n] = Colon \/ ~isgraph(b[n])) BY ONLY <1>1, <1>2, <1>4, <2>1, <2>2, NameEnds
  <2>4. ASSUME n # c PROVE FALSE
    <3>1. n \in i .. c - 1 /\ n \in i .. q + 1 BY ONLY <1>1, <2>3, <2>4
    <3>2. b[n] = s[n] /\ isgraph(s[n]) /\ s[n] # Colon BY <1>3, <3>1 DEF ColonAt
    <3> QED BY <2>3, <3>2
  <2> QED BY <2>4
<1>6. b[n] = Colon /\ n # i
  <2>1. c \in i .. q + 1 BY ONLY <1>1
  <2>2. b[c] = Colon BY <1>3, <2>1 DEF ColonAt
  <2>3. c # i BY ONLY <1>1
  <2> QED BY <1>5, <2>2, <2>3
<1>7. b[q] = CR /\ b[q + 1] = LF /\ b[q] # Space
  <2>1. q \in i .. q + 1 /\ q + 1 \in i .. q + 1 BY ONLY <1>1
  <2> QED BY <1>3, <2>1 DEF ColonAt, CR, Space
<1>8. PICK v : v = PastBlanks(b, c + 1) OBVIOUS
<1>9. v \in c + 1 .. q /\ b[v] # Space /\ \A k \in c + 1 .. v - 1 : b[k] = Space
  <2>1. PICK d \in Nat : d = c + 1 BY ONLY <1>1
  <2>2. q \in d .. Len(b) BY ONLY <1>1, <2>1
  <2>3. v = PastBlanks(b, d) /\ b[q] # Space /\ b \in Seq(Nat) BY <1>2, <1>7, <1>8, <2>1
  <2>4. v \in d .. q /\ b[v] # Space /\ \A k \in d .. v - 1 : b[k] = Space
    BY ONLY <2>2, <2>3, d \in Nat, BlanksEnd
  <2> QED BY <2>1, <2>4
<1>10. ValueAt(s, q, c, v)
  <2>1. v \in i .. q + 1 BY ONLY <1>1, <1>9
  <2>2. \A k \in c + 1 .. v - 1 : k \in i .. q + 1 BY ONLY <1>1, <1>9
  <2> QED BY <1>3, <1>9, <2>1, <2>2 DEF ValueAt
<1>11. PICK f : f = LineEnd(b, v) OBVIOUS
<1>12. f = q
  <2>1. v \in Nat /\ q \in v .. Len(b) BY ONLY <1>1, <1>9
  <2>2. b[q] \in {CR, LF, 0} BY <1>7
  <2>3. f \in v .. q /\ b[f] \in {CR, LF, 0} BY ONLY <1>2, <1>11, <2>1, <2>2, LineEnds
  <2>4. ASSUME f # q PROVE FALSE
    <3>1. f \in i .. q - 1 /\ f \in i .. q + 1 /\ f \in 1 .. Len(s) BY ONLY <1>1, <1>9, <2>3, <2>4
    <3>2. b[f] = s[f] /\ (isgraph(s[f]) \/ s[f] = Space) /\ s[f] \in Nat
      <4>1. b[f] = s[f] BY <1>3, <3>1
      <4>2. isgraph(s[f]) \/ s[f] = Space BY <3>1, Zenon DEF ColonAt
      <4>3. s[f] \in Nat BY ONLY <3>1, s \in Seq(Nat)
      <4> QED BY <4>1, <4>2, <4>3
    <3>3. s[f] # LF /\ s[f] # CR /\ s[f] # 0 BY <3>2, PlainChars, Zenon
    <3> QED BY <2>3, <3>2, <3>3
  <2> QED BY <2>4
<1>13. SubSeq(b, i, c - 1) = SubSeq(s, i, c - 1)
  <2>1. c - 1 \in Int /\ c - 1 <= Len(s) /\ c - 1 <= Len(b) /\ i <= (c - 1) + 1 BY ONLY <1>1
  <2>2. \A k \in i .. c - 1 : b[k] = s[k]
    <3>1. \A k \in i .. c - 1 : k \in i .. q + 1 BY ONLY <1>1
    <3> QED BY <1>3, <3>1
  <2> QED BY ONLY <1>1, <1>2, <2>1, <2>2, SamePart, s \in Seq(Nat)
<1>14. SubSeq(b, v, q - 1) = SubSeq(s, v, q - 1)
  <2>1. v \in Nat /\ 1 <= v /\ q - 1 \in Int /\ q - 1 <= Len(s) /\ q - 1 <= Len(b) /\ v <= (q - 1) + 1
    BY ONLY <1>1, <1>9
  <2>2. \A k \in v .. q - 1 : b[k] = s[k]
    <3>1. \A k \in v .. q - 1 : k \in i .. q + 1 BY ONLY <1>1, <1>9
    <3> QED BY <1>3, <3>1
  <2> QED BY ONLY <1>1, <1>2, <2>1, <2>2, SamePart, s \in Seq(Nat)
<1>15. /\ PastName(b, i) = c /\ PastBlanks(b, c + 1) = v /\ LineEnd(b, v) = q
       /\ PastName(b, i) # i /\ b[PastName(b, i)] = Colon
  BY <1>4, <1>5, <1>6, <1>8, <1>11, <1>12
<1>16. ParseHeader(x) = Stored(x, b, i)
  <2>1. /\ b[LineEnd(b, PastBlanks(b, PastName(b, i) + 1))] = CR
        /\ b[LineEnd(b, PastBlanks(b, PastName(b, i) + 1)) + 1] = LF
    BY <1>7, <1>15, Zenon
  <2> QED BY <1>15, <2>1, ParseHeaderIs, Zenon
<1>17. ParseHeader(x) =
         [x EXCEPT !.goes_on = Zeroed(Zeroed(b, c, c), q, q + 1)[q + 2] # CR,
                   !.buf = Zeroed(Zeroed(b, c, c), q, q + 1), !.at = q + 2,
                   !.headers = Append(@, [name |-> SubSeq(b, i, c - 1), value |-> SubSeq(b, v, q - 1)])]
  BY <1>15, <1>16, Zenon DEF Stored
<1> QED BY <1>10, <1>13, <1>14, <1>17, Zenon DEF OneParsed, NextAt

(* RFC 7230's field of a line, in the parser's terms.                      *)
LEMMA LargestIs ==
  ASSUME NEW S \in SUBSET Nat, NEW m \in S, \A x \in S : x <= m
  PROVE  Max(S) = m
<1>1. PICK k : k = Max(S) OBVIOUS
<1>2. k \in S /\ \A x \in S : x <= k BY <1>1, LargestOf
<1>3. k \in Nat /\ m \in Nat /\ k <= m /\ m <= k BY <1>2
<1> QED BY <1>1, <1>3

Within(s, i, j, m, n, a, b) ==
  /\ i \in Nat /\ j \in Int /\ 1 <= i /\ j <= Len(s) /\ i <= j + 1
  /\ m \in Nat /\ n \in Int /\ 1 <= m /\ n <= j - i + 1 /\ m <= n + 1
  /\ a = i + m - 1 /\ b = i + n - 1

IsPart(s, i, j, m, n, a, b) == SubSeq(SubSeq(s, i, j), m, n) = SubSeq(s, a, b)

LEMMA PartWithin ==
  ASSUME NEW s \in Seq(Nat), NEW i, NEW j, NEW m, NEW n, NEW a, NEW b, Within(s, i, j, m, n, a, b)
  PROVE  IsPart(s, i, j, m, n, a, b)
<1>1. /\ i \in Nat /\ j \in Int /\ 1 <= i /\ j <= Len(s) /\ i <= j + 1
      /\ m \in Nat /\ n \in Int /\ 1 <= m /\ n <= j - i + 1 /\ m <= n + 1
      /\ a = i + m - 1 /\ b = i + n - 1
  BY Zenon DEF Within
<1>2. SubSeq(SubSeq(s, i, j), m, n) = SubSeq(s, i + m - 1, i + n - 1) BY <1>1, PartOfPart
<1> QED BY <1>1, <1>2, Zenon DEF IsPart

(* The blanks before a value. *)
LEMMA BlanksAre ==
  ASSUME NEW value \in Seq(Nat), NEW m \in 0 .. Len(value),
         \A k \in 1 .. m : value[k] = Space, m + 1 <= Len(value) => value[m + 1] # Space
  PROVE  Max({n \in 0 .. Len(value) : \A i \in 1 .. n : value[i] = Space}) = m
<1> DEFINE S == {n \in 0 .. Len(value) : \A i \in 1 .. n : value[i] = Space}
<1>1. S \in SUBSET Nat /\ m \in S OBVIOUS
<1>2. ASSUME NEW x \in S PROVE x <= m
  <2>1. SUFFICES ASSUME ~(x <= m) PROVE FALSE OBVIOUS
  <2>2. x \in 0 .. Len(value) /\ \A i \in 1 .. x : value[i] = Space OBVIOUS
  <2>3. m + 1 \in 1 .. x /\ m + 1 <= Len(value) BY <2>1, <2>2
  <2> QED BY <2>2, <2>3
<1> HIDE DEF S
<1>3. Max(S) = m BY <1>1, <1>2, LargestIs
<1> QED BY <1>3 DEF S

LEMMA FieldIsParts ==
  ASSUME NEW l
  PROVE  Field(l) =
           LET c == Find(l, {Colon})
               value == SubSeq(l, c + 1, Len(l))
           IN [name |-> SubSeq(l, 1, c - 1),
               value |-> SubSeq(value, Max({n \in 0 .. Len(value) : \A i \in 1 .. n : value[i] = Space}) + 1, Len(value))]
BY Zenon DEF Field

FieldHas(s, i, q, c, v) ==
  Field(SubSeq(s, i, q - 1)) = [name |-> SubSeq(s, i, c - 1), value |-> SubSeq(s, v, q - 1)]

LEMMA FieldOf ==
  ASSUME NEW s \in Seq(Nat), NEW e, NEW i, NEW q, NEW c, ColonAt(s, e, i, q, c),
         Find(SubSeq(s, i, q - 1), {Colon}) = c - i + 1, NEW v, ValueAt(s, q, c, v)
  PROVE  FieldHas(s, i, q, c, v)
<1>1. /\ e \in Nat /\ q \in Nat /\ i \in Nat /\ c \in Nat /\ Len(s) \in Nat /\ v \in Nat
      /\ 1 <= i /\ i <= q /\ q <= e /\ i + 1 <= c /\ c + 1 <= q /\ e + 3 <= Len(s) /\ c + 1 <= v /\ v <= q
  <2>1. e \in Nat /\ e + 3 <= Len(s) /\ q \in 1 .. e /\ i \in 1 .. q /\ c \in i + 1 .. q - 1
    BY Zenon DEF ColonAt
  <2>2. v \in c + 1 .. q BY Zenon DEF ValueAt
  <2>3. q \in Nat /\ i \in Nat BY ONLY <2>1
  <2>4. c \in Nat /\ Len(s) \in Nat BY ONLY <2>1, <2>3, s \in Seq(Nat)
  <2> QED BY ONLY <2>1, <2>2, <2>3, <2>4
<1>2. PICK l : l = SubSeq(s, i, q - 1) OBVIOUS
<1>3. l \in Seq(Nat) /\ Len(l) = q - i
  <2>1. q - 1 \in Int /\ q - 1 <= Len(s) /\ i <= (q - 1) + 1 /\ (q - 1) - i + 1 = q - i BY ONLY <1>1
  <2> QED BY ONLY <1>1, <1>2, <2>1, PartIs, s \in Seq(Nat)
<1>4. PICK f : f = c - i + 1 OBVIOUS
<1>5. f \in Nat /\ f - 1 \in Nat /\ Find(l, {Colon}) = f BY <1>1, <1>2, <1>4
<1>6. PICK value : value = SubSeq(s, c + 1, q - 1) OBVIOUS
<1>7. /\ value \in Seq(Nat) /\ Len(value) = q - c - 1 /\ Len(value) \in Nat
      /\ \A k \in 1 .. Len(value) : value[k] = s[c + k]
  <2>1. /\ c + 1 \in Nat /\ 1 <= c + 1 /\ q - 1 \in Int /\ q - 1 <= Len(s) /\ c + 1 <= (q - 1) + 1
        /\ (q - 1) - (c + 1) + 1 = q - c - 1 /\ q - c - 1 \in Nat
    BY ONLY <1>1
  <2>2. value \in Seq(Nat) /\ Len(value) = q - c - 1 /\ \A k \in 1 .. q - c - 1 : value[k] = s[(c + 1) + k - 1]
    <3>1. /\ SubSeq(s, c + 1, q - 1) \in Seq(Nat) /\ Len(SubSeq(s, c + 1, q - 1)) = (q - 1) - (c + 1) + 1
          /\ \A k \in 1 .. (q - 1) - (c + 1) + 1 : SubSeq(s, c + 1, q - 1)[k] = s[(c + 1) + k - 1]
      BY ONLY <2>1, PartIs, s \in Seq(Nat)
    <3> QED BY ONLY <1>6, <2>1, <3>1
  <2>3. \A k \in 1 .. q - c - 1 : (c + 1) + k - 1 = c + k BY ONLY <1>1
  <2> QED BY ONLY <2>1, <2>2, <2>3
<1>8. SubSeq(l, f + 1, Len(l)) = value
  <2>1. Within(s, i, q - 1, f + 1, Len(l), c + 1, q - 1) BY ONLY <1>1, <1>3, <1>4 DEF Within
  <2>2. IsPart(s, i, q - 1, f + 1, Len(l), c + 1, q - 1) BY <2>1, PartWithin, Zenon
  <2> QED BY <1>2, <1>6, <2>2, Zenon DEF IsPart
<1>9. SubSeq(l, 1, f - 1) = SubSeq(s, i, c - 1)
  <2>1. Within(s, i, q - 1, 1, f - 1, i, c - 1) BY ONLY <1>1, <1>3, <1>4 DEF Within
  <2>2. IsPart(s, i, q - 1, 1, f - 1, i, c - 1) BY <2>1, PartWithin, Zenon
  <2> QED BY <1>2, <2>2, Zenon DEF IsPart
<1>10. PICK m : m = v - c - 1 OBVIOUS
<1>11. m \in 0 .. Len(value) BY ONLY <1>1, <1>7, <1>10
<1>12. \A k \in 1 .. m : value[k] = Space
  <2>1. \A k \in 1 .. m : k \in 1 .. Len(value) /\ c + k \in c + 1 .. v - 1 BY ONLY <1>1, <1>7, <1>10
  <2> QED BY <1>7, <2>1 DEF ValueAt
<1>13. m + 1 <= Len(value) => value[m + 1] # Space
  <2>1. m + 1 <= Len(value) => m + 1 \in 1 .. Len(value) BY ONLY <1>7, <1>11
  <2>2. c + (m + 1) = v BY ONLY <1>1, <1>10
  <2>3. s[v] # Space BY DEF ValueAt
  <2>4. m + 1 <= Len(value) => value[m + 1] = s[c + (m + 1)] BY ONLY <1>7, <2>1
  <2> QED BY ONLY <2>2, <2>3, <2>4
<1>14. Max({n \in 0 .. Len(value) : \A k \in 1 .. n : value[k] = Space}) = m
  BY ONLY <1>7, <1>11, <1>12, <1>13, BlanksAre
<1>15. SubSeq(value, m + 1, Len(value)) = SubSeq(s, v, q - 1)
  <2>1. Within(s, c + 1, q - 1, m + 1, Len(value), v, q - 1) BY ONLY <1>1, <1>7, <1>10 DEF Within
  <2>2. IsPart(s, c + 1, q - 1, m + 1, Len(value), v, q - 1) BY <2>1, PartWithin, Zenon
  <2> QED BY <1>6, <2>2, Zenon DEF IsPart
<1>16. Field(l) =
         [name |-> SubSeq(l, 1, f - 1),
          value |-> SubSeq(value, Max({n \in 0 .. Len(value) : \A k \in 1 .. n : value[k] = Space}) + 1, Len(value))]
  BY <1>5, <1>8, FieldIsParts, Zenon
<1> QED BY <1>2, <1>9, <1>14, <1>15, <1>16, Zenon DEF FieldHas

(* Every line but the first has a colon; the next line begins where the    *)
(* parser goes on.                                                         *)
HasColon(s, e, n, i, q) ==
  \E c : ColonAt(s, e, i, q, c) /\ Find(SubSeq(s, i, q - 1), {Colon}) = c - i + 1
                                /\ LinesOf(s)[n] = SubSeq(s, i, q - 1)

LEMMA LineColon ==
  ASSUME NEW s \in Seq(Nat), IsRfc(s), NEW e, e = Min(Ends(s)),
         NEW n, NEW i, NEW q, FieldLine(s, n, i, q)
  PROVE  HasColon(s, e, n, i, q)
<1>l. LineAt(s, n, i, q) BY DEF FieldLine
<1>0. Ends(s) # {} BY DEF IsRfc
<1>1. FieldIs(s, e, n, i, q) BY FieldAt, Zenon
<1>2. \A k \in i .. q - 1 : isgraph(s[k]) \/ s[k] = Space BY <1>l, LineChars, Zenon
<1>3. s[q] = CR /\ s[q + 1] = LF
  <2>1. q \in Breaks(s) BY <1>l, Zenon DEF LineAt
  <2>2. \A p \in 1 .. e : p \in Breaks(s) <=> s[p] = CR /\ s[p + 1] = LF BY <1>0, BreaksAre, Zenon
  <2>3. q \in 1 .. e BY <1>1, Zenon DEF FieldIs
  <2> QED BY <2>1, <2>2, <2>3, Zenon
<1>4. PICK c \in i + 1 .. q - 1 :
         /\ s[c] = Colon /\ \A k \in i .. c - 1 : isgraph(s[k]) /\ s[k] # Colon
         /\ Find(SubSeq(s, i, q - 1), {Colon}) = c - i + 1
  BY <1>1, Zenon DEF FieldIs
<1>5. ColonAt(s, e, i, q, c) BY <1>1, <1>2, <1>3, <1>4, Zenon DEF ColonAt, FieldIs
<1>6. LinesOf(s)[n] = SubSeq(s, i, q - 1) BY <1>1, Zenon DEF FieldIs
<1> QED BY <1>4, <1>5, <1>6, Zenon DEF HasColon

(* After a line comes another, or the end of the header.                   *)
GoesOn(s, e, n, q) ==
  \/ q = e /\ n = Len(LinesOf(s)) /\ s[q + 2] = CR
  \/ n < Len(LinesOf(s)) /\ s[q + 2] # CR /\ \E p : FieldLine(s, n + 1, q + 2, p)

LEMMA AfterLine ==
  ASSUME NEW s \in Seq(Nat), IsRfc(s), NEW e, e = Min(Ends(s)),
         NEW n, NEW i, NEW q, FieldLine(s, n, i, q)
  PROVE  GoesOn(s, e, n, q)
<1>l. LineAt(s, n, i, q) BY DEF FieldLine
<1>0. Ends(s) # {} BY DEF IsRfc
<1>1. e \in 1 .. Len(s) - 3 /\ s[e] = CR /\ s[e + 1] = LF /\ s[e + 2] = CR /\ s[e + 3] = LF
  BY <1>0, HeaderEnds, Zenon
<1>2. FieldIs(s, e, n, i, q) BY FieldAt, Zenon
<1>3. Len(LinesOf(s)) \in Nat /\ n \in Nat /\ 2 <= n /\ q \in Nat /\ 1 <= q /\ q <= e /\ e \in Nat
  <2>1. n \in 2 .. Len(LinesOf(s)) /\ q \in 1 .. e /\ e \in Nat BY <1>2, Zenon DEF FieldIs
  <2>2. Len(LinesOf(s)) \in Nat
    <3>1. Breaks(s) \in SUBSET (1 .. e) /\ q \in Breaks(s) BY <1>0, <1>l, BreaksAre, Zenon DEF LineAt
    <3>2. Cardinality(Breaks(s)) \in Nat BY <2>1, <3>1, RankIsNat
    <3>3. Len(LinesOf(s)) = Cardinality(Breaks(s)) BY <3>2 DEF LinesOf
    <3> QED BY <3>2, <3>3
  <2> QED BY ONLY <2>1, <2>2
<1>4. CASE q = e
  <2>1. Breaks(s) \in SUBSET (1 .. e) /\ q \in Breaks(s) /\ n = Rank(Breaks(s), q)
    BY <1>0, <1>l, BreaksAre, Zenon DEF LineAt
  <2>2. PICK B : B = Breaks(s) OBVIOUS
  <2>3. \A k \in B : k <= e BY <1>3, <2>1, <2>2
  <2>4. n = Cardinality(B) BY ONLY <1>4, <2>1, <2>2, <2>3, RankLast
  <2>5. Len(LinesOf(s)) = Cardinality(B)
    <3>1. Cardinality(B) \in Nat BY <1>3, <2>4
    <3> QED BY <2>2, <3>1 DEF LinesOf
  <2> QED BY <1>1, <1>4, <2>4, <2>5, Zenon DEF GoesOn
<1>5. CASE q # e
  <2>1. PICK p \in q + 2 .. e : LineAt(s, n + 1, q + 2, p) BY <1>0, <1>5, <1>l, NextLine, Zenon
  <2>2. n + 1 # 1 BY ONLY <1>3
  <2>3. FieldLine(s, n + 1, q + 2, p) BY <2>1, <2>2, Zenon DEF FieldLine
  <2>4. HasColon(s, e, n + 1, q + 2, p) BY <2>3, LineColon, Zenon
  <2>5. PICK c : ColonAt(s, e, q + 2, p, c) BY <2>4, Zenon DEF HasColon
  <2>6. c \in q + 3 .. p - 1
    <3>1. c \in (q + 2) + 1 .. p - 1 BY <2>5, Zenon DEF ColonAt
    <3> QED BY ONLY <1>3, <2>1, <3>1
  <2>7. isgraph(s[q + 2])
    <3>1. q + 2 \in q + 2 .. c - 1 BY ONLY <1>3, <2>1, <2>6
    <3> QED BY <2>5, <3>1, Zenon DEF ColonAt
  <2>8. s[q + 2] # CR BY <2>7, PlainChars, Zenon
  <2>9. n < Len(LinesOf(s))
    <3>1. FieldIs(s, e, n + 1, q + 2, p) BY <2>3, FieldAt, Zenon
    <3>2. n + 1 \in 2 .. Len(LinesOf(s)) BY <3>1, Zenon DEF FieldIs
    <3> QED BY ONLY <1>3, <3>2
  <2> QED BY <2>3, <2>8, <2>9, Zenon DEF GoesOn
<1> QED BY <1>4, <1>5

(***************************************************************************)
(* The loop over the lines: after n turns the first n fields are stored.   *)
(***************************************************************************)
(* What the first lines say.                                               *)
Fields(s, m) == [k \in 1 .. m |-> Field(LinesOf(s)[k + 1])]

LEMMA FieldsGrow ==
  ASSUME NEW s, NEW n \in Nat
  PROVE  Append(Fields(s, n), Field(LinesOf(s)[n + 2])) = Fields(s, n + 1)
<1> DEFINE S == {Field(LinesOf(s)[k + 1]) : k \in 1 .. n + 1}
<1>1. PICK f : f = Fields(s, n) OBVIOUS
<1>2. PICK g : g = Fields(s, n + 1) OBVIOUS
<1>3. PICK t : t = Field(LinesOf(s)[n + 2]) OBVIOUS
<1>4. f = [k \in 1 .. n |-> Field(LinesOf(s)[k + 1])] /\ g = [k \in 1 .. n + 1 |-> Field(LinesOf(s)[k + 1])]
  BY <1>1, <1>2 DEF Fields
<1>5. f \in Seq(S) /\ Len(f) = n
  <2>1. \A k \in 1 .. n : Field(LinesOf(s)[k + 1]) \in S OBVIOUS
  <2> HIDE DEF S
  <2>2. f \in [1 .. n -> S] BY <1>4, <2>1
  <2> QED BY <2>2
<1>6. g \in Seq(S) /\ Len(g) = n + 1
  <2>1. \A k \in 1 .. n + 1 : Field(LinesOf(s)[k + 1]) \in S OBVIOUS
  <2> HIDE DEF S
  <2>2. g \in [1 .. n + 1 -> S] BY <1>4, <2>1
  <2> QED BY <2>2
<1>7. t = g[n + 1] /\ t \in S
  <2>1. n + 1 \in 1 .. n + 1 /\ (n + 1) + 1 = n + 2 OBVIOUS
  <2>2. g[n + 1] = Field(LinesOf(s)[(n + 1) + 1]) BY <1>4, <2>1
  <2> QED BY <1>3, <2>1, <2>2
<1>8. \A k \in 1 .. n : f[k] = g[k] BY <1>4
<1> HIDE DEF S
<1>9. PICK h : h = Append(f, t) OBVIOUS
<1>10. h \in Seq(S) /\ Len(h) = n + 1 /\ \A k \in 1 .. n + 1 : h[k] = IF k = n + 1 THEN t ELSE f[k]
  BY <1>5, <1>7, <1>9
<1>11. \A k \in 1 .. Len(h) : h[k] = g[k]
  <2>1. ASSUME NEW k \in 1 .. n + 1 PROVE h[k] = g[k]
    <3>1. CASE k = n + 1 BY <1>7, <1>10, <3>1
    <3>2. CASE k # n + 1
      <4>1. k \in 1 .. n BY <3>2
      <4> QED BY <1>8, <1>10, <3>2, <4>1
    <3> QED BY <3>1, <3>2
  <2> QED BY <1>10, <2>1
<1>12. h = g BY <1>6, <1>10, <1>11, SameSequence
<1> QED BY <1>1, <1>2, <1>3, <1>9, <1>12

ReadTo(go, ok, b, a, h) == [goes_on |-> go, ok |-> ok, buf |-> b, at |-> a, headers |-> h]

ReadsOn(go, ok, b, a, h, go2, b2, a2, t) ==
  NextAt(ReadTo(go, ok, b, a, h), go2, b2, a2, t) = ReadTo(go2, ok, b2, a2, Append(h, t))

LEMMA NextAtIs ==
  ASSUME NEW go, NEW ok, NEW b, NEW a, NEW h, NEW go2, NEW b2, NEW a2, NEW t
  PROVE  ReadsOn(go, ok, b, a, h, go2, b2, a2, t)
<1>1. ASSUME NEW x, NEW u
      PROVE  [x EXCEPT !.goes_on = go2, !.buf = b2, !.at = a2, !.headers = u]
               = [[[[x EXCEPT !.goes_on = go2] EXCEPT !.buf = b2] EXCEPT !.at = a2] EXCEPT !.headers = u]
  OBVIOUS
<1>2. PICK x : x = ReadTo(go, ok, b, a, h) OBVIOUS
<1>3. x.headers = h BY <1>2 DEF ReadTo
<1>4. PICK u : u = Append(h, t) OBVIOUS
<1>5. NextAt(x, go2, b2, a2, t) = [x EXCEPT !.goes_on = go2, !.buf = b2, !.at = a2, !.headers = u]
  BY <1>3, <1>4, Zenon DEF NextAt
<1>6. [x EXCEPT !.goes_on = go2] = [goes_on |-> go2, ok |-> ok, buf |-> b, at |-> a, headers |-> h]
  BY <1>2 DEF ReadTo
<1>7. [[goes_on |-> go2, ok |-> ok, buf |-> b, at |-> a, headers |-> h] EXCEPT !.buf = b2]
        = [goes_on |-> go2, ok |-> ok, buf |-> b2, at |-> a, headers |-> h]
  OBVIOUS
<1>8. [[goes_on |-> go2, ok |-> ok, buf |-> b2, at |-> a, headers |-> h] EXCEPT !.at = a2]
        = [goes_on |-> go2, ok |-> ok, buf |-> b2, at |-> a2, headers |-> h]
  OBVIOUS
<1>9. [[goes_on |-> go2, ok |-> ok, buf |-> b2, at |-> a2, headers |-> h] EXCEPT !.headers = u]
        = [goes_on |-> go2, ok |-> ok, buf |-> b2, at |-> a2, headers |-> u]
  OBVIOUS
<1>10. [[[[x EXCEPT !.goes_on = go2] EXCEPT !.buf = b2] EXCEPT !.at = a2] EXCEPT !.headers = u]
         = [goes_on |-> go2, ok |-> ok, buf |-> b2, at |-> a2, headers |-> u]
  BY <1>6, <1>7, <1>8, <1>9, Zenon
<1> QED BY <1>1, <1>2, <1>4, <1>5, <1>10, Zenon DEF ReadTo, ReadsOn

(* After n turns, when there is a line that they have not read yet, and    *)
(* after the last one.                                                     *)
More(s, e, n, x) ==
  \E b, a : /\ x = ReadTo(TRUE, TRUE, b, a, Fields(s, n)) /\ Left(s, e, b, a)
            /\ n < Len(LinesOf(s)) - 1 /\ \E q : FieldLine(s, n + 2, a, q)
NoMore(s, n, x) ==
  \E b, a : x = ReadTo(FALSE, TRUE, b, a, Fields(s, Len(LinesOf(s)) - 1)) /\ Len(LinesOf(s)) - 1 <= n

LEMMA CleanLine ==
  ASSUME NEW s \in Seq(Nat), NEW e, NEW i, NEW q, NEW c, ColonAt(s, e, i, q, c), NEW b, Left(s, e, b, i)
  PROVE  Left(s, e, Zeroed(Zeroed(b, c, c), q, q + 1), q + 2)
<1>1. /\ e \in Nat /\ q \in Nat /\ i \in Nat /\ c \in Nat
      /\ 1 <= i /\ i <= q /\ q <= e /\ i + 1 <= c /\ c + 1 <= q
  <2>1. e \in Nat /\ e + 3 <= Len(s) /\ q \in 1 .. e /\ i \in 1 .. q /\ c \in i + 1 .. q - 1
    BY Zenon DEF ColonAt
  <2> QED BY ONLY <2>1
<1>2. PICK d : d = Zeroed(b, c, c) OBVIOUS
<1>3. Left(s, e, d, q)
  <2>1. i <= q /\ c < q /\ c < e + 3 BY ONLY <1>1
  <2> QED BY <1>1, <1>2, <2>1, LeftAfter
<1>4. PICK k : k = q + 1 OBVIOUS
<1>5. PICK m : m = q + 2 OBVIOUS
<1>6. Left(s, e, Zeroed(d, q, k), m)
  <2>1. k \in Nat /\ m \in Nat /\ q <= m /\ k < m /\ k < e + 3 /\ 1 <= q BY ONLY <1>1, <1>4, <1>5
  <2> QED BY ONLY <1>1, <1>3, <2>1, LeftAfter, s \in Seq(Nat)
<1> QED BY <1>2, <1>4, <1>5, <1>6

LEMMA OneTurn ==
  ASSUME NEW s \in Seq(Nat), IsRfc(s), NEW e, e = Min(Ends(s)), NEW n \in Nat, NEW x, More(s, e, n, x)
  PROVE  More(s, e, n + 1, ParseHeader(x)) \/ NoMore(s, n + 1, ParseHeader(x))
<1>1. PICK b, a : /\ x = ReadTo(TRUE, TRUE, b, a, Fields(s, n)) /\ Left(s, e, b, a)
            /\ n < Len(LinesOf(s)) - 1 /\ \E q : FieldLine(s, n + 2, a, q)
  BY Zenon DEF More
<1>2. PICK q : FieldLine(s, n + 2, a, q) BY <1>1
<1>3. x.buf = b /\ x.at = a BY <1>1 DEF ReadTo
<1>4. HasColon(s, e, n + 2, a, q) BY <1>2, LineColon, Zenon
<1>5. PICK c : ColonAt(s, e, a, q, c) /\ Find(SubSeq(s, a, q - 1), {Colon}) = c - a + 1
                                      /\ LinesOf(s)[n + 2] = SubSeq(s, a, q - 1)
  BY <1>4, Zenon DEF HasColon
<1>6. PICK d : d = Zeroed(Zeroed(b, c, c), q, q + 1) OBVIOUS
<1>7. PICK v : /\ ValueAt(s, q, c, v)
               /\ ParseHeader(x) = NextAt(x, d[q + 2] # CR, d, q + 2, [name |-> SubSeq(s, a, c - 1), value |-> SubSeq(s, v, q - 1)])
  <2>1. b = x.buf /\ a = x.at BY <1>3
  <2>2. OneParsed(s, q, c, x, b, a) BY <1>1, <1>5, <2>1, FieldParsed, Zenon
  <2> QED BY <1>6, <2>2, Zenon DEF OneParsed
<1>8. Field(LinesOf(s)[n + 2]) = [name |-> SubSeq(s, a, c - 1), value |-> SubSeq(s, v, q - 1)]
  <2>1. FieldHas(s, a, q, c, v) BY <1>5, <1>7, FieldOf, Zenon
  <2> QED BY <1>5, <2>1, Zenon DEF FieldHas
<1>9. PICK go : go = (d[q + 2] # CR) OBVIOUS
<1>10. ParseHeader(x) = ReadTo(go, TRUE, d, q + 2, Fields(s, n + 1))
  <2>1. PICK t : t = Field(LinesOf(s)[n + 2]) OBVIOUS
  <2>2. ParseHeader(x) = NextAt(ReadTo(TRUE, TRUE, b, a, Fields(s, n)), go, d, q + 2, t)
    BY <1>1, <1>7, <1>8, <1>9, <2>1, Zenon
  <2>3. NextAt(ReadTo(TRUE, TRUE, b, a, Fields(s, n)), go, d, q + 2, t) = ReadTo(go, TRUE, d, q + 2, Append(Fields(s, n), t))
    <3>1. ReadsOn(TRUE, TRUE, b, a, Fields(s, n), go, d, q + 2, t) BY NextAtIs, Zenon
    <3> QED BY <3>1, Zenon DEF ReadsOn
  <2>4. Append(Fields(s, n), t) = Fields(s, n + 1) BY <2>1, FieldsGrow
  <2> QED BY <2>2, <2>3, <2>4, Zenon
<1>11. Left(s, e, d, q + 2) BY <1>1, <1>5, <1>6, CleanLine, Zenon
<1>12. d[q + 2] = s[q + 2]
  <2>1. e \in Nat /\ q \in 1 .. e BY <1>5, Zenon DEF ColonAt
  <2>2. q + 2 \in q + 2 .. e + 2 BY ONLY <2>1
  <2> QED BY <1>11, <2>2, Zenon DEF Left
<1>13. GoesOn(s, e, n + 2, q) BY <1>2, AfterLine, Zenon
<1>14. Len(LinesOf(s)) \in Nat
  <2>1. FieldIs(s, e, n + 2, a, q) BY <1>2, FieldAt, Zenon
  <2>3. Breaks(s) \in SUBSET (1 .. e) /\ e \in Nat /\ q \in Breaks(s)
    <3>1. Ends(s) # {} BY DEF IsRfc
    <3>2. LineAt(s, n + 2, a, q) BY <1>2 DEF FieldLine
    <3>3. e \in Nat BY <2>1, Zenon DEF FieldIs
    <3> QED BY <3>1, <3>2, <3>3, BreaksAre, Zenon DEF LineAt
  <2>4. Cardinality(Breaks(s)) \in Nat BY <2>3, RankIsNat
  <2>5. Len(LinesOf(s)) = Cardinality(Breaks(s)) BY <2>4 DEF LinesOf
  <2> QED BY <2>4, <2>5
<1>15. CASE q = e /\ n + 2 = Len(LinesOf(s)) /\ s[q + 2] = CR
  <2>1. go = FALSE BY <1>9, <1>12, <1>15
  <2>2. n + 1 = Len(LinesOf(s)) - 1 /\ Len(LinesOf(s)) - 1 <= n + 1 BY ONLY <1>14, <1>15, n \in Nat
  <2> QED BY <1>10, <2>1, <2>2, Zenon DEF NoMore
<1>16. CASE n + 2 < Len(LinesOf(s)) /\ s[q + 2] # CR /\ \E p : FieldLine(s, (n + 2) + 1, q + 2, p)
  <2>1. go = TRUE BY <1>9, <1>12, <1>16
  <2>2. n + 1 < Len(LinesOf(s)) - 1 /\ (n + 2) + 1 = (n + 1) + 2 BY ONLY <1>14, <1>16, n \in Nat
  <2>3. \E p : FieldLine(s, (n + 1) + 2, q + 2, p) BY <1>16, <2>2, Zenon
  <2> QED BY <1>10, <1>11, <2>1, <2>2, <2>3, Zenon DEF More
<1> QED BY <1>13, <1>15, <1>16, Zenon DEF GoesOn

LEMMA LeastOfTwo ==
  ASSUME NEW m \in Nat, NEW n \in Nat
  PROVE  Min({m, n}) = IF m <= n THEN m ELSE n
<1>1. {m, n} \in SUBSET Nat /\ {m, n} # {} OBVIOUS
<1>2. PICK k : k = Min({m, n}) OBVIOUS
<1>3. k \in {m, n} /\ \A x \in {m, n} : k <= x BY <1>1, <1>2, SmallestOf
<1>4. (k = m \/ k = n) /\ k <= m /\ k <= n BY <1>3
<1>5. k = IF m <= n THEN m ELSE n BY ONLY <1>4, m \in Nat, n \in Nat
<1> QED BY <1>2, <1>5

NumberOfLines(s) == Len(LinesOf(s))

LEMMA LinesCount ==
  ASSUME NEW s \in Seq(Nat), IsRfc(s)
  PROVE  NumberOfLines(s) \in Nat \ {0} /\ NumberOfLines(s) = Cardinality(Breaks(s))
<1>1. PICK e : e = Min(Ends(s)) OBVIOUS
<1>2. Ends(s) # {} BY DEF IsRfc
<1>3. e \in 1 .. Len(s) - 3 BY <1>1, <1>2, HeaderEnds, Zenon
<1>4. e \in Nat BY <1>3
<1>5. Breaks(s) \in SUBSET (1 .. e) /\ e \in Breaks(s) BY <1>1, <1>2, BreaksAre, Zenon
<1>6. Rank(Breaks(s), e) \in 1 .. Cardinality(Breaks(s)) /\ Cardinality(Breaks(s)) \in Nat
  BY <1>4, <1>5, RankIsNat
<1>7. Len(LinesOf(s)) = Cardinality(Breaks(s)) BY <1>6 DEF LinesOf
<1> QED BY <1>6, <1>7 DEF NumberOfLines

LEMMA MoreOrNoMore ==
  ASSUME NEW s \in Seq(Nat), IsRfc(s), NEW e, e = Min(Ends(s)), NEW f, NEW b, NEW i, Turns(f, b, i, MaxHeaders),
         More(s, e, 0, f[0])
  PROVE  More(s, e, MaxHeaders, f[MaxHeaders]) \/ NoMore(s, MaxHeaders, f[MaxHeaders])
<1> USE HeadersAssumption
<1> DEFINE S == {n \in 0 .. MaxHeaders : More(s, e, n, f[n]) \/ NoMore(s, n, f[n])}
<1>1. 0 \in S
  <2>1. 0 \in 0 .. MaxHeaders OBVIOUS
  <2> QED BY <2>1
<1>2. ASSUME NEW k \in 1 .. MaxHeaders, k - 1 \in S PROVE k \in S
  <2>0. PICK n \in Nat : n = k - 1 OBVIOUS
  <2>1. n + 1 = k /\ n + 1 \in 0 .. MaxHeaders BY <2>0
  <2>2. f[k] = Turn(f[n]) BY <2>0 DEF Turns
  <2>3. More(s, e, n, f[n]) \/ NoMore(s, n, f[n]) BY <1>2, <2>0
  <2>4. CASE More(s, e, n, f[n])
    <3>1. f[n].goes_on = TRUE
      <4>1. PICK c, a : f[n] = ReadTo(TRUE, TRUE, c, a, Fields(s, n)) BY <2>4, Zenon DEF More
      <4> QED BY <4>1 DEF ReadTo
    <3>2. f[k] = ParseHeader(f[n]) BY <2>2, <3>1, Zenon DEF Turn
    <3>3. More(s, e, n + 1, ParseHeader(f[n])) \/ NoMore(s, n + 1, ParseHeader(f[n])) BY <2>4, OneTurn, Zenon
    <3>4. More(s, e, k, f[k]) \/ NoMore(s, k, f[k]) BY <2>1, <3>2, <3>3, Zenon
    <3> QED BY <2>1, <3>4
  <2>5. CASE NoMore(s, n, f[n])
    <3>1. PICK c, a : f[n] = ReadTo(FALSE, TRUE, c, a, Fields(s, Len(LinesOf(s)) - 1)) /\ Len(LinesOf(s)) - 1 <= n
      BY <2>5, Zenon DEF NoMore
    <3>2. f[n].goes_on = FALSE BY <3>1 DEF ReadTo
    <3>3. f[k] = f[n] BY <2>2, <3>2, Zenon DEF Turn
    <3>4. Len(LinesOf(s)) - 1 <= k
      <4>1. Len(LinesOf(s)) \in Nat BY LinesCount DEF NumberOfLines
      <4> QED BY ONLY <2>0, <3>1, <4>1, k \in 1 .. MaxHeaders
    <3>5. NoMore(s, k, f[k]) BY <3>1, <3>3, <3>4, Zenon DEF NoMore
    <3>6. k \in 0 .. MaxHeaders OBVIOUS
    <3> QED BY <3>5, <3>6
  <2> QED BY <2>3, <2>4, <2>5
<1>3. \A n \in 0 .. MaxHeaders : n \in S
  <2> HIDE DEF S
  <2>1. MaxHeaders \in Nat OBVIOUS
  <2> QED BY ONLY <1>1, <1>2, <2>1, UpTo
<1>4. MaxHeaders \in S
  <2>1. MaxHeaders \in 0 .. MaxHeaders OBVIOUS
  <2> HIDE DEF S
  <2> QED BY <1>3, <2>1
<1> QED BY <1>4

HeadersSent(s, r) == r.ok = TRUE /\ r.headers = Fields(s, Min({Len(LinesOf(s)) - 1, MaxHeaders}))

LEMMA HeadersParsed ==
  ASSUME NEW s \in Seq(Nat), IsRfc(s), NEW e, e = Min(Ends(s)), NEW b, NEW a, Left(s, e, b, a),
         NEW q, FieldLine(s, 2, a, q)
  PROVE  HeadersSent(s, ParseHeaders(b, a))
<1> USE HeadersAssumption
<1>1. PICK f : Turns(f, b, a, MaxHeaders) /\ ParseHeaders(b, a) = f[MaxHeaders] BY HeadersLoop, Zenon
<1>2. NumberOfLines(s) \in Nat /\ 2 <= NumberOfLines(s)
  <2>1. FieldIs(s, e, 2, a, q) BY FieldAt, Zenon
  <2>2. 2 \in 2 .. NumberOfLines(s) BY <2>1, Zenon DEF FieldIs, NumberOfLines
  <2>3. NumberOfLines(s) \in Nat BY LinesCount
  <2> QED BY ONLY <2>2, <2>3
<1>3. More(s, e, 0, f[0])
  <2>1. f[0] = ReadTo(TRUE, TRUE, b, a, << >>) BY <1>1 DEF Turns, HeadersFrom, ReadTo
  <2>2. Fields(s, 0) = << >>
    <3>1. Fields(s, 0) = [k \in 1 .. 0 |-> Field(LinesOf(s)[k + 1])] BY DEF Fields
    <3> QED BY <3>1
  <2>3. 0 < Len(LinesOf(s)) - 1 BY <1>2 DEF NumberOfLines
  <2>4. 0 + 2 = 2 OBVIOUS
  <2> QED BY <2>1, <2>2, <2>3, <2>4, Zenon DEF More
<1>4. PICK r : r = f[MaxHeaders] OBVIOUS
<1>5. More(s, e, MaxHeaders, r) \/ NoMore(s, MaxHeaders, r) BY <1>1, <1>3, <1>4, MoreOrNoMore, Zenon
<1>6. PICK m : m = Len(LinesOf(s)) - 1 OBVIOUS
<1>7. m \in Nat /\ MaxHeaders \in Nat BY <1>2, <1>6 DEF NumberOfLines
<1>8. Min({m, MaxHeaders}) = IF m <= MaxHeaders THEN m ELSE MaxHeaders BY <1>7, LeastOfTwo
<1>9. CASE More(s, e, MaxHeaders, r)
  <2>1. PICK c, d : r = ReadTo(TRUE, TRUE, c, d, Fields(s, MaxHeaders)) /\ MaxHeaders < m
    BY <1>6, <1>9, Zenon DEF More
  <2>2. Min({m, MaxHeaders}) = MaxHeaders BY <1>7, <1>8, <2>1
  <2>3. r.ok = TRUE /\ r.headers = Fields(s, MaxHeaders) BY <2>1 DEF ReadTo
  <2> QED BY <1>1, <1>4, <1>6, <2>2, <2>3, Zenon DEF HeadersSent
<1>10. CASE NoMore(s, MaxHeaders, r)
  <2>1. PICK c, d : r = ReadTo(FALSE, TRUE, c, d, Fields(s, m)) /\ m <= MaxHeaders
    BY <1>6, <1>10, Zenon DEF NoMore
  <2>2. Min({m, MaxHeaders}) = m BY <1>7, <1>8, <2>1
  <2>3. r.ok = TRUE /\ r.headers = Fields(s, m) BY <2>1 DEF ReadTo
  <2> QED BY <1>1, <1>4, <1>6, <2>2, <2>3, Zenon DEF HeadersSent
<1> QED BY <1>5, <1>9, <1>10

(* No field: the loop ends where it begins.                                *)
LEMMA ParseNoHeader ==
  ASSUME NEW x, NEW b, b = x.buf, NEW i, i = x.at, PastName(b, i) = i
  PROVE  ParseHeader(x) = [x EXCEPT !.goes_on = FALSE]
BY Zenon DEF ParseHeader

LEMMA NoHeadersParsed ==
  ASSUME NEW s \in Seq(Nat), IsRfc(s), 6 = Min(Ends(s)), NEW b, Left(s, 6, b, 9)
  PROVE  HeadersSent(s, ParseHeaders(b, 9))
<1> USE HeadersAssumption
<1>1. PICK f : Turns(f, b, 9, MaxHeaders) /\ ParseHeaders(b, 9) = f[MaxHeaders] BY HeadersLoop, Zenon
<1>2. PICK e : e = 6 OBVIOUS
<1>3. e = Min(Ends(s)) BY <1>2
<1>4. b \in Seq(Nat) /\ 9 <= Len(b) /\ b[9] = 0 BY DEF Left
<1>5. PastName(b, 9) = 9
  <2>1. 9 \in 9 .. Len(b) /\ 9 \in Nat BY <1>4
  <2>2. b[9] = Colon \/ ~isgraph(b[9]) BY <1>4, PlainChars
  <2>3. PICK m : m = PastName(b, 9) OBVIOUS
  <2>4. m \in 9 .. 9 BY <1>4, <2>1, <2>2, <2>3, NameEnds
  <2> QED BY <2>3, <2>4
<1>6. f[0] = ReadTo(TRUE, TRUE, b, 9, << >>) BY <1>1 DEF Turns, HeadersFrom, ReadTo
<1>7. PICK y : y = ReadTo(FALSE, TRUE, b, 9, << >>) OBVIOUS
<1>8. ParseHeader(f[0]) = y
  <2>1. b = f[0].buf /\ 9 = f[0].at BY <1>6 DEF ReadTo
  <2>2. ParseHeader(f[0]) = [f[0] EXCEPT !.goes_on = FALSE] BY <1>5, <2>1, ParseNoHeader, Zenon
  <2>3. [ReadTo(TRUE, TRUE, b, 9, << >>) EXCEPT !.goes_on = FALSE] = ReadTo(FALSE, TRUE, b, 9, << >>)
    <3>1. PICK yes, no, none : yes = TRUE /\ no = FALSE /\ none = << >> OBVIOUS
    <3>2. [ReadTo(yes, yes, b, 9, none) EXCEPT !.goes_on = no] = ReadTo(no, yes, b, 9, none)
      <4>1. [[goes_on |-> yes, ok |-> yes, buf |-> b, at |-> 9, headers |-> none] EXCEPT !.goes_on = no]
              = [goes_on |-> no, ok |-> yes, buf |-> b, at |-> 9, headers |-> none]
        BY ONLY TRUE
      <4> QED BY <4>1, Zenon DEF ReadTo
    <3> QED BY <3>1, <3>2, Zenon
  <2> QED BY <1>6, <1>7, <2>2, <2>3, Zenon
<1>9. y.goes_on = FALSE /\ y.ok = TRUE /\ y.headers = << >> BY <1>7 DEF ReadTo
<1> DEFINE S == {n \in 0 .. MaxHeaders : n # 0 => f[n] = y}
<1>10. 0 \in S OBVIOUS
<1>11. ASSUME NEW k \in 1 .. MaxHeaders, k - 1 \in S PROVE k \in S
  <2>1. f[k] = Turn(f[k - 1]) BY <1>1 DEF Turns
  <2>2. f[k] = y
    <3>1. CASE k = 1
      <4>1. k - 1 = 0 /\ f[0].goes_on = TRUE BY <1>6, <3>1 DEF ReadTo
      <4>2. Turn(f[0]) = ParseHeader(f[0]) BY <4>1, Zenon DEF Turn
      <4> QED BY <1>8, <2>1, <4>1, <4>2
    <3>2. CASE k # 1
      <4>1. k - 1 # 0 BY <3>2
      <4>2. f[k - 1] = y BY <1>11, <4>1
      <4> QED BY <1>9, <2>1, <4>2, Zenon DEF Turn
    <3> QED BY <3>1, <3>2
  <2>3. k \in 0 .. MaxHeaders OBVIOUS
  <2> QED BY <2>2, <2>3
<1>12. \A n \in 0 .. MaxHeaders : n \in S
  <2> HIDE DEF S
  <2>1. MaxHeaders \in Nat OBVIOUS
  <2> QED BY ONLY <1>10, <1>11, <2>1, UpTo
<1>13. f[MaxHeaders] = y
  <2>1. MaxHeaders \in 0 .. MaxHeaders /\ MaxHeaders # 0 OBVIOUS
  <2>2. MaxHeaders \in S
    <3> HIDE DEF S
    <3> QED BY <1>12, <2>1
  <2> QED BY <2>1, <2>2
<1>14. Len(LinesOf(s)) - 1 = 0
  <2>1. LineAt(s, 1, 1, 6) BY FirstLine
  <2>2. 1 = Rank(Breaks(s), 6) BY <2>1, Zenon DEF LineAt
  <2>3. Breaks(s) \in SUBSET (1 .. e)
    <3>1. Ends(s) # {} BY DEF IsRfc
    <3> QED BY <1>3, <3>1, BreaksAre, Zenon
  <2>4. PICK B : B = Breaks(s) OBVIOUS
  <2>5. \A k \in B : k <= 6 BY <1>2, <2>3, <2>4
  <2>6. Rank(B, 6) = Cardinality(B) BY <2>5, RankLast
  <2>7. NumberOfLines(s) = 1 BY <2>2, <2>4, <2>6, LinesCount
  <2> QED BY <2>7 DEF NumberOfLines
<1>15. Fields(s, Min({Len(LinesOf(s)) - 1, MaxHeaders})) = << >>
  <2>1. 0 \in Nat /\ MaxHeaders \in Nat /\ 0 <= MaxHeaders OBVIOUS
  <2>2. Min({0, MaxHeaders}) = 0 BY <2>1, LeastOfTwo
  <2>3. Fields(s, 0) = << >>
    <3>1. Fields(s, 0) = [k \in 1 .. 0 |-> Field(LinesOf(s)[k + 1])] BY DEF Fields
    <3> QED BY <3>1
  <2> QED BY <1>14, <2>2, <2>3
<1> QED BY <1>1, <1>9, <1>13, <1>15, Zenon DEF HeadersSent

(***************************************************************************)
(* The whole of parse_http_request on a request that is well formed.       *)
(***************************************************************************)
(* The parts of parse_http_request, one after the other.                   *)
StartOf(b) == PastSpaces(Append(b, 256), 1)
RestOf(b) == SubSeq(b, StartOf(b), Len(b))
RestLen(b) == HeaderLen(RestOf(b), Len(RestOf(b)))
MethodOf(b) == NextWord([buf |-> Zeroed(RestOf(b), RestLen(b), RestLen(b)), at |-> 1], FALSE)
TargetOf(b) == NextWord(MethodOf(b), FALSE)
VersionOf(b) == NextWord(TargetOf(b), TRUE)
HeadersOf(b) == ParseHeaders(VersionOf(b).buf, VersionOf(b).at)
Put(b, r) == [r EXCEPT !.buf = SubSeq(b, 1, StartOf(b) - 1) \o @]

LEMMA ParseRequestIs ==
  ASSUME NEW b
  PROVE  ParseRequest(b) =
           IF StartOf(b) > Len(b) \/ iscntrl(b[StartOf(b)]) \/ RestLen(b) <= 0 THEN Failed(b)
           ELSE IF ~MethodOf(b).ok THEN Put(b, MethodOf(b))
           ELSE IF MethodOf(b).word \notin {<<GET>>, <<POST>>} THEN Put(b, Failed(MethodOf(b).buf))
           ELSE IF ~TargetOf(b).ok THEN Put(b, TargetOf(b))
           ELSE IF ~VersionOf(b).ok THEN Put(b, VersionOf(b))
           ELSE IF VersionOf(b).word[1] \notin {HTTP10, HTTP11, HTTP3} THEN Put(b, Failed(VersionOf(b).buf))
           ELSE IF ~HeadersOf(b).ok THEN Put(b, Failed(HeadersOf(b).buf))
           ELSE Put(b, [ok |-> TRUE, buf |-> HeadersOf(b).buf, method |-> MethodOf(b).word, target |-> TargetOf(b).word,
                        version |-> VersionOf(b).word, headers |-> HeadersOf(b).headers])
BY Zenon DEF ParseRequest, StartOf, RestOf, RestLen, MethodOf, TargetOf, VersionOf, HeadersOf, Put

ValuesIn(headers, name) ==
  LET named == SelectSeq(headers, LAMBDA h : h.name = <<name>>)
  IN [i \in 1 .. Len(named) |-> named[i].value]

LEMMA ValuesAre ==
  ASSUME NEW r, NEW name PROVE Values(r, name) = ValuesIn(r.headers, name)
BY DEF Values, ValuesIn

LEMMA SameProcess ==
  ASSUME NEW q, NEW r, q.target = r.target, q.version = r.version, q.headers = r.headers
  PROVE  Process(q) = Process(r)
<1>1. \A name : Values(q, name) = Values(r, name) BY ValuesAre, Zenon
<1>2. HostOK(q) <=> HostOK(r) BY <1>1, Zenon DEF HostOK
<1>3. LengthOK(q) <=> LengthOK(r) BY <1>1, Zenon DEF LengthOK
<1> QED BY <1>2, <1>3, Zenon DEF Process

(* What is found: a word, a request.                                       *)
Word(b, w, a) == [ok |-> TRUE, buf |-> b, word |-> w, at |-> a]

LEMMA WordIs ==
  ASSUME NEW b, NEW w, NEW a
  PROVE  /\ Word(b, w, a).ok = TRUE /\ Word(b, w, a).buf = b /\ Word(b, w, a).word = w /\ Word(b, w, a).at = a
BY DEF Word

Says(r, m, t, v, h) == r.ok = TRUE /\ r.method = m /\ r.target = t /\ r.version = v /\ r.headers = h

LEMMA PutIs ==
  ASSUME NEW b, NEW c, NEW m, NEW t, NEW v, NEW h, NEW r,
         r = Put(b, [ok |-> TRUE, buf |-> c, method |-> m, target |-> t, version |-> v, headers |-> h])
  PROVE  Says(r, m, t, v, h)
<1>1. PICK d : d = SubSeq(b, 1, StartOf(b) - 1) \o c OBVIOUS
<1>2. PICK x : x = [ok |-> TRUE, buf |-> c, method |-> m, target |-> t, version |-> v, headers |-> h] OBVIOUS
<1>3. x.buf = c BY <1>2
<1>4. r = [x EXCEPT !.buf = d] BY <1>1, <1>2, <1>3, Zenon DEF Put
<1>5. r = [ok |-> TRUE, buf |-> d, method |-> m, target |-> t, version |-> v, headers |-> h] BY <1>2, <1>4
<1> QED BY <1>5 DEF Says

(* The first character begins the header.                                  *)
LEMMA StartsAtOnce ==
  ASSUME NEW b \in Seq(Nat), b # << >>, b[1] > 255
  PROVE  StartOf(b) = 1 /\ RestOf(b) = b /\ ~iscntrl(b[1])
<1>1. PICK a : a = Append(b, 256) OBVIOUS
<1>2. a \in Seq(Nat) /\ Len(a) = Len(b) + 1 /\ a[1] = b[1] /\ Len(b) \in Nat /\ 1 <= Len(b)
  <2>1. Len(b) \in Nat /\ 1 <= Len(b) /\ 256 \in Nat OBVIOUS
  <2> QED BY <1>1, <2>1
<1>3. 1 \in Nat /\ 1 \in 1 .. Len(a) BY <1>2
<1>4. ~isspace(a[1])
  <2>1. a[1] \in Nat /\ a[1] > 255 BY <1>2
  <2> QED BY <2>1 DEF isspace
<1>5. PICK m : m = PastSpaces(a, 1) OBVIOUS
<1>6. m \in 1 .. 1 BY <1>2, <1>3, <1>4, <1>5, SpacesEnd
<1>7. StartOf(b) = 1 BY <1>1, <1>5, <1>6 DEF StartOf
<1>8. RestOf(b) = b
  <2>1. PICK c : c = SubSeq(b, 1, Len(b)) OBVIOUS
  <2>2. 1 \in Nat /\ Len(b) \in Int /\ 1 <= 1 /\ Len(b) <= Len(b) /\ 1 <= Len(b) + 1 /\ Len(b) - 1 + 1 = Len(b)
    BY <1>2
  <2>3. c \in Seq(Nat) /\ Len(c) = Len(b) /\ \A k \in 1 .. Len(b) : c[k] = b[1 + k - 1] BY <2>1, <2>2, PartIs
  <2>4. \A k \in 1 .. Len(b) : 1 + k - 1 = k BY <1>2
  <2>5. \A k \in 1 .. Len(c) : c[k] = b[k] BY <2>3, <2>4
  <2>6. c = b BY <2>3, <2>5, SameSequence
  <2> QED BY <1>7, <2>1, <2>6, Zenon DEF RestOf
<1>9. ~iscntrl(b[1])
  <2>1. \A c \in Nat : c > 255 => ~iscntrl(c) BY ONLY TRUE DEF iscntrl
  <2>2. 1 \in 1 .. Len(b) BY <1>2
  <2>3. b[1] \in Nat BY <2>2
  <2> QED BY <2>1, <2>3
<1> QED BY <1>7, <1>8, <1>9

Agrees(b, s, n) == b \in Seq(Nat) /\ n <= Len(b) /\ \A k \in 1 .. n : b[k] = s[k]

LEMMA RfcHeader ==
  ASSUME NEW s \in Seq(Nat), IsRfc(s), NEW e, e = Min(Ends(s)), NEW b, Agrees(b, s, e + 3)
  PROVE  /\ StartOf(b) = 1 /\ RestOf(b) = b /\ RestLen(b) = e + 3 /\ ~iscntrl(b[1]) /\ 1 <= Len(b) /\ Len(b) \in Nat
         /\ Left(s, e, Zeroed(b, e + 3, e + 3), 1)
<1>1. e \in Nat /\ 6 <= e /\ e + 3 <= Len(s) /\ FirstWords(s) BY RequestLine
<1>2. b \in Seq(Nat) /\ e + 3 <= Len(b) /\ \A k \in 1 .. e + 3 : b[k] = s[k] BY DEF Agrees
<1>3. Len(b) \in Nat /\ 1 <= Len(b) BY ONLY <1>1, <1>2
<1>4. b[1] > 255
  <2>1. 1 \in 1 .. e + 3 BY ONLY <1>1
  <2>2. b[1] = s[1] /\ s[1] \in {GET, POST} BY <1>1, <1>2, <2>1 DEF FirstWords
  <2> QED BY <2>2 DEF GET, POST
<1>5. b # << >> BY <1>3
<1>6. StartOf(b) = 1 /\ RestOf(b) = b /\ ~iscntrl(b[1]) BY <1>2, <1>4, <1>5, StartsAtOnce
<1>7. RestLen(b) = e + 3
  <2>1. PICK n \in Nat : n = Len(b) BY <1>3
  <2>2. n <= Len(b) /\ \A k \in 1 .. e + 3 : k <= n => b[k] = s[k] BY <1>2, <1>3, <2>1
  <2>3. HeaderLen(b, n) = IF e + 3 <= n THEN e + 3 ELSE 0 BY <1>2, <2>2, HeaderFound
  <2> QED BY <1>2, <1>6, <2>1, <2>3 DEF RestLen
<1>8. PICK n \in Nat : n = e + 3 BY <1>1
<1>9. PICK z : z = Zeroed(b, n, n) OBVIOUS
<1>10. z \in Seq(Nat) /\ Len(z) = Len(b) /\ \A k \in 1 .. Len(b) : z[k] = IF k \in n .. n THEN 0 ELSE b[k]
  BY <1>2, <1>9, ZeroedIs
<1>11. z[n] = 0
  <2>1. n \in 1 .. Len(b) /\ n \in n .. n BY ONLY <1>1, <1>2, <1>3, <1>8
  <2> QED BY <1>10, <2>1
<1>12. \A k \in 1 .. e + 2 : z[k] = s[k]
  <2>1. \A k \in 1 .. e + 2 : k \in 1 .. Len(b) /\ k \notin n .. n /\ k \in 1 .. e + 3 BY ONLY <1>1, <1>2, <1>3, <1>8
  <2> QED BY <1>2, <1>10, <2>1
<1>13. Left(s, e, z, 1)
  <2>1. 1 \in Nat /\ e + 3 <= Len(z) /\ z[e + 3] = 0 BY <1>2, <1>8, <1>10, <1>11
  <2> QED BY <1>10, <1>12, <2>1 DEF Left
<1> QED BY <1>3, <1>6, <1>7, <1>8, <1>9, <1>13, Zenon

SaysWhatIsSent(s, r) ==
  r.ok = TRUE /\ r.target = <<URI>> /\ r.version = <<s[5]>>
  /\ r.headers = Fields(s, Min({Len(LinesOf(s)) - 1, MaxHeaders}))

LEMMA WellFormedParsed ==
  ASSUME NEW s \in Seq(Nat), IsRfc(s), NEW e, e = Min(Ends(s)), NEW b, Agrees(b, s, e + 3)
  PROVE  SaysWhatIsSent(s, ParseRequest(b))
<1>1. e \in Nat /\ 6 <= e /\ e + 3 <= Len(s) /\ FirstWords(s)
      /\ (e = 6 => s[8] = CR) /\ (e # 6 => isgraph(s[8]) /\ \E p \in 8 .. e : LineAt(s, 2, 8, p))
  BY RequestLine
<1>2. /\ StartOf(b) = 1 /\ RestOf(b) = b /\ RestLen(b) = e + 3 /\ ~iscntrl(b[1]) /\ 1 <= Len(b) /\ Len(b) \in Nat
      /\ Left(s, e, Zeroed(b, e + 3, e + 3), 1)
  BY RfcHeader, Zenon
<1>3. PICK cut : cut = Zeroed(b, e + 3, e + 3) OBVIOUS
<1>4. Left(s, e, cut, 1) BY <1>2, <1>3
<1>5. PICK c : c = Zeroed(cut, 2, 2) OBVIOUS
<1>6. PICK d : d = Zeroed(c, 4, 4) OBVIOUS
<1>7. /\ \A r : r.buf = cut /\ r.at = 1 => NextWord(r, FALSE) = Word(c, <<s[1]>>, 3)
      /\ \A r : r.buf = c /\ r.at = 3 => NextWord(r, FALSE) = Word(d, <<URI>>, 5)
      /\ Left(s, e, d, 5)
  BY <1>1, <1>4, <1>5, <1>6, MethodAndTarget, Zenon DEF Word
<1>8. MethodOf(b) = Word(c, <<s[1]>>, 3)
  <2>1. PICK r : r = [buf |-> cut, at |-> 1] OBVIOUS
  <2>2. r.buf = cut /\ r.at = 1 BY <2>1
  <2>3. NextWord(r, FALSE) = Word(c, <<s[1]>>, 3) BY <1>7, <2>2, Zenon
  <2> QED BY <1>2, <1>3, <2>1, <2>3, Zenon DEF MethodOf
<1>9. TargetOf(b) = Word(d, <<URI>>, 5)
  <2>1. MethodOf(b).buf = c /\ MethodOf(b).at = 3 BY <1>8 DEF Word
  <2> QED BY <1>7, <2>1, Zenon DEF TargetOf
<1>10. PICK v \in {8, 9} : (v = 9 => e = 6 /\ s[8] = CR) /\ (v = 8 => e # 6 /\ isgraph(s[8]))
  <2>1. CASE e = 6 BY <1>1, <2>1
  <2>2. CASE e # 6 BY <1>1, <2>2
  <2> QED BY <2>1, <2>2
<1>11. PICK f : f = Zeroed(d, 6, v - 1) OBVIOUS
<1>12. (\A r : r.buf = d /\ r.at = 5 => NextWord(r, TRUE) = Word(f, <<s[5]>>, v)) /\ Left(s, e, f, v)
  BY <1>1, <1>7, <1>10, <1>11, VersionWord, Zenon DEF Word
<1>13. VersionOf(b) = Word(f, <<s[5]>>, v)
  <2>1. TargetOf(b).buf = d /\ TargetOf(b).at = 5 BY <1>9 DEF Word
  <2> QED BY <1>12, <2>1, Zenon DEF VersionOf
<1>14. HeadersSent(s, ParseHeaders(f, v))
  <2>1. CASE v = 8
    <3>1. PICK p : LineAt(s, 2, 8, p) BY <1>1, <1>10, <2>1
    <3>2. FieldLine(s, 2, 8, p) BY <3>1 DEF FieldLine
    <3>3. Left(s, e, f, 8) BY <1>12, <2>1
    <3>4. HeadersSent(s, ParseHeaders(f, 8)) BY <3>2, <3>3, HeadersParsed, Zenon
    <3> QED BY <2>1, <3>4
  <2>2. CASE v = 9
    <3>1. e = 6 BY <1>10, <2>2
    <3>2. 6 = Min(Ends(s)) /\ Left(s, 6, f, 9) BY <1>12, <2>2, <3>1
    <3>3. HeadersSent(s, ParseHeaders(f, 9)) BY <3>2, NoHeadersParsed, Zenon
    <3> QED BY <2>2, <3>3
  <2> QED BY <1>10, <2>1, <2>2
<1>15. HeadersOf(b) = ParseHeaders(f, v)
  <2>1. VersionOf(b).buf = f /\ VersionOf(b).at = v BY <1>13 DEF Word
  <2> QED BY <2>1, Zenon DEF HeadersOf
<1>16. PICK h : h = HeadersOf(b) OBVIOUS
<1>17. h.ok = TRUE /\ h.headers = Fields(s, Min({Len(LinesOf(s)) - 1, MaxHeaders}))
  BY <1>14, <1>15, <1>16, Zenon DEF HeadersSent
<1>18. MethodOf(b).ok = TRUE /\ MethodOf(b).word = <<s[1]>> BY <1>8 DEF Word
<1>19. TargetOf(b).ok = TRUE /\ TargetOf(b).word = <<URI>> BY <1>9 DEF Word
<1>20. VersionOf(b).ok = TRUE /\ VersionOf(b).word = <<s[5]>> BY <1>13 DEF Word
<1>21. MethodOf(b).word \in {<<GET>>, <<POST>>} BY <1>1, <1>18 DEF FirstWords
<1>22. VersionOf(b).word[1] \in {HTTP10, HTTP11, HTTP3}
  <2>1. VersionOf(b).word[1] = s[5] BY <1>20
  <2> QED BY <1>1, <2>1 DEF FirstWords
<1>23. ~(StartOf(b) > Len(b) \/ iscntrl(b[StartOf(b)]) \/ RestLen(b) <= 0)
  <2>1. ~(1 > Len(b)) /\ ~(e + 3 <= 0) BY ONLY <1>1, <1>2
  <2> QED BY <1>2, <2>1, Zenon
<1>24. ParseRequest(b) = Put(b, [ok |-> TRUE, buf |-> h.buf, method |-> <<s[1]>>, target |-> <<URI>>,
                                 version |-> <<s[5]>>, headers |-> h.headers])
  BY <1>16, <1>17, <1>18, <1>19, <1>20, <1>21, <1>22, <1>23, ParseRequestIs, Zenon
<1>25. PICK r : r = ParseRequest(b) OBVIOUS
<1>26. r.ok = TRUE /\ r.target = <<URI>> /\ r.version = <<s[5]>> /\ r.headers = h.headers
  <2>1. Says(r, <<s[1]>>, <<URI>>, <<s[5]>>, h.headers) BY <1>24, <1>25, PutIs, Zenon
  <2> QED BY <2>1, Zenon DEF Says
<1> QED BY <1>17, <1>25, <1>26, Zenon DEF SaysWhatIsSent

LEMMA SentIs ==
  ASSUME NEW s \in Seq(Nat), IsRfc(s), NEW r, SaysWhatIsSent(s, r)
  PROVE  Process(r) = Process(RfcRequest(s))
<1>1. PICK e : e = Min(Ends(s)) OBVIOUS
<1>2. e \in Nat /\ 6 <= e /\ e + 3 <= Len(s) /\ FirstWords(s) BY <1>1, RequestLine
<1>3. LinesOf(s)[1] = SubSeq(s, 1, 5) BY FirstLine, Zenon
<1>4. PICK l : l = SubSeq(s, 1, 5) OBVIOUS
<1>5. l[3] = s[3] /\ l[5] = s[5]
  <2>1. 1 \in Nat /\ 5 \in Int /\ 1 <= 1 /\ 5 <= Len(s) /\ 1 <= 5 + 1 /\ Len(s) \in Nat BY ONLY <1>2, s \in Seq(Nat)
  <2>2. \A k \in 1 .. 5 - 1 + 1 : l[k] = s[1 + k - 1] BY ONLY <1>4, <2>1, PartIs, s \in Seq(Nat)
  <2>3. 3 \in 1 .. 5 - 1 + 1 /\ 5 \in 1 .. 5 - 1 + 1 /\ 1 + 3 - 1 = 3 /\ 1 + 5 - 1 = 5 OBVIOUS
  <2> QED BY <2>2, <2>3
<1>6. PICK q : q = RfcRequest(s) OBVIOUS
<1>7. q = [target |-> <<LinesOf(s)[1][3]>>, version |-> <<LinesOf(s)[1][5]>>,
           headers |-> Fields(s, Min({Len(LinesOf(s)) - 1, MaxHeaders}))]
  BY <1>6, Zenon DEF RfcRequest, Fields
<1>8. q.target = <<LinesOf(s)[1][3]>> /\ q.version = <<LinesOf(s)[1][5]>>
      /\ q.headers = Fields(s, Min({Len(LinesOf(s)) - 1, MaxHeaders}))
  BY <1>7
<1>9. LinesOf(s)[1][3] = URI /\ LinesOf(s)[1][5] = s[5] BY <1>2, <1>3, <1>4, <1>5, Zenon DEF FirstWords
<1>10. r.target = q.target /\ r.version = q.version /\ r.headers = q.headers
  BY <1>8, <1>9, Zenon DEF SaysWhatIsSent
<1> QED BY <1>6, <1>10, SameProcess, Zenon

(***************************************************************************)
(* A handler answers a URI: what the text of a target begins with.         *)
(***************************************************************************)
(* FlattenSeq goes from the first sequence to the last.                    *)
Flattens(f, seqs, n) == f[1] = seqs[1] /\ \A i \in 2 .. n : f[i] = f[i - 1] \o seqs[i]

LEMMA FlattenLoop ==
  ASSUME NEW S, NEW seqs \in Seq(Seq(S)), NEW n \in Nat, n = Len(seqs), n # 0
  PROVE  \E f : Flattens(f, seqs, n) /\ FlattenSeq(seqs) = f[n]
<1> DEFINE T == Seq(S)
           G == [i \in 1 .. n |-> [x \in T |-> IF i = 1 THEN seqs[1] ELSE x \o seqs[i]]]
<1>0. \A i \in 1 .. n : seqs[i] \in Seq(S) OBVIOUS
<1>1. StaysIn(T, n, G)
  <2>1. ASSUME NEW i \in 1 .. n, NEW x \in T PROVE G[i][x] \in T
    <3>1. G[i][x] = IF i = 1 THEN seqs[1] ELSE x \o seqs[i] OBVIOUS
    <3>2. seqs[1] \in T /\ seqs[i] \in Seq(S)
      <4>1. 1 \in 1 .. n OBVIOUS
      <4> QED BY <1>0, <4>1
    <3>3. x \o seqs[i] \in T BY <3>2
    <3> QED BY <3>1, <3>2, <3>3
  <2> QED BY <2>1 DEF StaysIn
<1>2. << >> \in T OBVIOUS
<1>3. \A i \in 1 .. n : \A x \in T : G[i][x] = IF i = 1 THEN seqs[1] ELSE x \o seqs[i] OBVIOUS
<1>4. PICK g \in [0 .. n -> T] : Iterates(g, n, << >>, G)
  <2> HIDE DEF G, T
  <2> QED BY <1>1, <1>2, Recursion
<1>5. \A i \in 1 .. n : g[i] = IF i = 1 THEN seqs[1] ELSE g[i - 1] \o seqs[i]
  <2>1. ASSUME NEW i \in 1 .. n PROVE g[i] = IF i = 1 THEN seqs[1] ELSE g[i - 1] \o seqs[i]
    <3>1. g[i] = G[i][g[i - 1]] BY <1>4 DEF Iterates
    <3>2. i - 1 \in 0 .. n OBVIOUS
    <3>3. g[i - 1] \in T
      <4> HIDE DEF T
      <4> QED BY <3>2
    <3> HIDE DEF G, T
    <3> QED BY <1>3, <3>1, <3>3
  <2> QED BY <2>1
<1> HIDE DEF G, T
<1> DEFINE h == [i \in 1 .. n |-> g[i]]
           F(f) == [i \in 1 .. n |-> IF i = 1 THEN seqs[i] ELSE f[i - 1] \o seqs[i]]
           flatten == CHOOSE f : f = F(f)
<1>6. h = F(h)
  <2>1. ASSUME NEW i \in 1 .. n PROVE g[i] = IF i = 1 THEN seqs[i] ELSE h[i - 1] \o seqs[i]
    <3>1. CASE i = 1 BY <1>5, <3>1
    <3>2. CASE i # 1
      <4>1. i - 1 \in 1 .. n BY <3>2
      <4>2. h[i - 1] = g[i - 1] BY <4>1
      <4> HIDE DEF h
      <4> QED BY <1>5, <3>2, <4>2
    <3> QED BY <3>1, <3>2
  <2> QED BY <2>1, Zenon
<1>7. flatten = F(flatten)
  <2> HIDE DEF F, h
  <2> QED BY <1>6, Zenon
<1>8. \A i \in 1 .. n : flatten[i] = IF i = 1 THEN seqs[i] ELSE flatten[i - 1] \o seqs[i]
  <2> HIDE DEF flatten
  <2> QED BY <1>7, Zenon
<1>9. FlattenSeq(seqs) = flatten[n] BY Zenon DEF FlattenSeq
<1> HIDE DEF flatten, F
<1>10. Flattens(flatten, seqs, n)
  <2>1. 1 \in 1 .. n OBVIOUS
  <2>2. flatten[1] = seqs[1] BY <1>8, <2>1
  <2>3. ASSUME NEW i \in 2 .. n PROVE flatten[i] = flatten[i - 1] \o seqs[i]
    <3>1. i \in 1 .. n /\ i # 1 OBVIOUS
    <3> QED BY <1>8, <3>1, Zenon
  <2> QED BY <2>2, <2>3, Zenon DEF Flattens
<1> QED BY <1>9, <1>10

LEMMA FlattenBegins ==
  ASSUME NEW S, NEW seqs \in Seq(Seq(S)), seqs # << >>, seqs[1] # << >>
  PROVE  FlattenSeq(seqs) \in Seq(S) /\ FlattenSeq(seqs) # << >> /\ FlattenSeq(seqs)[1] = seqs[1][1]
<1>1. PICK n \in Nat : n = Len(seqs) /\ n # 0 /\ \A i \in 1 .. n : seqs[i] \in Seq(S) OBVIOUS
<1>2. PICK f : Flattens(f, seqs, n) /\ FlattenSeq(seqs) = f[n] BY <1>1, FlattenLoop
<1>3. seqs[1] \in Seq(S) BY <1>1
<1> DEFINE Good == {i \in 0 .. n : i = 0 \/ (f[i] \in Seq(S) /\ Len(f[i]) >= 1 /\ f[i][1] = seqs[1][1])}
<1>4. 0 \in Good OBVIOUS
<1>5. ASSUME NEW i \in 1 .. n, i - 1 \in Good PROVE i \in Good
  <2>1. CASE i = 1
    <3>1. f[1] = seqs[1] BY <1>2 DEF Flattens
    <3>2. Len(seqs[1]) >= 1 BY <1>3
    <3> QED BY <1>3, <2>1, <3>1, <3>2
  <2>2. CASE i # 1
    <3>0. i \in 2 .. n /\ i - 1 # 0 BY <2>2
    <3>1. f[i] = f[i - 1] \o seqs[i] BY <1>2, <3>0, Zenon DEF Flattens
    <3>2. f[i - 1] \in Seq(S) /\ Len(f[i - 1]) >= 1 /\ f[i - 1][1] = seqs[1][1] BY <1>5, <3>0
    <3>3. PICK a \in Seq(S) : a = f[i - 1] BY <3>2
    <3>4. PICK b \in Seq(S) : b = seqs[i] BY <1>1
    <3>5. a \o b \in Seq(S) /\ Len(a \o b) >= 1 /\ (a \o b)[1] = a[1]
      <4>1. Len(a) >= 1 BY <3>2, <3>3
      <4> QED BY <4>1
    <3>6. f[i] = a \o b BY <3>1, <3>3, <3>4
    <3>7. PICK c \in Seq(S) : c = a \o b BY <3>5
    <3>8. f[i] = c /\ Len(c) >= 1 /\ c[1] = seqs[1][1] BY <3>2, <3>3, <3>5, <3>6, <3>7
    <3>9. i \in 0 .. n OBVIOUS
    <3> QED BY <3>8, <3>9
  <2> QED BY <2>1, <2>2
<1>6. \A i \in 0 .. n : i \in Good
  <2> HIDE DEF Good
  <2> QED BY <1>4, <1>5, UpTo
<1>7. n \in 0 .. n BY <1>1
<1>8. f[n] \in Seq(S) /\ Len(f[n]) >= 1 /\ f[n][1] = seqs[1][1] BY <1>1, <1>6, <1>7
<1> QED BY <1>2, <1>8

LEMMA TextBegins ==
  ASSUME client.uri \in Seq(Nat), NEW word \in Seq(Nat), word # << >>, word[1] # URI
  PROVE  Text(word) \in Seq(Nat) /\ Text(word) # << >> /\ Text(word)[1] = word[1]
<1> DEFINE seqs == [i \in 1 .. Len(word) |-> IF word[i] = URI THEN client.uri ELSE <<word[i]>>]
<1>1. seqs \in Seq(Seq(Nat)) /\ Len(seqs) = Len(word)
  <2>1. \A i \in 1 .. Len(word) : word[i] \in Nat OBVIOUS
  <2>2. \A i \in 1 .. Len(word) : (IF word[i] = URI THEN client.uri ELSE <<word[i]>>) \in Seq(Nat) BY <2>1
  <2>3. seqs \in [1 .. Len(word) -> Seq(Nat)] BY <2>2
  <2>4. Len(word) \in Nat OBVIOUS
  <2> HIDE DEF seqs
  <2> QED BY <2>3, <2>4
<1>2. 1 \in 1 .. Len(word) OBVIOUS
<1>3. seqs[1] = <<word[1]>> BY <1>2
<1>4. seqs # << >> /\ seqs[1] # << >> /\ seqs[1][1] = word[1]
  <2>1. Len(seqs) >= 1 BY <1>1, <1>2
  <2> HIDE DEF seqs
  <2> QED BY <1>1, <1>3, <2>1
<1>5. Text(word) = FlattenSeq(seqs) BY Zenon DEF Text
<1> HIDE DEF seqs
<1> QED BY <1>1, <1>4, <1>5, FlattenBegins

(* What a URI begins with.                                                 *)
LEMMA UriBegins ==
  ASSUME NEW uri \in Seq(Nat), uri # << >>, get_uri_type(uri) \notin {0, 1}
  PROVE  uri[1] \in {47, 72, 87, 104, 119}
<1>1. ASSUME uri[1] # Slash PROVE uri[1] \in {72, 87, 104, 119}
  <2>1. ProtocolOf(uri) # {} BY <1>1, Zenon DEF get_uri_type
  <2>2. PICK k \in ProtocolOf(uri) : TRUE BY <2>1
  <2>3. k \in 1 .. Len(abs_uri_protocols) /\ StartsWith(uri, abs_uri_protocols[k].proto) BY <2>2 DEF ProtocolOf
  <2>4. PICK p : p = abs_uri_protocols[k].proto OBVIOUS
  <2>5. p \in Seq(Nat) /\ Len(p) >= 1 /\ p[1] \in {104, 119}
    <3>1. Len(abs_uri_protocols) = 4 BY DEF abs_uri_protocols
    <3>2. k = 1 \/ k = 2 \/ k = 3 \/ k = 4 BY <2>3, <3>1
    <3>3. /\ abs_uri_protocols[1].proto = <<104, 116, 116, 112, 58, 47, 47>>
          /\ abs_uri_protocols[2].proto = <<104, 116, 116, 112, 115, 58, 47, 47>>
          /\ abs_uri_protocols[3].proto = <<119, 115, 58, 47, 47>>
          /\ abs_uri_protocols[4].proto = <<119, 115, 115, 58, 47, 47>>
      BY DEF abs_uri_protocols
    <3>4. CASE k = 1
      <4>1. p = <<104, 116, 116, 112, 58, 47, 47>> BY <2>4, <3>3, <3>4
      <4> QED BY ONLY <4>1
    <3>5. CASE k = 2
      <4>1. p = <<104, 116, 116, 112, 115, 58, 47, 47>> BY <2>4, <3>3, <3>5
      <4> QED BY ONLY <4>1
    <3>6. CASE k = 3
      <4>1. p = <<119, 115, 58, 47, 47>> BY <2>4, <3>3, <3>6
      <4> QED BY ONLY <4>1
    <3>7. CASE k = 4
      <4>1. p = <<119, 115, 115, 58, 47, 47>> BY <2>4, <3>3, <3>7
      <4> QED BY ONLY <4>1
    <3> QED BY <3>2, <3>4, <3>5, <3>6, <3>7
  <2>6. Len(p) <= Len(uri) /\ SameLetters(p, SubSeq(uri, 1, Len(p))) BY <2>3, <2>4, Zenon DEF StartsWith
  <2>7. PICK q : q = SubSeq(uri, 1, Len(p)) OBVIOUS
  <2>8. q[1] = uri[1]
    <3>1. Len(p) \in Nat /\ Len(uri) \in Nat BY <2>5
    <3>2. 1 \in 1 .. Len(p) BY <2>5, <3>1
    <3>3. q[1] = uri[1 + 1 - 1] BY <2>6, <2>7, <3>1, <3>2
    <3> QED BY <3>3
  <2>9. Lower(p[1]) = Lower(q[1])
    <3>1. \A i \in 1 .. Len(p) : Lower(p[i]) = Lower(q[i]) BY <2>6, <2>7 DEF SameLetters
    <3>2. 1 \in 1 .. Len(p) BY <2>5
    <3> QED BY <3>1, <3>2
  <2>10. PICK c \in Nat : c = uri[1]
    <3>1. 1 \in 1 .. Len(uri) BY <2>5, <2>6
    <3> QED BY <3>1
  <2>11. Lower(c) \in {104, 119}
    <3>1. Lower(104) = 104 /\ Lower(119) = 119 BY DEF Lower
    <3> QED BY <2>5, <2>8, <2>9, <2>10, <3>1
  <2>12. c \in {72, 87, 104, 119} BY <2>11 DEF Lower
  <2> QED BY <2>10, <2>12
<1> QED BY <1>1 DEF Slash

LEMMA ProcessIs ==
  ASSUME NEW r
  PROVE  \/ Process(r) \in {Error(400), Error(411), Error(505), Closed}
         \/ /\ r.version \in {<<HTTP10>>, <<HTTP11>>}
            /\ get_uri_type(Text(r.target)) \notin {0, 1}
<1> DEFINE text == Text(r.target)
           type == get_uri_type(text)
           local_uri == IF type = 2 THEN text ELSE get_rel_url_at_current_server(text)
<1>1. Process(r) = IF ~HostOK(r) THEN Error(400)
                   ELSE IF ~LengthOK(r) THEN Error(411)
                   ELSE IF r.version \notin {<<HTTP10>>, <<HTTP11>>} THEN Error(505)
                   ELSE IF type = 0 THEN Error(400)
                   ELSE IF type = 1 \/ local_uri = << >> THEN Closed
                   ELSE HandleRequest(local_uri)
  BY Zenon DEF Process
<1> HIDE DEF type, local_uri
<1>2. PICK p : p = Process(r) OBVIOUS
<1>3. type \notin {0, 1} <=> get_uri_type(Text(r.target)) \notin {0, 1} BY Zenon DEF type
<1>4. CASE ~HostOK(r) BY <1>1, <1>4, Zenon
<1>5. CASE HostOK(r) /\ ~LengthOK(r) BY <1>1, <1>5, Zenon
<1>6. CASE HostOK(r) /\ LengthOK(r) /\ r.version \notin {<<HTTP10>>, <<HTTP11>>} BY <1>1, <1>6, Zenon
<1>7. CASE HostOK(r) /\ LengthOK(r) /\ r.version \in {<<HTTP10>>, <<HTTP11>>} /\ type = 0 BY <1>1, <1>7, Zenon
<1>8. CASE HostOK(r) /\ LengthOK(r) /\ r.version \in {<<HTTP10>>, <<HTTP11>>} /\ type # 0 /\ type = 1
  BY <1>1, <1>8, Zenon
<1>9. CASE r.version \in {<<HTTP10>>, <<HTTP11>>} /\ type # 0 /\ type # 1 BY <1>3, <1>9
<1> QED BY <1>4, <1>5, <1>6, <1>7, <1>8, <1>9, Zenon

(* A handler's answer is to a URI. *)
LEMMA AnswersAre ==
  ASSUME NEW r, Process(r).code = 200
  PROVE  get_uri_type(Text(r.target)) \notin {0, 1} /\ r.version \in {<<HTTP10>>, <<HTTP11>>}
<1>1. Error(400).code = 400 /\ Error(411).code = 411 /\ Error(505).code = 505 /\ Closed.code = 0
  BY DEF Error, Closed, Answer
<1>2. 400 # 200 /\ 411 # 200 /\ 505 # 200 /\ 0 # 200 OBVIOUS
<1>3. PICK p : p = Process(r) OBVIOUS
<1>4. p \notin {Error(400), Error(411), Error(505), Closed} BY <1>1, <1>2, <1>3
<1> QED BY <1>3, <1>4, ProcessIs, Zenon

LEMMA TargetIsUri ==
  ASSUME client.uri \in Seq(Nat), NEW r, Process(r).code = 200,
         r.target \in Seq(Nat), r.target # << >>, r.target[1] \notin {47, 72, 87, 104, 119}
  PROVE  r.target[1] = URI
<1>1. SUFFICES ASSUME r.target[1] # URI PROVE FALSE OBVIOUS
<1>2. PICK t : t = Text(r.target) OBVIOUS
<1>3. t \in Seq(Nat) /\ t # << >> /\ t[1] = r.target[1] BY <1>1, <1>2, TextBegins
<1>4. get_uri_type(t) \notin {0, 1} BY <1>2, AnswersAre
<1>5. t[1] \in {47, 72, 87, 104, 119} BY <1>3, <1>4, UriBegins
<1> QED BY <1>3, <1>5

(***************************************************************************)
(* Whatever is in the buffer: the parser writes within it.                 *)
(***************************************************************************)
(* What is written to the buffer leaves it a buffer of that size.          *)
IsBuffer(b, n) == b \in Seq(Nat) /\ Len(b) = n

LEMMA ZeroedKeeps ==
  ASSUME NEW n, NEW b, IsBuffer(b, n), NEW i, NEW j
  PROVE  IsBuffer(Zeroed(b, i, j), n)
BY ZeroedIs DEF IsBuffer

LEMMA FailedIs ==
  ASSUME NEW c
  PROVE  Failed(c).ok = FALSE /\ Failed(c).buf = c
BY DEF Failed

WordFound(r, n) == \E c : IsBuffer(c, n) /\ (r = Failed(c) \/ \E w, a : r = Word(c, w, a))

LEMMA SkipWordKeeps ==
  ASSUME NEW n, NEW b, IsBuffer(b, n), NEW i, NEW eol \in BOOLEAN
  PROVE  WordFound(SkipWord(b, i, eol), n)
<1> DEFINE end == PastWord(b, i)
           next == PastSpaces(b, end + 1)
           r == SkipWord(b, i, eol)
<1>1. r = IF (eol /\ b[end] \notin {CR, LF}) \/ (~eol /\ b[end] # Space) THEN Failed(b)
          ELSE IF ~eol /\ ~isgraph(b[next]) THEN Failed(Zeroed(b, end, next - 1))
          ELSE [ok |-> TRUE, buf |-> Zeroed(b, end, next - 1), word |-> SubSeq(b, i, end - 1), at |-> next]
  BY SkipWordAre, Zenon
<1> HIDE DEF r
<1>2. PICK after : after = Zeroed(b, end, next - 1) OBVIOUS
<1>3. IsBuffer(after, n) BY <1>2, ZeroedKeeps, Zenon
<1>4. r = Failed(b) \/ r = Failed(after) \/ r = Word(after, SubSeq(b, i, end - 1), next)
  BY <1>1, <1>2, Zenon DEF Word
<1> HIDE DEF end, next
<1>5. WordFound(r, n) BY <1>3, <1>4, Zenon DEF WordFound
<1> QED BY <1>5, Zenon DEF r

LEMMA WordFoundHas ==
  ASSUME NEW r, NEW n, WordFound(r, n)
  PROVE  IsBuffer(r.buf, n) /\ r.ok \in BOOLEAN /\ (r = Failed(r.buf) \/ r.ok = TRUE)
<1>1. PICK c : IsBuffer(c, n) /\ (r = Failed(c) \/ \E w, a : r = Word(c, w, a)) BY DEF WordFound
<1>2. CASE r = Failed(c)
  <2>1. r.ok = FALSE /\ r.buf = c BY <1>2, FailedIs
  <2> QED BY <1>1, <1>2, <2>1
<1>3. CASE \E w, a : r = Word(c, w, a)
  <2>1. PICK w, a : r = Word(c, w, a) BY <1>3
  <2>2. r = [ok |-> TRUE, buf |-> c, word |-> w, at |-> a] BY <2>1 DEF Word
  <2>3. r.ok = TRUE /\ r.buf = c BY <2>2
  <2> QED BY <1>1, <2>3
<1> QED BY <1>1, <1>2, <1>3

(* The loop over the headers. *)
Going(x, n) ==
  \E g, o \in BOOLEAN : \E c : IsBuffer(c, n) /\ \E a, h : x = [goes_on |-> g, ok |-> o, buf |-> c, at |-> a, headers |-> h]

LEMMA GoingHas ==
  ASSUME NEW x, NEW n, Going(x, n)
  PROVE  IsBuffer(x.buf, n) /\ x.ok \in BOOLEAN
<1>1. PICK g, o \in BOOLEAN : \E c : IsBuffer(c, n) /\ \E a, h : x = [goes_on |-> g, ok |-> o, buf |-> c, at |-> a, headers |-> h]
  BY DEF Going
<1>2. PICK c : IsBuffer(c, n) /\ \E a, h : x = [goes_on |-> g, ok |-> o, buf |-> c, at |-> a, headers |-> h]
  BY <1>1
<1>3. PICK a, h : x = [goes_on |-> g, ok |-> o, buf |-> c, at |-> a, headers |-> h] BY <1>2
<1>4. x.buf = c /\ x.ok = o BY <1>3
<1> QED BY <1>2, <1>4

LEMMA GoingWith ==
  ASSUME NEW n, NEW g \in BOOLEAN, NEW o \in BOOLEAN, NEW c, IsBuffer(c, n), NEW a, NEW h
  PROVE  Going([goes_on |-> g, ok |-> o, buf |-> c, at |-> a, headers |-> h], n)
BY Zenon DEF Going

Five(x, g, o, c, a, h) == x = [goes_on |-> g, ok |-> o, buf |-> c, at |-> a, headers |-> h]

LEMMA FieldsOf ==
  ASSUME NEW g, NEW o, NEW c, NEW a, NEW h, NEW x, Five(x, g, o, c, a, h)
  PROVE  \A v : /\ Five([x EXCEPT !.goes_on = v], v, o, c, a, h)
               /\ Five([x EXCEPT !.ok = v], g, v, c, a, h)
               /\ Five([x EXCEPT !.buf = v], g, o, v, a, h)
               /\ Five([x EXCEPT !.at = v], g, o, c, v, h)
               /\ Five([x EXCEPT !.headers = v], g, o, c, a, v)
<1> SUFFICES ASSUME NEW v
             PROVE  /\ Five([x EXCEPT !.goes_on = v], v, o, c, a, h)
                    /\ Five([x EXCEPT !.ok = v], g, v, c, a, h)
                    /\ Five([x EXCEPT !.buf = v], g, o, v, a, h)
                    /\ Five([x EXCEPT !.at = v], g, o, c, v, h)
                    /\ Five([x EXCEPT !.headers = v], g, o, c, a, v)
  OBVIOUS
<1> QED BY DEF Five

LEMMA FiveGoes ==
  ASSUME NEW n, NEW x, NEW g \in BOOLEAN, NEW o \in BOOLEAN, NEW c, IsBuffer(c, n), NEW a, NEW h, Five(x, g, o, c, a, h)
  PROVE  Going(x, n)
BY Zenon DEF Going, Five

LEMMA TurnKeeps ==
  ASSUME NEW n, NEW x, Going(x, n)
  PROVE  Going(Turn(x), n)
<1>1. PICK g, o \in BOOLEAN : \E c : IsBuffer(c, n) /\ \E a, h : x = [goes_on |-> g, ok |-> o, buf |-> c, at |-> a, headers |-> h]
  BY DEF Going
<1>2. PICK b : IsBuffer(b, n) /\ \E a, h : x = [goes_on |-> g, ok |-> o, buf |-> b, at |-> a, headers |-> h]
  BY <1>1
<1>3. PICK i, h : x = [goes_on |-> g, ok |-> o, buf |-> b, at |-> i, headers |-> h] BY <1>2
<1>4. x.buf = b /\ x.at = i /\ x.headers = h BY <1>3
<1> DEFINE colon == PastName(b, i)
           value == PastBlanks(b, colon + 1)
           end == LineEnd(b, value)
           cut == Zeroed(b, colon, colon)
           ended == Zeroed(cut, end, end + 1)
           header(text) == [name |-> SubSeq(b, i, colon - 1), value |-> text]
           last == [x EXCEPT !.goes_on = FALSE]
           here == Append(h, header(SubSeq(b, value, StringEnd(b, value) - 1)))
           more == Append(h, header(SubSeq(b, value, end - 1)))
<1>5. ParseHeader(x) \in {last, [last EXCEPT !.ok = FALSE],
                          [last EXCEPT !.buf = cut, !.headers = Append(@, header(SubSeq(b, value, StringEnd(b, value) - 1)))],
                          [x EXCEPT !.goes_on = ended[end + 2] # CR, !.buf = ended, !.at = end + 2,
                                    !.headers = Append(@, header(SubSeq(b, value, end - 1)))]}
  BY <1>4, Zenon DEF ParseHeader
<1>6. PICK new, dead : new = more /\ dead = here OBVIOUS
<1>7. PICK on \in BOOLEAN : on = (ended[end + 2] # CR) OBVIOUS
<1>8. IsBuffer(cut, n) BY <1>2, ZeroedKeeps, Zenon
<1>9. IsBuffer(ended, n) BY <1>8, ZeroedKeeps, Zenon
<1>10. PICK c1, c2 : c1 = cut /\ c2 = ended OBVIOUS
<1>11. PICK at2 : at2 = end + 2 OBVIOUS
<1>12. ParseHeader(x) \in {last, [last EXCEPT !.ok = FALSE], [last EXCEPT !.buf = c1, !.headers = dead],
                           [x EXCEPT !.goes_on = on, !.buf = c2, !.at = at2, !.headers = new]}
  <2>1. [last EXCEPT !.buf = cut, !.headers = Append(@, header(SubSeq(b, value, StringEnd(b, value) - 1)))]
        = [last EXCEPT !.buf = c1, !.headers = dead]
    <3>1. last.headers = h BY <1>3
    <3> HIDE DEF last, header, cut
    <3>2. PICK y : y = last OBVIOUS
    <3>3. y.headers = h BY <3>1, <3>2
    <3>4. PICK f : f = header(SubSeq(b, value, StringEnd(b, value) - 1)) OBVIOUS
    <3>5. dead = Append(h, f) BY <1>6, <3>4
    <3>6. [y EXCEPT !.buf = c1, !.headers = Append(@, f)] = [y EXCEPT !.buf = c1, !.headers = Append(y.headers, f)]
      OBVIOUS
    <3>7. [y EXCEPT !.buf = c1, !.headers = Append(@, f)] = [y EXCEPT !.buf = c1, !.headers = dead]
      BY <3>3, <3>5, <3>6
    <3> QED BY <1>10, <3>2, <3>4, <3>7, Zenon
  <2>2. [x EXCEPT !.goes_on = ended[end + 2] # CR, !.buf = ended, !.at = end + 2,
                  !.headers = Append(@, header(SubSeq(b, value, end - 1)))]
        = [x EXCEPT !.goes_on = on, !.buf = c2, !.at = at2, !.headers = new]
    <3> HIDE DEF header, ended, end
    <3>1. PICK f : f = header(SubSeq(b, value, end - 1)) OBVIOUS
    <3>2. new = Append(h, f) BY <1>6, <3>1
    <3>3. PICK y : y = x /\ y.headers = h BY <1>4
    <3>4. [y EXCEPT !.goes_on = on, !.buf = c2, !.at = at2, !.headers = Append(@, f)]
          = [y EXCEPT !.goes_on = on, !.buf = c2, !.at = at2, !.headers = Append(y.headers, f)] OBVIOUS
    <3> QED BY <1>7, <1>10, <1>11, <3>1, <3>2, <3>3, <3>4, Zenon
  <2> HIDE DEF last, header, cut, ended, end, value, colon
  <2> QED BY <1>5, <2>1, <2>2, Zenon
<1>13. IsBuffer(c1, n) /\ IsBuffer(c2, n) BY <1>8, <1>9, <1>10
<1> HIDE DEF header, cut, ended, end, value, colon, here, more
<1>14. Five(x, g, o, b, i, h) BY <1>3, Zenon DEF Five
<1>15. Five(last, FALSE, o, b, i, h) BY <1>14, FieldsOf, Zenon
<1> HIDE DEF last
<1>16. Five([last EXCEPT !.ok = FALSE], FALSE, FALSE, b, i, h) BY <1>15, FieldsOf, Zenon
<1>17. Five([last EXCEPT !.buf = c1, !.headers = dead], FALSE, o, c1, i, dead)
  <2>1. PICK y : y = last OBVIOUS
  <2>2. [y EXCEPT !.buf = c1, !.headers = dead] = [[y EXCEPT !.buf = c1] EXCEPT !.headers = dead] OBVIOUS
  <2>3. PICK z : z = [y EXCEPT !.buf = c1] OBVIOUS
  <2>4. Five(z, FALSE, o, c1, i, h) BY <1>15, <2>1, <2>3, FieldsOf, Zenon
  <2>5. Five([z EXCEPT !.headers = dead], FALSE, o, c1, i, dead) BY <2>4, FieldsOf, Zenon
  <2> QED BY <2>1, <2>2, <2>3, <2>5, Zenon
<1>18. Five([x EXCEPT !.goes_on = on, !.buf = c2, !.at = at2, !.headers = new], on, o, c2, at2, new)
  <2>1. [x EXCEPT !.goes_on = on, !.buf = c2, !.at = at2, !.headers = new]
        = [[[[x EXCEPT !.goes_on = on] EXCEPT !.buf = c2] EXCEPT !.at = at2] EXCEPT !.headers = new] OBVIOUS
  <2>2. PICK y : y = [x EXCEPT !.goes_on = on] OBVIOUS
  <2>3. PICK z : z = [y EXCEPT !.buf = c2] OBVIOUS
  <2>4. PICK w : w = [z EXCEPT !.at = at2] OBVIOUS
  <2>5. Five(y, on, o, b, i, h) BY <1>14, <2>2, FieldsOf, Zenon
  <2>6. Five(z, on, o, c2, i, h) BY <2>3, <2>5, FieldsOf, Zenon
  <2>7. Five(w, on, o, c2, at2, h) BY <2>4, <2>6, FieldsOf, Zenon
  <2>8. Five([w EXCEPT !.headers = new], on, o, c2, at2, new) BY <2>7, FieldsOf, Zenon
  <2> QED BY <2>1, <2>2, <2>3, <2>4, <2>8, Zenon
<1>19. FALSE \in BOOLEAN OBVIOUS
<1>20. Going(ParseHeader(x), n)
  <2>1. CASE ParseHeader(x) = last BY <1>2, <1>15, <1>19, <2>1, FiveGoes, Zenon
  <2>2. CASE ParseHeader(x) = [last EXCEPT !.ok = FALSE] BY <1>2, <1>16, <1>19, <2>2, FiveGoes, Zenon
  <2>3. CASE ParseHeader(x) = [last EXCEPT !.buf = c1, !.headers = dead]
    BY <1>13, <1>17, <1>19, <2>3, FiveGoes, Zenon
  <2>4. CASE ParseHeader(x) = [x EXCEPT !.goes_on = on, !.buf = c2, !.at = at2, !.headers = new]
    BY <1>13, <1>18, <2>4, FiveGoes, Zenon
  <2> QED BY <1>12, <2>1, <2>2, <2>3, <2>4, Zenon
<1> QED BY <1>20, Zenon DEF Turn

LEMMA ParseHeadersKeeps ==
  ASSUME NEW n, NEW b, IsBuffer(b, n), NEW i
  PROVE  Going(ParseHeaders(b, i), n)
<1>1. PICK f : Turns(f, b, i, MaxHeaders) /\ ParseHeaders(b, i) = f[MaxHeaders] BY HeadersLoop
<1> DEFINE Good == {k \in 0 .. MaxHeaders : Going(f[k], n)}
<1>2. MaxHeaders \in Nat BY HeadersAssumption
<1>3. 0 \in Good
  <2>1. TRUE \in BOOLEAN OBVIOUS
  <2>2. Going(HeadersFrom(b, i), n) BY <2>1, GoingWith, Zenon DEF HeadersFrom
  <2>3. f[0] = HeadersFrom(b, i) BY <1>1, Zenon DEF Turns
  <2>4. 0 \in 0 .. MaxHeaders BY <1>2
  <2> QED BY <2>2, <2>3, <2>4, Zenon
<1>4. ASSUME NEW k \in 1 .. MaxHeaders, k - 1 \in Good PROVE k \in Good
  <2>1. f[k] = Turn(f[k - 1]) BY <1>1, Zenon DEF Turns
  <2>2. Going(f[k], n) BY <1>4, <2>1, TurnKeeps, Zenon
  <2>3. k \in 0 .. MaxHeaders BY <1>2
  <2> QED BY <2>2, <2>3
<1>5. \A k \in 0 .. MaxHeaders : k \in Good
  <2> HIDE DEF Good
  <2> QED BY <1>2, <1>3, <1>4, UpTo
<1>6. MaxHeaders \in 0 .. MaxHeaders BY <1>2
<1> QED BY <1>1, <1>5, <1>6, Zenon

(* Leading blanks are skipped.                                             *)
LEMMA StartIs ==
  ASSUME NEW b \in Seq(Nat)
  PROVE  /\ Len(b) \in Nat /\ StartOf(b) \in 1 .. Len(b) + 1
         /\ \A k \in 1 .. StartOf(b) - 1 : isspace(b[k])
         /\ StartOf(b) <= Len(b) => ~isspace(b[StartOf(b)])
         /\ RestOf(b) \in Seq(Nat) /\ Len(RestOf(b)) = Len(b) - StartOf(b) + 1
         /\ \A k \in 1 .. Len(RestOf(b)) : RestOf(b)[k] = b[StartOf(b) + k - 1]
<1>1. PICK a : a = Append(b, 256) OBVIOUS
<1>2. Len(b) \in Nat OBVIOUS
<1>3. a \in Seq(Nat) /\ Len(a) = Len(b) + 1 /\ a[Len(b) + 1] = 256 /\ \A k \in 1 .. Len(b) : a[k] = b[k]
  <2>1. 256 \in Nat OBVIOUS
  <2> QED BY <1>1, <2>1
<1>4. ~isspace(a[Len(b) + 1]) BY <1>3 DEF isspace
<1>5. PICK m : m = PastSpaces(a, 1) OBVIOUS
<1>6. 1 \in Nat /\ Len(b) + 1 \in 1 .. Len(a) BY <1>2, <1>3
<1>7. m \in 1 .. Len(b) + 1 /\ ~isspace(a[m]) /\ \A k \in 1 .. m - 1 : isspace(a[k])
  <2>1. PICK j : j = Len(b) + 1 OBVIOUS
  <2>2. j \in 1 .. Len(a) /\ ~isspace(a[j]) BY <1>4, <1>6, <2>1
  <2>3. m \in 1 .. j /\ ~isspace(a[m]) /\ \A k \in 1 .. m - 1 : isspace(a[k])
    <3>1. a \in Seq(Nat) /\ 1 \in Nat BY <1>3
    <3> QED BY <1>5, <2>2, <3>1, SpacesEnd, Zenon
  <2> QED BY <2>1, <2>3
<1>8. StartOf(b) = m BY <1>1, <1>5 DEF StartOf
<1>9. \A k \in 1 .. m - 1 : isspace(b[k])
  <2>1. \A k \in 1 .. m - 1 : k \in 1 .. Len(b) BY <1>2, <1>7
  <2>2. ASSUME NEW k \in 1 .. m - 1 PROVE isspace(b[k])
    <3>1. b[k] = a[k] BY <1>3, <2>1
    <3> QED BY <1>7, <3>1
  <2> QED BY <2>2
<1>10. m <= Len(b) => ~isspace(b[m])
  <2>1. m <= Len(b) => m \in 1 .. Len(b) BY <1>2, <1>7
  <2> QED BY <1>3, <1>7, <2>1, Zenon
<1>11. PICK c : c = RestOf(b) OBVIOUS
<1>12. c \in Seq(Nat) /\ Len(c) = Len(b) - m + 1 /\ \A k \in 1 .. Len(b) - m + 1 : c[k] = b[m + k - 1]
  <2>1. c = SubSeq(b, m, Len(b)) BY <1>8, <1>11 DEF RestOf
  <2>2. m \in Nat /\ Len(b) \in Int /\ 1 <= m /\ Len(b) <= Len(b) /\ m <= Len(b) + 1 BY <1>2, <1>7
  <2> QED BY <2>1, <2>2, PartIs
<1> QED BY <1>2, <1>7, <1>8, <1>9, <1>10, <1>11, <1>12

LEMMA PutKeeps ==
  ASSUME NEW b \in Seq(Nat), NEW c, IsBuffer(c, Len(RestOf(b)))
  PROVE  IsBuffer(SubSeq(b, 1, StartOf(b) - 1) \o c, Len(b))
<1>1. PICK m : m = StartOf(b) OBVIOUS
<1>2. Len(b) \in Nat /\ m \in 1 .. Len(b) + 1 /\ Len(RestOf(b)) = Len(b) - m + 1 BY <1>1, StartIs
<1>3. PICK a : a = SubSeq(b, 1, m - 1) OBVIOUS
<1>4. a \in Seq(Nat) /\ Len(a) = m - 1
  <2>1. 1 \in Nat /\ m - 1 \in Int /\ 1 <= 1 /\ m - 1 <= Len(b) /\ 1 <= (m - 1) + 1 /\ (m - 1) - 1 + 1 = m - 1 BY <1>2
  <2>2. Len(a) = (m - 1) - 1 + 1 /\ a \in Seq(Nat) BY <1>3, <2>1, PartIs
  <2> QED BY <2>1, <2>2
<1>5. c \in Seq(Nat) /\ Len(c) = Len(b) - m + 1 BY <1>2 DEF IsBuffer
<1>6. PICK d \in Seq(Nat) : d = a \o c /\ Len(d) = Len(a) + Len(c)
  <2>1. a \o c \in Seq(Nat) /\ Len(a \o c) = Len(a) + Len(c) BY ONLY <1>4, <1>5
  <2> QED BY <2>1, Zenon
<1>7. Len(d) = Len(b) BY <1>2, <1>4, <1>5, <1>6
<1> QED BY <1>1, <1>3, <1>6, <1>7 DEF IsBuffer

LEMMA PutFailed ==
  ASSUME NEW b \in Seq(Nat), NEW c, IsBuffer(c, Len(RestOf(b))), NEW r, r = Put(b, Failed(c))
  PROVE  r.ok = FALSE /\ IsBuffer(r.buf, Len(b))
<1>1. PICK d : d = SubSeq(b, 1, StartOf(b) - 1) \o c OBVIOUS
<1>2. IsBuffer(d, Len(b)) BY <1>1, PutKeeps
<1>3. PICK x : x = Failed(c) OBVIOUS
<1>4. x.buf = c BY <1>3, FailedIs
<1>5. r = [x EXCEPT !.buf = d] BY <1>1, <1>3, <1>4, Zenon DEF Put
<1>6. x = [ok |-> FALSE, buf |-> c] BY <1>3 DEF Failed
<1>7. r = [ok |-> FALSE, buf |-> d] BY ONLY <1>5, <1>6
<1>8. r.ok = FALSE /\ r.buf = d BY <1>7
<1> QED BY <1>2, <1>8

LEMMA PutFound ==
  ASSUME NEW b \in Seq(Nat), NEW c, IsBuffer(c, Len(RestOf(b))), NEW m, NEW t, NEW v, NEW h, NEW r,
         r = Put(b, [ok |-> TRUE, buf |-> c, method |-> m, target |-> t, version |-> v, headers |-> h])
  PROVE  IsBuffer(r.buf, Len(b))
<1>1. PICK d : d = SubSeq(b, 1, StartOf(b) - 1) \o c OBVIOUS
<1>2. IsBuffer(d, Len(b)) BY <1>1, PutKeeps
<1>3. PICK x : x = [ok |-> TRUE, buf |-> c, method |-> m, target |-> t, version |-> v, headers |-> h] OBVIOUS
<1>4. x.buf = c BY <1>3
<1>5. r = [x EXCEPT !.buf = d] BY <1>1, <1>3, <1>4, Zenon DEF Put
<1>6. r.buf = d BY <1>3, <1>5
<1> QED BY <1>2, <1>6

(* What parse_http_request finds, if it finds a request, and that it       *)
(* writes within the buffer.                                               *)
Found(b, r) ==
  /\ StartOf(b) <= Len(b) /\ RestLen(b) > 0
  /\ MethodOf(b).ok /\ MethodOf(b).word \in {<<GET>>, <<POST>>}
  /\ TargetOf(b).ok /\ VersionOf(b).ok
  /\ r.ok = TRUE /\ r.target = TargetOf(b).word /\ r.version = VersionOf(b).word

LEMMA ParsedIs ==
  ASSUME NEW b \in Seq(Nat), NEW r, r = ParseRequest(b)
  PROVE  IsBuffer(r.buf, Len(b)) /\ (r.ok = FALSE \/ Found(b, r))
<1>1. /\ Len(b) \in Nat /\ StartOf(b) \in 1 .. Len(b) + 1
      /\ RestOf(b) \in Seq(Nat) /\ Len(RestOf(b)) = Len(b) - StartOf(b) + 1
  BY StartIs
<1>2. PICK n : n = Len(RestOf(b)) OBVIOUS
<1>3. TRUE \in BOOLEAN /\ FALSE \in BOOLEAN OBVIOUS
<1>4. WordFound(MethodOf(b), n)
  <2>1. PICK cut : cut = Zeroed(RestOf(b), RestLen(b), RestLen(b)) OBVIOUS
  <2>2. IsBuffer(RestOf(b), n) BY <1>1, <1>2 DEF IsBuffer
  <2>3. IsBuffer(cut, n) BY <2>1, <2>2, ZeroedKeeps
  <2>4. PICK x : x = [buf |-> cut, at |-> 1] OBVIOUS
  <2>5. x.buf = cut BY <2>4
  <2>6. MethodOf(b) = SkipWord(x.buf, x.at, FALSE) BY <2>1, <2>4, Zenon DEF MethodOf, NextWord
  <2> QED BY <1>3, <2>3, <2>5, <2>6, SkipWordKeeps, Zenon
<1>5. WordFound(TargetOf(b), n)
  <2>1. IsBuffer(MethodOf(b).buf, n) BY <1>4, WordFoundHas
  <2>2. TargetOf(b) = SkipWord(MethodOf(b).buf, MethodOf(b).at, FALSE) BY Zenon DEF TargetOf, NextWord
  <2> QED BY <1>3, <2>1, <2>2, SkipWordKeeps, Zenon
<1>6. WordFound(VersionOf(b), n)
  <2>1. IsBuffer(TargetOf(b).buf, n) BY <1>5, WordFoundHas
  <2>2. VersionOf(b) = SkipWord(TargetOf(b).buf, TargetOf(b).at, TRUE) BY Zenon DEF VersionOf, NextWord
  <2> QED BY <1>3, <2>1, <2>2, SkipWordKeeps, Zenon
<1>7. Going(HeadersOf(b), n)
  <2>1. IsBuffer(VersionOf(b).buf, n) BY <1>6, WordFoundHas
  <2> QED BY <2>1, ParseHeadersKeeps, Zenon DEF HeadersOf
<1>8. \A c : IsBuffer(c, n) => Put(b, Failed(c)).ok = FALSE /\ IsBuffer(Put(b, Failed(c)).buf, Len(b))
  <2>1. \A c : IsBuffer(c, n) => \A q : q = Put(b, Failed(c)) => q.ok = FALSE /\ IsBuffer(q.buf, Len(b))
    BY <1>2, PutFailed
  <2> QED BY <2>1, Zenon
<1> DEFINE Done == IsBuffer(r.buf, Len(b)) /\ (r.ok = FALSE \/ Found(b, r))
<1>9. CASE StartOf(b) > Len(b) \/ iscntrl(b[StartOf(b)]) \/ RestLen(b) <= 0
  <2>1. r = Failed(b) BY <1>9, ParseRequestIs, Zenon
  <2>2. r.ok = FALSE /\ r.buf = b BY <2>1, FailedIs
  <2> QED BY <2>2 DEF IsBuffer
<1>10. CASE ~(StartOf(b) > Len(b) \/ iscntrl(b[StartOf(b)]) \/ RestLen(b) <= 0)
  <2>1. StartOf(b) <= Len(b) /\ RestLen(b) > 0
    <3>1. RestLen(b) \in Int BY <1>1, HeaderLenIsInt DEF RestLen
    <3> QED BY <1>1, <1>10, <3>1
  <2>2. CASE ~MethodOf(b).ok
    <3>1. r = Put(b, MethodOf(b)) BY <1>10, <2>2, ParseRequestIs, Zenon
    <3>2. IsBuffer(MethodOf(b).buf, n) /\ MethodOf(b) = Failed(MethodOf(b).buf) BY <1>4, <2>2, WordFoundHas, Zenon
    <3>3. r.ok = FALSE /\ IsBuffer(r.buf, Len(b)) BY <1>8, <3>1, <3>2, Zenon
    <3> QED BY <3>3
  <2>3. CASE MethodOf(b).ok /\ MethodOf(b).word \notin {<<GET>>, <<POST>>}
    <3>1. r = Put(b, Failed(MethodOf(b).buf)) BY <1>10, <2>3, ParseRequestIs, Zenon
    <3>2. IsBuffer(MethodOf(b).buf, n) BY <1>4, WordFoundHas, Zenon
    <3>3. r.ok = FALSE /\ IsBuffer(r.buf, Len(b)) BY <1>8, <3>1, <3>2, Zenon
    <3> QED BY <3>3
  <2>4. CASE MethodOf(b).ok /\ MethodOf(b).word \in {<<GET>>, <<POST>>} /\ ~TargetOf(b).ok
    <3>1. r = Put(b, TargetOf(b)) BY <1>10, <2>4, ParseRequestIs, Zenon
    <3>2. IsBuffer(TargetOf(b).buf, n) /\ TargetOf(b) = Failed(TargetOf(b).buf) BY <1>5, <2>4, WordFoundHas, Zenon
    <3>3. r.ok = FALSE /\ IsBuffer(r.buf, Len(b)) BY <1>8, <3>1, <3>2, Zenon
    <3> QED BY <3>3
  <2>5. CASE MethodOf(b).ok /\ MethodOf(b).word \in {<<GET>>, <<POST>>} /\ TargetOf(b).ok /\ ~VersionOf(b).ok
    <3>1. r = Put(b, VersionOf(b)) BY <1>10, <2>5, ParseRequestIs, Zenon
    <3>2. IsBuffer(VersionOf(b).buf, n) /\ VersionOf(b) = Failed(VersionOf(b).buf) BY <1>6, <2>5, WordFoundHas, Zenon
    <3>3. r.ok = FALSE /\ IsBuffer(r.buf, Len(b)) BY <1>8, <3>1, <3>2, Zenon
    <3> QED BY <3>3
  <2>6. CASE /\ MethodOf(b).ok /\ MethodOf(b).word \in {<<GET>>, <<POST>>} /\ TargetOf(b).ok /\ VersionOf(b).ok
             /\ VersionOf(b).word[1] \notin {HTTP10, HTTP11, HTTP3}
    <3>1. r = Put(b, Failed(VersionOf(b).buf)) BY <1>10, <2>6, ParseRequestIs, Zenon
    <3>2. IsBuffer(VersionOf(b).buf, n) BY <1>6, WordFoundHas, Zenon
    <3>3. r.ok = FALSE /\ IsBuffer(r.buf, Len(b)) BY <1>8, <3>1, <3>2, Zenon
    <3> QED BY <3>3
  <2>7. CASE /\ MethodOf(b).ok /\ MethodOf(b).word \in {<<GET>>, <<POST>>} /\ TargetOf(b).ok /\ VersionOf(b).ok
             /\ VersionOf(b).word[1] \in {HTTP10, HTTP11, HTTP3}
    <3>1. PICK h : h = HeadersOf(b) OBVIOUS
    <3>2. IsBuffer(h.buf, n) /\ h.ok \in BOOLEAN BY <1>7, <3>1, GoingHas
    <3>3. CASE ~h.ok
      <4>1. r = Put(b, Failed(h.buf)) BY <1>10, <2>7, <3>1, <3>3, ParseRequestIs, Zenon
      <4>2. r.ok = FALSE /\ IsBuffer(r.buf, Len(b)) BY <1>8, <3>2, <4>1, Zenon
      <4> QED BY <4>2
    <3>4. CASE h.ok
      <4>1. PICK m, t, v, hs : m = MethodOf(b).word /\ t = TargetOf(b).word /\ v = VersionOf(b).word /\ hs = h.headers
        OBVIOUS
      <4>2. PICK c : c = h.buf OBVIOUS
      <4>3. r = Put(b, [ok |-> TRUE, buf |-> c, method |-> m, target |-> t, version |-> v, headers |-> hs])
        BY <1>10, <2>7, <3>1, <3>4, <4>1, <4>2, ParseRequestIs, Zenon
      <4>4. Says(r, m, t, v, hs) BY <4>3, PutIs, Zenon
      <4>5. r.ok = TRUE /\ r.target = t /\ r.version = v BY <4>4, Zenon DEF Says
      <4>6. Found(b, r) BY <2>1, <2>7, <4>1, <4>5, Zenon DEF Found
      <4>7. IsBuffer(c, Len(RestOf(b))) BY <1>2, <3>2, <4>2, Zenon
      <4>8. IsBuffer(r.buf, Len(b)) BY <4>3, <4>7, PutFound, Zenon
      <4> QED BY <4>6, <4>8
    <3> QED BY <3>2, <3>3, <3>4
  <2> QED BY <2>2, <2>3, <2>4, <2>5, <2>6, <2>7, Zenon
<1> QED BY <1>9, <1>10, Zenon

(***************************************************************************)
(* Whatever is in the buffer: what is taken apart came on this connection, *)
(* when more than blanks came.                                             *)
(***************************************************************************)
(* Where the header ends: two line feeds, or two line ends, at i.          *)
Two(b, i) == b[i] = LF /\ b[i + 1] = LF
Four(b, i) == b[i] = CR /\ b[i + 1] = LF /\ b[i + 2] = CR /\ b[i + 3] = LF
EndsAt(b, i, l) == (Two(b, i) /\ l = i + 1) \/ (Four(b, i) /\ l = i + 3)

LEMMA StopsAre ==
  ASSUME NEW b \in Seq(Nat), NEW n \in Nat, n <= Len(b), NEW i
  PROVE  i \in Stops(b, n) <=> i \in 1 .. n /\ (Bad(b[i]) \/ (i + 1 <= n /\ Two(b, i)) \/ (i + 3 <= n /\ Four(b, i)))
<1>1. ASSUME i \in 1 .. n, i + 3 <= n PROVE SubSeq(b, i, i + 3) = <<CR, LF, CR, LF>> <=> Four(b, i)
  <2>1. i \in 1 .. Len(b) /\ i + 3 <= Len(b) BY <1>1
  <2> QED BY <2>1, FourAre DEF Four
<1> QED BY <1>1 DEF Stops, Two

HeaderEndsAt(b, n, i, l) ==
  /\ i \in 1 .. n /\ l \in 1 .. n /\ EndsAt(b, i, l) /\ ~Bad(b[i])
  /\ \A k \in 1 .. i - 1 : k \notin Stops(b, n)

LEMMA HeaderStops ==
  ASSUME NEW b \in Seq(Nat), NEW n \in Nat, n <= Len(b), NEW l, l = HeaderLen(b, n), l > 0
  PROVE  \E i : HeaderEndsAt(b, n, i, l)
<1>1. PICK i : i = Min(Stops(b, n)) OBVIOUS
<1>2. l = IF Stops(b, n) = {} THEN 0
          ELSE IF Bad(b[i]) THEN -1
          ELSE IF i + 1 <= n /\ b[i] = LF /\ b[i + 1] = LF THEN i + 1 ELSE i + 3
  BY <1>1, HeaderLenIs, Zenon
<1>3. Stops(b, n) # {} /\ ~Bad(b[i])
  <2>1. ~(0 > 0) /\ ~(-1 > 0) OBVIOUS
  <2> QED BY <1>2, <2>1
<1>4. i \in Stops(b, n) /\ \A x \in Stops(b, n) : i <= x
  <2>1. Stops(b, n) \in SUBSET Nat BY DEF Stops
  <2> QED BY <1>1, <1>3, <2>1, SmallestOf
<1>5. i \in 1 .. n /\ ((i + 1 <= n /\ Two(b, i)) \/ (i + 3 <= n /\ Four(b, i))) BY <1>3, <1>4, StopsAre
<1>6. ~(Two(b, i) /\ Four(b, i)) BY DEF Two, Four, CR, LF
<1>7. l \in 1 .. n /\ EndsAt(b, i, l)
  <2>1. CASE i + 1 <= n /\ Two(b, i)
    <3>1. l = i + 1 BY <1>2, <1>3, <2>1 DEF Two
    <3> QED BY <1>5, <2>1, <3>1 DEF EndsAt
  <2>2. CASE ~(i + 1 <= n /\ Two(b, i))
    <3>1. l = i + 3 BY <1>2, <1>3, <2>2 DEF Two
    <3> QED BY <1>5, <2>2, <3>1 DEF EndsAt
  <2> QED BY <2>1, <2>2
<1>8. \A k \in 1 .. i - 1 : k \notin Stops(b, n) BY <1>4, <1>5
<1> QED BY <1>3, <1>5, <1>7, <1>8, Zenon DEF HeaderEndsAt

LEMMA HeaderOfPart ==
  ASSUME NEW s \in Seq(Nat), NEW b, Agrees(b, s, Len(s)), NEW i, NEW l, HeaderEndsAt(b, Len(s), i, l)
  PROVE  HeaderLen(s, l) = l
<1>1. Len(s) \in Nat /\ b \in Seq(Nat) /\ Len(s) <= Len(b) /\ \A k \in 1 .. Len(s) : b[k] = s[k] BY DEF Agrees
<1>2. /\ i \in 1 .. Len(s) /\ l \in 1 .. Len(s) /\ EndsAt(b, i, l) /\ ~Bad(b[i])
      /\ \A k \in 1 .. i - 1 : k \notin Stops(b, Len(s))
  BY DEF HeaderEndsAt
<1>3. l \in Nat /\ i \in Nat /\ l <= Len(s) /\ i < l BY <1>2 DEF EndsAt
<1>4. \A k \in 1 .. l : s[k] = b[k] /\ (k + 1 <= l => s[k + 1] = b[k + 1]) /\ (k + 2 <= l => s[k + 2] = b[k + 2])
                        /\ (k + 3 <= l => s[k + 3] = b[k + 3])
  <2>1. ASSUME NEW k \in 1 .. l
        PROVE  k \in 1 .. Len(s) /\ (k + 1 <= l => k + 1 \in 1 .. Len(s)) /\ (k + 2 <= l => k + 2 \in 1 .. Len(s))
               /\ (k + 3 <= l => k + 3 \in 1 .. Len(s))
    BY ONLY <1>1, <1>3, k \in 1 .. l
  <2> QED BY <1>1, <2>1
<1>5. EndsAt(s, i, l) /\ ~Bad(s[i])
  <2>1. i \in 1 .. l BY ONLY <1>2, <1>3
  <2>2. s[i] = b[i] /\ (i + 1 <= l => s[i + 1] = b[i + 1]) /\ (i + 2 <= l => s[i + 2] = b[i + 2])
        /\ (i + 3 <= l => s[i + 3] = b[i + 3])
    BY <1>4, <2>1, Zenon
  <2>3. CASE Two(b, i) /\ l = i + 1
    <3>1. i + 1 <= l BY ONLY <1>3, <2>3
    <3> QED BY ONLY <1>2, <2>2, <2>3, <3>1, Zenon DEF EndsAt, Two
  <2>4. CASE Four(b, i) /\ l = i + 3
    <3>1. i + 1 <= l /\ i + 2 <= l /\ i + 3 <= l BY ONLY <1>3, <2>4
    <3> QED BY ONLY <1>2, <2>2, <2>4, <3>1, Zenon DEF EndsAt, Four
  <2> QED BY <1>2, <2>3, <2>4, Zenon DEF EndsAt
<1>6. i \in Stops(s, l)
  <2>1. i \in 1 .. l /\ ((i + 1 <= l /\ Two(s, i)) \/ (i + 3 <= l /\ Four(s, i))) BY <1>2, <1>3, <1>5 DEF EndsAt
  <2> QED BY <1>3, <2>1, StopsAre
<1>7. ASSUME NEW k \in 1 .. i - 1 PROVE k \notin Stops(s, l)
  <2>1. SUFFICES ASSUME k \in Stops(s, l) PROVE FALSE OBVIOUS
  <2>2. k \in 1 .. l /\ (Bad(s[k]) \/ (k + 1 <= l /\ Two(s, k)) \/ (k + 3 <= l /\ Four(s, k))) BY <1>3, <2>1, StopsAre
  <2>3. Bad(b[k]) \/ (k + 1 <= l /\ Two(b, k)) \/ (k + 3 <= l /\ Four(b, k))
    <3>1. k \in Nat /\ k \in 1 .. l BY <2>2
    <3>2. s[k] = b[k] /\ (k + 1 <= l => s[k + 1] = b[k + 1]) /\ (k + 2 <= l => s[k + 2] = b[k + 2])
          /\ (k + 3 <= l => s[k + 3] = b[k + 3])
      BY <1>4, <3>1, Zenon
    <3>3. CASE Bad(s[k]) BY <3>2, <3>3, Zenon
    <3>4. CASE k + 1 <= l /\ Two(s, k) BY ONLY <3>2, <3>4, Zenon DEF Two
    <3>5. CASE k + 3 <= l /\ Four(s, k)
      <4>1. k + 1 <= l /\ k + 2 <= l BY ONLY <1>3, <3>1, <3>5
      <4> QED BY ONLY <3>2, <3>5, <4>1, Zenon DEF Four
    <3> QED BY <2>2, <3>3, <3>4, <3>5, Zenon
  <2>4. k \in 1 .. Len(s) /\ (k + 1 <= l => k + 1 <= Len(s)) /\ (k + 3 <= l => k + 3 <= Len(s))
    <3>1. k \in 1 .. l BY <2>2
    <3>2. Len(s) \in Nat BY <1>1
    <3> QED BY ONLY <1>3, <3>1, <3>2
  <2>5. k \in Stops(b, Len(s)) BY <1>1, <2>3, <2>4, StopsAre
  <2> QED BY <1>2, <2>5
<1>8. Min(Stops(s, l)) = i
  <2>1. Stops(s, l) \in SUBSET Nat BY DEF Stops
  <2>2. \A x \in Stops(s, l) : i <= x
    <3>1. ASSUME NEW x \in Stops(s, l) PROVE i <= x
      <4>1. x \in Nat /\ 1 <= x BY DEF Stops
      <4>2. x \notin 1 .. i - 1 BY <1>7
      <4> QED BY <1>3, <4>1, <4>2
    <3> QED BY <3>1
  <2> QED BY <1>6, <2>1, <2>2, SmallestIs
<1>9. HeaderLen(s, l) = IF i + 1 <= l /\ s[i] = LF /\ s[i + 1] = LF THEN i + 1 ELSE i + 3
  BY <1>3, <1>5, <1>6, <1>8, HeaderLenIs, Zenon
<1>10. ~(Two(s, i) /\ Four(s, i)) BY DEF Two, Four, CR, LF
<1>11. CASE Two(s, i)
  <2>1. l = i + 1 BY <1>5, <1>10, <1>11 DEF EndsAt
  <2> QED BY <1>3, <1>9, <1>11, <2>1 DEF Two
<1>12. CASE ~Two(s, i)
  <2>1. l = i + 3 BY <1>5, <1>12 DEF EndsAt
  <2> QED BY <1>9, <1>12, <2>1 DEF Two
<1> QED BY <1>11, <1>12

(* What is more than blank begins before the header ends.                  *)
LEMMA StartsBefore ==
  ASSUME NEW s \in Seq(Nat), NEW b, Agrees(b, s, Len(s)), NEW i, NEW l, HeaderEndsAt(b, Len(s), i, l), ~OnlyBlank(s)
  PROVE  StartOf(b) < i
<1>1. Len(s) \in Nat /\ b \in Seq(Nat) /\ Len(s) <= Len(b) /\ \A k \in 1 .. Len(s) : b[k] = s[k] BY DEF Agrees
<1>2. i \in 1 .. Len(s) /\ l \in 1 .. Len(s) /\ EndsAt(b, i, l) BY DEF HeaderEndsAt
<1>3. HeaderLen(s, l) = l BY HeaderOfPart
<1>4. PICK k \in 1 .. l : ~isspace(s[k]) BY <1>2, <1>3, Zenon DEF OnlyBlank
<1>5. k \in 1 .. Len(s) /\ b[k] = s[k] BY <1>1, <1>2
<1>6. \A c \in {CR, LF} : isspace(c) BY DEF CR, LF, isspace
<1>7. k < i
  <2>1. SUFFICES ASSUME k >= i PROVE FALSE BY <1>2, <1>4
  <2>2. b[k] \in {CR, LF}
    <3>1. CASE Two(b, i) /\ l = i + 1
      <4>1. k = i \/ k = i + 1 BY <1>2, <1>4, <2>1, <3>1
      <4> QED BY <3>1, <4>1 DEF Two
    <3>2. CASE Four(b, i) /\ l = i + 3
      <4>1. k = i \/ k = i + 1 \/ k = i + 2 \/ k = i + 3 BY <1>2, <1>4, <2>1, <3>2
      <4> QED BY <3>2, <4>1 DEF Four
    <3> QED BY <1>2, <3>1, <3>2 DEF EndsAt
  <2> QED BY <1>4, <1>5, <1>6, <2>2
<1>8. PICK m : m = StartOf(b) OBVIOUS
<1>9. m \in 1 .. Len(b) + 1 /\ \A j \in 1 .. m - 1 : isspace(b[j]) /\ Len(b) \in Nat BY <1>1, <1>8, StartIs
<1>10. m <= k
  <2>1. k \notin 1 .. m - 1 BY <1>4, <1>5, <1>9
  <2> QED BY <1>1, <1>4, <1>5, <1>9, <2>1
<1> QED BY <1>2, <1>4, <1>7, <1>8, <1>9, <1>10

(* What is taken apart came on this connection.                            *)
LEMMA RestEnds ==
  ASSUME NEW b \in Seq(Nat), NEW n \in Nat, n <= Len(b), NEW i, NEW l, HeaderEndsAt(b, n, i, l),
         StartOf(b) < i, RestLen(b) > 0
  PROVE  RestLen(b) \in 2 .. Len(RestOf(b)) /\ StartOf(b) + RestLen(b) - 1 <= n
<1>1. PICK m : m = StartOf(b) OBVIOUS
<1>2. PICK c : c = RestOf(b) OBVIOUS
<1>3. PICK z : z = RestLen(b) OBVIOUS
<1>4. /\ Len(b) \in Nat /\ m \in 1 .. Len(b) + 1 /\ c \in Seq(Nat) /\ Len(c) = Len(b) - m + 1
      /\ \A k \in 1 .. Len(c) : c[k] = b[m + k - 1]
  BY <1>1, <1>2, StartIs
<1>0. \A q : q \in 1 .. Len(c) => \A x : x = m + q - 1 => c[q] = b[x] BY <1>4, Zenon
<1>5. /\ i \in 1 .. n /\ l \in 1 .. n /\ EndsAt(b, i, l) /\ ~Bad(b[i])
      /\ \A k \in 1 .. i - 1 : k \notin Stops(b, n)
  BY DEF HeaderEndsAt
<1>6. PICK N \in Nat : N = Len(c)
  <2>1. Len(c) \in Nat BY ONLY <1>4
  <2> QED BY <2>1, Zenon
<1>7. PICK j : HeaderEndsAt(c, N, j, z)
  <2>1. z = HeaderLen(c, N) /\ z > 0 BY <1>2, <1>3, <1>6 DEF RestLen
  <2>2. N <= Len(c) BY <1>6
  <2> QED BY <1>4, <2>1, <2>2, HeaderStops
<1>8. /\ j \in 1 .. N /\ z \in 1 .. N /\ EndsAt(c, j, z) /\ \A k \in 1 .. j - 1 : k \notin Stops(c, N)
  BY <1>7 DEF HeaderEndsAt
<1>9. PICK p : p = m + j - 1 OBVIOUS
<1>10. p \in Nat /\ 1 <= p /\ z = (p - m + 1) + (z - j) /\ (z = j + 1 \/ z = j + 3)
  BY <1>4, <1>8, <1>9 DEF EndsAt
<1>11. (z = j + 1 /\ Two(b, p)) \/ (z = j + 3 /\ Four(b, p))
  <2>1. c[j] = b[p] BY <1>4, <1>6, <1>8, <1>9
  <2>2. CASE Two(c, j) /\ z = j + 1
    <3>1. j + 1 \in 1 .. Len(c) /\ p + 1 = m + (j + 1) - 1 BY <1>4, <1>6, <1>8, <1>9, <2>2
    <3>2. c[j + 1] = b[p + 1] BY ONLY <1>0, <3>1
    <3> QED BY <2>1, <2>2, <3>2 DEF Two
  <2>3. CASE Four(c, j) /\ z = j + 3
    <3>1. /\ j + 1 \in 1 .. Len(c) /\ p + 1 = m + (j + 1) - 1
          /\ j + 2 \in 1 .. Len(c) /\ p + 2 = m + (j + 2) - 1
          /\ j + 3 \in 1 .. Len(c) /\ p + 3 = m + (j + 3) - 1
      BY <1>4, <1>6, <1>8, <1>9, <2>3
    <3>2. c[j + 1] = b[p + 1] /\ c[j + 2] = b[p + 2] /\ c[j + 3] = b[p + 3] BY ONLY <1>0, <3>1
    <3> QED BY <2>1, <2>3, <3>2 DEF Four
  <2> QED BY <1>8, <2>2, <2>3 DEF EndsAt
<1>12. p <= i
  <2>1. PICK q : q = i - m + 1 OBVIOUS
  <2>0. /\ N \in Nat /\ N = Len(b) - m + 1 /\ Len(b) \in Nat /\ m \in Nat /\ 1 <= m /\ m < i
        /\ n \in Nat /\ i \in Nat /\ l \in Nat /\ i <= n /\ l <= n /\ n <= Len(b) /\ N = Len(c)
    <3>1. m < i /\ n <= Len(b) BY <1>1
    <3>2. Len(b) \in Nat /\ m \in Nat /\ 1 <= m /\ Len(c) = Len(b) - m + 1 BY ONLY <1>4
    <3>3. i \in Nat /\ l \in Nat /\ i <= n /\ l <= n BY ONLY <1>5, n \in Nat
    <3> QED BY ONLY <1>6, <3>1, <3>2, <3>3, n \in Nat, N \in Nat
  <2>2. q \in 1 .. N BY ONLY <2>0, <2>1
  <2>3. m + q - 1 = i BY <1>4, <1>5, <2>1
  <2>4. c[q] = b[i] BY <1>4, <1>6, <2>2, <2>3
  <2>5. q \in Stops(c, N)
    <3>1. N <= Len(c) BY <1>6
    <3>2. CASE Two(b, i) /\ l = i + 1
      <4>1. q + 1 <= N /\ q + 1 \in 1 .. Len(c) /\ i + 1 = m + (q + 1) - 1
        BY ONLY <2>0, <2>1, <2>2, <3>2
      <4>2. c[q + 1] = b[i + 1] BY ONLY <1>0, <4>1
      <4>3. Two(c, q) BY <2>4, <3>2, <4>2 DEF Two
      <4> QED BY <1>4, <2>2, <3>1, <4>1, <4>3, StopsAre
    <3>3. CASE Four(b, i) /\ l = i + 3
      <4>1. /\ q + 3 <= N
            /\ q + 1 \in 1 .. Len(c) /\ i + 1 = m + (q + 1) - 1
            /\ q + 2 \in 1 .. Len(c) /\ i + 2 = m + (q + 2) - 1
            /\ q + 3 \in 1 .. Len(c) /\ i + 3 = m + (q + 3) - 1
        BY ONLY <2>0, <2>1, <2>2, <3>3
      <4>2. c[q + 1] = b[i + 1] /\ c[q + 2] = b[i + 2] /\ c[q + 3] = b[i + 3] BY ONLY <1>0, <4>1
      <4>3. Four(c, q) BY <2>4, <3>3, <4>2 DEF Four
      <4> QED BY <1>4, <2>2, <3>1, <4>1, <4>3, StopsAre
    <3> QED BY <1>5, <3>2, <3>3 DEF EndsAt
  <2>6. q \notin 1 .. j - 1 BY <1>8, <2>5
  <2>7. j <= q BY <1>6, <1>8, <2>2, <2>6
  <2> QED BY <1>4, <1>5, <1>8, <1>9, <2>1, <2>7
<1>13. p < i => (z = j + 3 /\ Four(b, p) /\ p + 3 > n)
  <2>1. SUFFICES ASSUME p < i PROVE z = j + 3 /\ Four(b, p) /\ p + 3 > n OBVIOUS
  <2>2. p \in 1 .. i - 1 /\ p \in 1 .. n /\ p + 1 <= n BY <1>5, <1>10, <2>1
  <2>3. p \notin Stops(b, n) BY <1>5, <2>2
  <2>4. ~Two(b, p) /\ ~(p + 3 <= n /\ Four(b, p)) BY <2>2, <2>3, StopsAre
  <2> QED BY <1>10, <1>11, <2>4
<1>14. p = i
  <2>1. SUFFICES ASSUME p < i PROVE FALSE BY <1>5, <1>10, <1>12
  <2>2. Four(b, p) /\ p + 3 > n BY <1>13, <2>1
  <2>3. CASE Two(b, i) /\ l = i + 1
    <3>1. i = p + 1 /\ i + 1 = p + 2 BY <1>5, <1>10, <2>1, <2>2, <2>3
    <3> QED BY <2>2, <2>3, <3>1 DEF Two, Four, CR, LF
  <2>4. CASE Four(b, i) /\ l = i + 3 BY <1>5, <1>10, <2>1, <2>2, <2>4
  <2> QED BY <1>5, <2>3, <2>4 DEF EndsAt
<1>15. z - j = l - i
  <2>1. ~(Two(b, i) /\ Four(b, i)) BY DEF Two, Four, CR, LF
  <2>2. CASE Two(b, i)
    <3>1. z = j + 1 /\ l = i + 1 BY <1>5, <1>11, <1>14, <2>1, <2>2 DEF EndsAt
    <3> QED BY <1>5, <1>8, <3>1
  <2>3. CASE ~Two(b, i)
    <3>1. z = j + 3 /\ l = i + 3 BY <1>5, <1>11, <1>14, <2>3 DEF EndsAt
    <3> QED BY <1>5, <1>8, <3>1
  <2> QED BY <2>2, <2>3
<1>16. m + z - 1 = l BY <1>4, <1>5, <1>8, <1>9, <1>14, <1>15
<1>17. z \in 2 .. N BY <1>8, <1>10
<1> QED BY <1>1, <1>2, <1>3, <1>5, <1>6, <1>16, <1>17

(* What is still to be read of t, which ends at z, from i on.              *)
Kept(c, t, z, i) ==
  /\ c \in Seq(Nat) /\ Len(c) = Len(t) /\ c[z] = 0 /\ i \in 1 .. z - 1
  /\ \A k \in i .. z - 1 : c[k] = t[k]

(* A word from i on, and where the next begins.                            *)
WordAt(t, z, i, end, next) ==
  /\ end \in i .. z - 1 /\ next \in end + 1 .. z - 1
  /\ \A k \in i .. end - 1 : isgraph(t[k])
  /\ \A k \in end .. next - 1 : ~isgraph(t[k])
  /\ isgraph(t[next])

LEMMA SpacesAreNot ==
  /\ \A c : isspace(c) => ~isgraph(c)
  /\ ~isspace(0) /\ ~isgraph(0) /\ ~isgraph(Space)
<1>1. \A c \in {9, 10, 11, 12, 13, 32} : ~isgraph(c) BY DEF isgraph
<1> QED BY <1>1 DEF isspace, isgraph, Space

LEMMA WordFrom ==
  ASSUME NEW t \in Seq(Nat), NEW z \in 1 .. Len(t), NEW i, NEW c, Kept(c, t, z, i),
         NEW r, r = SkipWord(c, i, FALSE), r.ok
  PROVE  \E end, next : /\ WordAt(t, z, i, end, next) /\ r.at = next /\ r.word = SubSeq(t, i, end - 1)
                        /\ Kept(r.buf, t, z, next)
<1>1. /\ c \in Seq(Nat) /\ Len(c) = Len(t) /\ c[z] = 0 /\ i \in 1 .. z - 1
      /\ \A k \in i .. z - 1 : c[k] = t[k]
  BY DEF Kept
<1>2. i \in Nat /\ z \in i .. Len(c) /\ z \in Nat /\ Len(c) \in Nat BY <1>1
<1>3. PICK end : end = PastWord(c, i) OBVIOUS
<1>4. PICK next : next = PastSpaces(c, end + 1) OBVIOUS
<1>5. end \in i .. z /\ ~isgraph(c[end]) /\ \A k \in i .. end - 1 : isgraph(c[k])
  <2>1. ~isgraph(c[z]) BY <1>1, SpacesAreNot
  <2> QED BY <1>1, <1>2, <1>3, <2>1, WordEnds
<1>6. PICK after : after = Zeroed(c, end, next - 1) OBVIOUS
<1>7. r = IF c[end] # Space THEN Failed(c)
          ELSE IF ~isgraph(c[next]) THEN Failed(after)
          ELSE [ok |-> TRUE, buf |-> after, word |-> SubSeq(c, i, end - 1), at |-> next]
  <2>1. FALSE \in BOOLEAN OBVIOUS
  <2> QED BY <1>3, <1>4, <1>6, <2>1, SkipWordAre, Zenon
<1>8. c[end] = Space /\ isgraph(c[next]) /\ r = [ok |-> TRUE, buf |-> after, word |-> SubSeq(c, i, end - 1), at |-> next]
  <2>1. Failed(c).ok = FALSE /\ Failed(after).ok = FALSE BY FailedIs
  <2> QED BY <1>7, <2>1, Zenon
<1>9. end \in i .. z - 1
  <2>1. end # z BY <1>1, <1>8 DEF Space
  <2> QED BY ONLY <1>2, <1>5, <2>1
<1>10. next \in end + 1 .. z /\ \A k \in end + 1 .. next - 1 : isspace(c[k])
  <2>1. end + 1 \in Nat /\ z \in end + 1 .. Len(c) BY ONLY <1>2, <1>9
  <2>2. ~isspace(c[z]) BY <1>1, SpacesAreNot
  <2> QED BY <1>1, <1>4, <2>1, <2>2, SpacesEnd
<1>11. next \in end + 1 .. z - 1
  <2>1. next # z BY <1>1, <1>8, SpacesAreNot
  <2> QED BY ONLY <1>2, <1>9, <1>10, <2>1
<1>12. WordAt(t, z, i, end, next)
  <2>1. ASSUME NEW k \in i .. end - 1 PROVE isgraph(t[k])
    <3>1. k \in i .. z - 1 BY ONLY <1>2, <1>9, k \in i .. end - 1
    <3>2. c[k] = t[k] BY <1>1, <3>1
    <3> QED BY <1>5, <3>2
  <2>2. ASSUME NEW k \in end .. next - 1 PROVE ~isgraph(t[k])
    <3>1. k \in i .. z - 1 /\ (k = end \/ k \in end + 1 .. next - 1) BY ONLY <1>2, <1>9, <1>11, k \in end .. next - 1
    <3>2. c[k] = t[k] BY <1>1, <3>1
    <3>3. ~isgraph(c[k])
      <4>1. CASE k = end BY <1>5, <4>1
      <4>2. CASE k \in end + 1 .. next - 1 BY <1>10, <4>2, SpacesAreNot
      <4> QED BY <3>1, <4>1, <4>2
    <3> QED BY <3>2, <3>3
  <2>3. isgraph(t[next])
    <3>1. next \in i .. z - 1 BY ONLY <1>2, <1>9, <1>11
    <3>2. c[next] = t[next] BY <1>1, <3>1
    <3> QED BY <1>8, <3>2
  <2> QED BY <1>9, <1>11, <2>1, <2>2, <2>3 DEF WordAt
<1>13. SubSeq(c, i, end - 1) = SubSeq(t, i, end - 1)
  <2>1. end - 1 \in Int /\ 1 <= i /\ end - 1 <= Len(c) /\ end - 1 <= Len(t) /\ i <= (end - 1) + 1
    BY ONLY <1>1, <1>2, <1>9
  <2>2. \A k \in i .. end - 1 : c[k] = t[k]
    <3>1. \A k \in i .. end - 1 : k \in i .. z - 1 BY ONLY <1>2, <1>9
    <3> QED BY <1>1, <3>1
  <2> QED BY <1>1, <1>2, <2>1, <2>2, SamePart
<1>14. Kept(after, t, z, next)
  <2>1. after \in Seq(Nat) /\ Len(after) = Len(c) /\ \A k \in 1 .. Len(c) : after[k] = IF k \in end .. next - 1 THEN 0 ELSE c[k]
    BY <1>1, <1>6, ZeroedIs
  <2>2. z \in 1 .. Len(c) /\ z \notin end .. next - 1 BY ONLY <1>1, <1>2, <1>9, <1>11
  <2>3. after[z] = 0 BY <1>1, <2>1, <2>2
  <2>4. ASSUME NEW k \in next .. z - 1 PROVE after[k] = t[k]
    <3>1. k \in 1 .. Len(c) /\ k \notin end .. next - 1 /\ k \in i .. z - 1
      BY ONLY <1>1, <1>2, <1>9, <1>11, k \in next .. z - 1
    <3> QED BY <1>1, <2>1, <3>1
  <2>5. next \in 1 .. z - 1 BY ONLY <1>1, <1>2, <1>9, <1>11
  <2> QED BY <1>1, <2>1, <2>3, <2>4, <2>5 DEF Kept
<1>15. r.at = next /\ r.word = SubSeq(c, i, end - 1) /\ r.buf = after
  <2>1. PICK w : w = SubSeq(c, i, end - 1) OBVIOUS
  <2>2. r = Word(after, w, next) BY <1>8, <2>1, Zenon DEF Word
  <2>3. r.at = next /\ r.word = w /\ r.buf = after BY ONLY <2>2 DEF Word
  <2> QED BY <2>1, <2>3
<1> QED BY <1>12, <1>13, <1>14, <1>15

BeginsWith(w, c) == w # << >> /\ w[1] = c

LEMMA LastWord ==
  ASSUME NEW t \in Seq(Nat), NEW z \in 1 .. Len(t), NEW i, NEW c, Kept(c, t, z, i), isgraph(t[i]),
         NEW r, r = SkipWord(c, i, TRUE), r.ok
  PROVE  BeginsWith(r.word, t[i])
<1>1. /\ c \in Seq(Nat) /\ Len(c) = Len(t) /\ c[z] = 0 /\ i \in 1 .. z - 1
      /\ \A k \in i .. z - 1 : c[k] = t[k]
  BY DEF Kept
<1>2. i \in Nat /\ z \in i .. Len(c) /\ z \in Nat /\ Len(c) \in Nat BY <1>1
<1>3. PICK end : end = PastWord(c, i) OBVIOUS
<1>4. PICK next : next = PastSpaces(c, end + 1) OBVIOUS
<1>5. end \in i .. z /\ ~isgraph(c[end]) /\ \A k \in i .. end - 1 : isgraph(c[k])
  <2>1. ~isgraph(c[z]) BY <1>1, SpacesAreNot
  <2> QED BY <1>1, <1>2, <1>3, <2>1, WordEnds
<1>6. PICK after : after = Zeroed(c, end, next - 1) OBVIOUS
<1>7. r = IF c[end] \notin {CR, LF} THEN Failed(c)
          ELSE [ok |-> TRUE, buf |-> after, word |-> SubSeq(c, i, end - 1), at |-> next]
  <2>1. TRUE \in BOOLEAN OBVIOUS
  <2> QED BY <1>3, <1>4, <1>6, <2>1, SkipWordAre, Zenon
<1>8. r = [ok |-> TRUE, buf |-> after, word |-> SubSeq(c, i, end - 1), at |-> next]
  <2>1. Failed(c).ok = FALSE BY FailedIs
  <2> QED BY <1>7, <2>1, Zenon
<1>9. r.word = SubSeq(c, i, end - 1)
  <2>1. PICK w : w = SubSeq(c, i, end - 1) OBVIOUS
  <2>2. r = Word(after, w, next) BY <1>8, <2>1, Zenon DEF Word
  <2>3. r.word = w BY ONLY <2>2 DEF Word
  <2> QED BY <2>1, <2>3
<1>10. c[i] = t[i]
  <2>1. i \in i .. z - 1 BY ONLY <1>1, <1>2
  <2> QED BY <1>1, <2>1
<1>11. end \in i + 1 .. z
  <2>1. end # i BY <1>5, <1>10
  <2> QED BY ONLY <1>2, <1>5, <2>1
<1>12. PICK w : w = SubSeq(c, i, end - 1) OBVIOUS
<1>13. w \in Seq(Nat) /\ Len(w) = (end - 1) - i + 1 /\ \A k \in 1 .. (end - 1) - i + 1 : w[k] = c[i + k - 1]
  <2>1. end - 1 \in Int /\ 1 <= i /\ end - 1 <= Len(c) /\ i <= (end - 1) + 1 BY ONLY <1>1, <1>2, <1>11
  <2>2. c \in Seq(Nat) /\ i \in Nat BY <1>1, <1>2
  <2>3. PICK last \in Int : last = end - 1 BY <2>1
  <2>4. last <= Len(c) /\ i <= last + 1 /\ 1 <= i /\ w = SubSeq(c, i, last) BY <1>12, <2>1, <2>3
  <2>5. /\ SubSeq(c, i, last) \in Seq(Nat) /\ Len(SubSeq(c, i, last)) = last - i + 1 /\ last - i + 1 \in Nat
        /\ \A k \in 1 .. last - i + 1 : SubSeq(c, i, last)[k] = c[i + k - 1]
    BY <2>2, <2>4, PartIs, Zenon
  <2> QED BY <2>3, <2>4, <2>5
<1>14. 1 \in 1 .. (end - 1) - i + 1 /\ i + 1 - 1 = i /\ (end - 1) - i + 1 # 0 BY ONLY <1>2, <1>11
<1>15. w[1] = c[i] BY <1>13, <1>14
<1>16. w # << >> BY <1>13, <1>14
<1> QED BY <1>9, <1>10, <1>12, <1>15, <1>16 DEF BeginsWith

(***************************************************************************)
(* The words of a request that a handler answers are those that were sent. *)
(***************************************************************************)
LEMMA ThreeStarts ==
  ASSUME NEW N \in Nat, NEW W \in SUBSET (1 .. N), NEW q1 \in W, NEW q2 \in W, NEW q3 \in W, q1 < q2, q2 < q3,
         \A k \in W : q1 <= k /\ (k <= q1 \/ q2 <= k) /\ (k <= q2 \/ q3 <= k)
  PROVE  Cardinality(W) >= 3 /\ Nth(W, 1) = q1 /\ Nth(W, 2) = q2 /\ Nth(W, 3) = q3
<1>1. Rank(W, q1) = 1 BY RankFirst
<1>2. Rank(W, q2) = Rank(W, q1) + 1 BY RankNext
<1>3. Rank(W, q3) = Rank(W, q2) + 1 BY RankNext
<1>4. Rank(W, q2) = 2 /\ Rank(W, q3) = 3 BY ONLY <1>1, <1>2, <1>3
<1>5. Rank(W, q3) \in 1 .. Cardinality(W) /\ Cardinality(W) \in Nat BY RankIsNat
<1>6. Cardinality(W) >= 3 BY ONLY <1>4, <1>5
<1>7. Nth(W, Rank(W, q1)) = q1 /\ Nth(W, Rank(W, q2)) = q2 /\ Nth(W, Rank(W, q3)) = q3 BY NthOfRank
<1> QED BY <1>1, <1>4, <1>6, <1>7

(* Words of a part of what was sent are words of what was sent, when only  *)
(* blanks are before it.                                                   *)
IsOffset(s, t, m, z) ==
  /\ s \in Seq(Nat) /\ m \in Nat /\ 1 <= m /\ z \in Nat /\ m + z - 1 <= Len(s)
  /\ \A k \in 1 .. m - 1 : ~isgraph(s[k])
  /\ \A k \in 1 .. z - 1 : t[k] = s[m + k - 1]

LEMMA StartsAre ==
  ASSUME NEW s, NEW t, NEW m, NEW z, IsOffset(s, t, m, z),
         NEW e1, NEW n1, WordAt(t, z, 1, e1, n1), NEW e2, NEW n2, WordAt(t, z, n1, e2, n2), isgraph(t[1])
  PROVE  /\ Cardinality(WordStarts(s)) >= 3
         /\ s[Nth(WordStarts(s), 1)] = t[1] /\ s[Nth(WordStarts(s), 2)] = t[n1] /\ s[Nth(WordStarts(s), 3)] = t[n2]
<1>1. /\ s \in Seq(Nat) /\ m \in Nat /\ 1 <= m /\ z \in Nat /\ m + z - 1 <= Len(s)
      /\ \A k \in 1 .. m - 1 : ~isgraph(s[k])
      /\ \A k \in 1 .. z - 1 : t[k] = s[m + k - 1]
  BY DEF IsOffset
<1>2. /\ e1 \in 1 .. z - 1 /\ n1 \in e1 + 1 .. z - 1
      /\ \A k \in 1 .. e1 - 1 : isgraph(t[k])
      /\ \A k \in e1 .. n1 - 1 : ~isgraph(t[k])
      /\ isgraph(t[n1])
  BY DEF WordAt
<1>3. /\ e2 \in n1 .. z - 1 /\ n2 \in e2 + 1 .. z - 1
      /\ \A k \in n1 .. e2 - 1 : isgraph(t[k])
      /\ \A k \in e2 .. n2 - 1 : ~isgraph(t[k])
      /\ isgraph(t[n2])
  BY DEF WordAt
<1>4. PICK N \in Nat : N = Len(s) BY <1>1
<1>5. e1 # 1
  <2>1. 1 \in e1 .. n1 - 1 <=> e1 = 1 BY ONLY <1>1, <1>2
  <2> QED BY <1>2, <2>1
<1>6. e2 # n1
  <2>1. SUFFICES ASSUME e2 = n1 PROVE FALSE OBVIOUS
  <2>2. e2 \in Nat /\ n2 \in Nat /\ e2 + 1 <= n2 BY ONLY <1>1, <1>2, <1>3
  <2>3. e2 \in e2 .. n2 - 1 BY ONLY <2>2
  <2>4. ~isgraph(t[e2]) BY <1>3, <2>3
  <2> QED BY <1>2, <2>1, <2>4
<1>7. PICK q2, q3 : q2 = m + n1 - 1 /\ q3 = m + n2 - 1 OBVIOUS
<1>8. PICK W : W = WordStarts(s) OBVIOUS
<1>9. W \in SUBSET (1 .. N) /\ \A k : k \in W <=> k \in 1 .. N /\ isgraph(s[k]) /\ (k = 1 \/ ~isgraph(s[k - 1]))
  BY <1>4, <1>8, Zenon DEF WordStarts
<1>10. \A k : k \in 1 .. z - 1 => \A x : x = m + k - 1 => s[x] = t[k] BY <1>1, Zenon
<1>11. s[m] = t[1] /\ s[q2] = t[n1] /\ s[q3] = t[n2]
  <2>1. 1 \in 1 .. z - 1 /\ n1 \in 1 .. z - 1 /\ n2 \in 1 .. z - 1 /\ m = m + 1 - 1 BY ONLY <1>1, <1>2, <1>3
  <2> QED BY ONLY <1>7, <1>10, <2>1
<1>12. m \in W
  <2>1. m \in 1 .. N /\ (m = 1 \/ m - 1 \in 1 .. m - 1) BY ONLY <1>1, <1>2, <1>4, N \in Nat
  <2>2. m = 1 \/ ~isgraph(s[m - 1]) BY <1>1, <2>1
  <2>3. isgraph(s[m]) BY <1>11
  <2> QED BY <1>9, <2>1, <2>2, <2>3
<1>13. q2 \in W
  <2>1. q2 \in 1 .. N /\ n1 - 1 \in 1 .. z - 1 /\ q2 - 1 = m + (n1 - 1) - 1 /\ n1 - 1 \in e1 .. n1 - 1
    BY ONLY <1>1, <1>2, <1>4, <1>7, N \in Nat
  <2>2. s[q2 - 1] = t[n1 - 1] BY ONLY <1>10, <2>1
  <2>3. ~isgraph(s[q2 - 1]) BY <1>2, <2>1, <2>2
  <2>4. isgraph(s[q2]) BY <1>2, <1>11
  <2> QED BY <1>9, <2>1, <2>3, <2>4
<1>14. q3 \in W
  <2>1. q3 \in 1 .. N /\ n2 - 1 \in 1 .. z - 1 /\ q3 - 1 = m + (n2 - 1) - 1 /\ n2 - 1 \in e2 .. n2 - 1
    BY ONLY <1>1, <1>2, <1>3, <1>4, <1>7, N \in Nat
  <2>2. s[q3 - 1] = t[n2 - 1] BY ONLY <1>10, <2>1
  <2>3. ~isgraph(s[q3 - 1]) BY <1>3, <2>1, <2>2
  <2>4. isgraph(s[q3]) BY <1>3, <1>11
  <2> QED BY <1>9, <2>1, <2>3, <2>4
<1>15. m < q2 /\ q2 < q3 BY ONLY <1>1, <1>2, <1>3, <1>7
<1>16. ASSUME NEW k \in W PROVE m <= k /\ (k <= m \/ q2 <= k) /\ (k <= q2 \/ q3 <= k)
  <2>1. k \in 1 .. N /\ k \in Nat /\ isgraph(s[k]) /\ (k = 1 \/ ~isgraph(s[k - 1])) BY <1>9
  <2>2. m <= k
    <3>1. k \notin 1 .. m - 1 BY <1>1, <2>1
    <3> QED BY ONLY <1>1, <2>1, <3>1
  <2>3. PICK x : x = k - m + 1 OBVIOUS
  <2>4. m + x - 1 = k /\ (m + (x - 1) - 1 = k - 1) /\ x \in Nat /\ 1 <= x BY ONLY <1>1, <2>1, <2>2, <2>3
  <2>5. ASSUME x \in 2 .. n1 - 1 PROVE FALSE
    <3>1. CASE x \in e1 .. n1 - 1
      <4>1. x \in 1 .. z - 1 /\ k = m + x - 1 BY ONLY <1>1, <1>2, <2>4, <3>1
      <4>2. s[k] = t[x] BY ONLY <1>10, <4>1
      <4> QED BY <1>2, <2>1, <3>1, <4>2
    <3>2. CASE x \in 2 .. e1 - 1
      <4>1. x - 1 \in 1 .. z - 1 /\ k - 1 = m + (x - 1) - 1 /\ x - 1 \in 1 .. e1 - 1 /\ k # 1
        BY ONLY <1>1, <1>2, <2>1, <2>4, <3>2
      <4>2. s[k - 1] = t[x - 1] BY ONLY <1>10, <4>1
      <4> QED BY <1>2, <2>1, <4>1, <4>2
    <3>3. x \in e1 .. n1 - 1 \/ x \in 2 .. e1 - 1 BY ONLY <1>1, <1>2, <2>4, <2>5
    <3> QED BY <3>1, <3>2, <3>3
  <2>6. ASSUME x \in n1 + 1 .. n2 - 1 PROVE FALSE
    <3>1. CASE x \in e2 .. n2 - 1
      <4>1. x \in 1 .. z - 1 /\ k = m + x - 1 BY ONLY <1>1, <1>2, <1>3, <2>4, <3>1
      <4>2. s[k] = t[x] BY ONLY <1>10, <4>1
      <4> QED BY <1>3, <2>1, <3>1, <4>2
    <3>2. CASE x \in n1 + 1 .. e2 - 1
      <4>1. x - 1 \in 1 .. z - 1 /\ k - 1 = m + (x - 1) - 1 /\ x - 1 \in n1 .. e2 - 1 /\ k # 1
        BY ONLY <1>1, <1>2, <1>3, <2>1, <2>4, <3>2
      <4>2. s[k - 1] = t[x - 1] BY ONLY <1>10, <4>1
      <4> QED BY <1>3, <2>1, <4>1, <4>2
    <3>3. x \in e2 .. n2 - 1 \/ x \in n1 + 1 .. e2 - 1 BY ONLY <1>1, <1>2, <1>3, <2>4, <2>6
    <3> QED BY <3>1, <3>2, <3>3
  <2> QED BY ONLY <1>1, <1>2, <1>3, <1>7, <2>1, <2>2, <2>3, <2>4, <2>5, <2>6
<1>17. Cardinality(W) >= 3 /\ Nth(W, 1) = m /\ Nth(W, 2) = q2 /\ Nth(W, 3) = q3
  BY <1>9, <1>12, <1>13, <1>14, <1>15, <1>16, ThreeStarts
<1> QED BY <1>8, <1>11, <1>17

(* The words of a request were sent.                                       *)
WordsAreSent(s) ==
  LET starts == WordStarts(s)
      word(n) == s[Nth(starts, n)]
  IN /\ Cardinality(starts) >= 3
     /\ word(1) \in {GET, POST} /\ word(2) = URI /\ word(3) \in {HTTP10, HTTP11}

(* A request that a handler answers: its words were sent. *)
LEMMA HandledIsSent ==
  ASSUME NEW s \in Seq(Nat), \A k \in 1 .. Len(s) : s[k] \notin {47, 72, 87, 104, 119},
         NEW b, Agrees(b, s, Len(s)), HeaderLen(b, Len(s)) > 0, ~OnlyBlank(s),
         client.uri \in Seq(Nat), NEW r, r = ParseRequest(b), r.ok, Process(r).code = 200
  PROVE  WordsAreSent(s)
<1>1. Len(s) \in Nat /\ b \in Seq(Nat) /\ Len(s) <= Len(b) /\ \A k \in 1 .. Len(s) : b[k] = s[k] BY DEF Agrees
<1>2. Found(b, r) BY <1>1, ParsedIs
<1>3. /\ StartOf(b) <= Len(b) /\ RestLen(b) > 0
      /\ MethodOf(b).ok /\ MethodOf(b).word \in {<<GET>>, <<POST>>}
      /\ TargetOf(b).ok /\ VersionOf(b).ok
      /\ r.target = TargetOf(b).word /\ r.version = VersionOf(b).word
  BY <1>2, Zenon DEF Found
<1>4. PICK m : m = StartOf(b) OBVIOUS
<1>5. PICK c : c = RestOf(b) OBVIOUS
<1>6. PICK z : z = RestLen(b) OBVIOUS
<1>7. /\ Len(b) \in Nat /\ m \in 1 .. Len(b) + 1 /\ c \in Seq(Nat) /\ Len(c) = Len(b) - m + 1
      /\ \A k \in 1 .. Len(c) : c[k] = b[m + k - 1]
      /\ \A k \in 1 .. m - 1 : isspace(b[k])
  <2>1. b \in Seq(Nat) BY <1>1
  <2>2. /\ Len(b) \in Nat /\ StartOf(b) \in 1 .. Len(b) + 1
        /\ \A k \in 1 .. StartOf(b) - 1 : isspace(b[k])
        /\ RestOf(b) \in Seq(Nat) /\ Len(RestOf(b)) = Len(b) - StartOf(b) + 1
        /\ \A k \in 1 .. Len(RestOf(b)) : RestOf(b)[k] = b[StartOf(b) + k - 1]
    BY ONLY <2>1, StartIs, Zenon
  <2> QED BY ONLY <1>4, <1>5, <2>2, Zenon
<1>8. z \in 2 .. Len(c) /\ m + z - 1 <= Len(s)
  <2>1. PICK n \in Nat : n = Len(s) BY <1>1
  <2>2. PICK l : l = HeaderLen(b, n) OBVIOUS
  <2>3. l > 0 /\ n <= Len(b) BY <1>1, <2>1, <2>2
  <2>4. PICK i : HeaderEndsAt(b, n, i, l) BY <1>1, <2>2, <2>3, HeaderStops
  <2>5. StartOf(b) < i BY <2>1, <2>4, StartsBefore
  <2>6. RestLen(b) \in 2 .. Len(RestOf(b)) /\ StartOf(b) + RestLen(b) - 1 <= n BY <1>1, <1>3, <2>3, <2>4, <2>5, RestEnds
  <2> QED BY <1>4, <1>5, <1>6, <2>1, <2>6
<1>9. z \in Nat /\ 1 <= z /\ z \in 1 .. Len(c) /\ m \in Nat /\ 1 <= m BY ONLY <1>7, <1>8
<1>10. PICK t : t = Zeroed(c, z, z) OBVIOUS
<1>11. t \in Seq(Nat) /\ Len(t) = Len(c) /\ \A k \in 1 .. Len(c) : t[k] = IF k \in z .. z THEN 0 ELSE c[k]
  <2>1. c \in Seq(Nat) BY <1>7
  <2>2. PICK n \in Nat : n = z BY <1>9
  <2>3. t = Zeroed(c, n, n) BY <1>10, <2>2
  <2>4. t \in Seq(Nat) /\ Len(t) = Len(c) /\ \A k \in 1 .. Len(c) : t[k] = IF k \in n .. n THEN 0 ELSE c[k]
    BY ONLY <2>1, <2>3, n \in Nat, ZeroedIs
  <2> QED BY <2>2, <2>4
<1>12. t[z] = 0
  <2>1. z \in z .. z BY ONLY <1>9
  <2> QED BY <1>9, <1>11, <2>1
<1>13. \A k \in 1 .. z - 1 : t[k] = s[m + k - 1]
  <2>1. ASSUME NEW k \in 1 .. z - 1 PROVE t[k] = s[m + k - 1]
    <3>1. k \in 1 .. Len(c) /\ k \notin z .. z /\ m + k - 1 \in 1 .. Len(s) BY ONLY <1>1, <1>7, <1>8, <1>9, k \in 1 .. z - 1
    <3>2. t[k] = c[k] BY <1>11, <3>1
    <3>3. c[k] = b[m + k - 1] BY <1>7, <3>1
    <3>4. b[m + k - 1] = s[m + k - 1] BY <1>1, <3>1
    <3> QED BY <3>2, <3>3, <3>4
  <2> QED BY <2>1
<1>14. IsOffset(s, t, m, z)
  <2>1. ASSUME NEW k \in 1 .. m - 1 PROVE ~isgraph(s[k])
    <3>1. k \in 1 .. Len(s) BY ONLY <1>1, <1>7, <1>8, <1>9, k \in 1 .. m - 1
    <3>2. b[k] = s[k] BY <1>1, <3>1
    <3>3. isspace(b[k]) BY <1>7
    <3> QED BY <3>2, <3>3, SpacesAreNot
  <2> QED BY <1>8, <1>9, <1>13, <2>1 DEF IsOffset
<1>15. t \in Seq(Nat) /\ z \in 1 .. Len(t) BY <1>9, <1>11
<1>16. Kept(t, t, z, 1)
  <2>1. 1 \in 1 .. z - 1 BY ONLY <1>8, <1>9
  <2> QED BY <1>11, <1>12, <2>1 DEF Kept
<1>17. PICK e1, n1 : WordAt(t, z, 1, e1, n1) /\ MethodOf(b).at = n1 /\ MethodOf(b).word = SubSeq(t, 1, e1 - 1)
                     /\ Kept(MethodOf(b).buf, t, z, n1)
  <2>1. PICK x : x = [buf |-> t, at |-> 1] OBVIOUS
  <2>2. x.buf = t /\ x.at = 1 BY <2>1
  <2>3. PICK w : w = MethodOf(b) OBVIOUS
  <2>4. w = SkipWord(x.buf, x.at, FALSE) BY <1>5, <1>6, <1>10, <2>1, <2>3, Zenon DEF MethodOf, NextWord
  <2>5. w = SkipWord(t, 1, FALSE) BY <2>2, <2>4, Zenon
  <2>6. w.ok BY <1>3, <2>3
  <2>7. \E end, next : /\ WordAt(t, z, 1, end, next) /\ w.at = next /\ w.word = SubSeq(t, 1, end - 1)
                       /\ Kept(w.buf, t, z, next)
    BY ONLY <1>15, <1>16, <2>5, <2>6, WordFrom, Zenon
  <2> QED BY <2>3, <2>7, Zenon
<1>18. PICK e2, n2 : WordAt(t, z, n1, e2, n2) /\ TargetOf(b).at = n2 /\ TargetOf(b).word = SubSeq(t, n1, e2 - 1)
                     /\ Kept(TargetOf(b).buf, t, z, n2)
  <2>1. PICK w : w = TargetOf(b) OBVIOUS
  <2>2. PICK x : x = MethodOf(b).buf OBVIOUS
  <2>3. w = SkipWord(x, n1, FALSE) BY <1>17, <2>1, <2>2, Zenon DEF TargetOf, NextWord
  <2>4. w.ok /\ Kept(x, t, z, n1) BY <1>3, <1>17, <2>1, <2>2
  <2>5. \E end, next : /\ WordAt(t, z, n1, end, next) /\ w.at = next /\ w.word = SubSeq(t, n1, end - 1)
                       /\ Kept(w.buf, t, z, next)
    BY ONLY <1>15, <2>3, <2>4, WordFrom, Zenon
  <2> QED BY <2>1, <2>5, Zenon
<1>19. /\ e1 \in 1 .. z - 1 /\ n1 \in e1 + 1 .. z - 1 /\ isgraph(t[n1])
       /\ e2 \in n1 .. z - 1 /\ n2 \in e2 + 1 .. z - 1 /\ isgraph(t[n2])
       /\ \A k \in e2 .. n2 - 1 : ~isgraph(t[k])
  BY <1>17, <1>18 DEF WordAt
<1>20. VersionOf(b).word # << >> /\ VersionOf(b).word[1] = t[n2]
  <2>1. PICK w : w = VersionOf(b) OBVIOUS
  <2>2. PICK x : x = TargetOf(b).buf OBVIOUS
  <2>3. w = SkipWord(x, n2, TRUE) BY <1>18, <2>1, <2>2, Zenon DEF VersionOf, NextWord
  <2>4. w.ok /\ Kept(x, t, z, n2) BY <1>3, <1>18, <2>1, <2>2
  <2>5. BeginsWith(w.word, t[n2]) BY ONLY <1>15, <1>19, <2>3, <2>4, LastWord, Zenon
  <2> QED BY <2>1, <2>5 DEF BeginsWith
<1>21. t[1] \in {GET, POST}
  <2>1. PICK w : w = SubSeq(t, 1, e1 - 1) OBVIOUS
  <2>2. w \in {<<GET>>, <<POST>>} BY <1>3, <1>17, <2>1
  <2>3. PICK last \in Int : last = e1 - 1 /\ 1 <= 1 /\ last <= Len(t) /\ 1 <= last + 1
    <3>1. e1 - 1 \in Int /\ 1 <= 1 /\ e1 - 1 <= Len(t) /\ 1 <= (e1 - 1) + 1 BY ONLY <1>7, <1>9, <1>11, <1>19
    <3> QED BY <3>1
  <2>4. Len(SubSeq(t, 1, last)) = last - 1 + 1 /\ \A k \in 1 .. last - 1 + 1 : SubSeq(t, 1, last)[k] = t[1 + k - 1]
    <3>1. 1 \in Nat OBVIOUS
    <3> QED BY ONLY <1>15, <2>3, <3>1, last \in Int, PartIs
  <2>5. Len(w) = 1 /\ w[1] \in {GET, POST} BY <2>2
  <2>6. last = 1
    <3>1. w = SubSeq(t, 1, last) BY <2>1, <2>3
    <3>2. Len(w) = last - 1 + 1 BY <2>4, <3>1
    <3> QED BY ONLY <2>5, <3>2, last \in Int
  <2>7. w[1] = t[1] BY <2>1, <2>3, <2>4, <2>6
  <2> QED BY <2>5, <2>7
<1>22. isgraph(t[1]) BY <1>21, PlainChars
<1>23. r.version \in {<<HTTP10>>, <<HTTP11>>} BY AnswersAre, Zenon
<1>24. t[n2] \in {HTTP10, HTTP11}
  <2>1. r.version[1] \in {HTTP10, HTTP11} BY <1>23
  <2> QED BY <1>3, <1>20, <2>1
<1>25. t[n1] = URI
  <2>1. PICK w : w = SubSeq(t, n1, e2 - 1) OBVIOUS
  <2>2. n1 < e2
    <3>1. SUFFICES ASSUME n1 = e2 PROVE FALSE BY <1>9, <1>19
    <3>2. e2 \in e2 .. n2 - 1 BY ONLY <1>9, <1>19
    <3> QED BY <1>19, <3>1, <3>2
  <2>3. PICK last \in Int : last = e2 - 1 /\ n1 \in Nat /\ 1 <= n1 /\ last <= Len(t) /\ n1 <= last
    <3>1. e2 - 1 \in Int /\ n1 \in Nat /\ 1 <= n1 /\ e2 - 1 <= Len(t) /\ n1 <= e2 - 1
      BY ONLY <1>7, <1>9, <1>11, <1>19, <2>2
    <3> QED BY <3>1
  <2>4. /\ SubSeq(t, n1, last) \in Seq(Nat) /\ Len(SubSeq(t, n1, last)) = last - n1 + 1
        /\ \A k \in 1 .. last - n1 + 1 : SubSeq(t, n1, last)[k] = t[n1 + k - 1]
    <3>1. n1 <= last + 1 BY ONLY <2>3, last \in Int
    <3> QED BY ONLY <1>15, <2>3, <3>1, last \in Int, PartIs
  <2>5. 1 \in 1 .. last - n1 + 1 /\ n1 + 1 - 1 = n1 /\ last - n1 + 1 # 0 BY ONLY <2>3, last \in Int
  <2>6. w \in Seq(Nat) /\ w # << >> /\ w[1] = t[n1]
    <3>1. w = SubSeq(t, n1, last) BY <2>1, <2>3
    <3>2. w[1] = t[n1] BY <2>4, <2>5, <3>1
    <3>3. Len(w) # 0 /\ w \in Seq(Nat) BY <2>4, <2>5, <3>1
    <3> QED BY <3>2, <3>3
  <2>7. t[n1] \notin {47, 72, 87, 104, 119}
    <3>1. n1 \in 1 .. z - 1 /\ m + n1 - 1 \in 1 .. Len(s) BY ONLY <1>1, <1>7, <1>8, <1>9, <1>19
    <3>2. t[n1] = s[m + n1 - 1] BY <1>13, <3>1
    <3> QED BY <3>1, <3>2
  <2>8. r.target = w BY <1>3, <1>18, <2>1
  <2>9. r.target[1] = URI BY <2>6, <2>7, <2>8, TargetIsUri
  <2> QED BY <2>6, <2>8, <2>9
<1>26. /\ Cardinality(WordStarts(s)) >= 3
       /\ s[Nth(WordStarts(s), 1)] = t[1] /\ s[Nth(WordStarts(s), 2)] = t[n1] /\ s[Nth(WordStarts(s), 3)] = t[n2]
  BY <1>14, <1>17, <1>18, <1>22, StartsAre
<1> QED BY <1>21, <1>24, <1>25, <1>26, Zenon DEF WordsAreSent

(***************************************************************************)
(* What every connection of a worker keeps.                                *)
(***************************************************************************)
(* The answer to what is in the buffer when the header is there.           *)
AnswerOf(b) ==
  LET request == ParseRequest(b) IN IF request.ok THEN Process(request) ELSE Error(400)

(* A buffer that begins with what came on this connection.                 *)
HasRead(b) == Len(b) = buf_size /\ Agrees(b, client.stream, data_len)
HadNone(b) == HeaderLen(b, data_len) <= 0 /\ answer.code # 200
HadOne(b) == HeaderLen(b, data_len) > 0 /\ answer = AnswerOf(b)

AnsweredWell ==
  /\ ReadInTime
  /\ buf \in Seq(Nat) /\ Len(buf) = buf_size
  /\ data_len <= Len(client.stream)
  /\ pc = "reading" => HasRead(buf) /\ HeaderLen(buf, data_len) = 0
  /\ pc = "done" => \E b : HasRead(b) /\ (HadNone(b) \/ HadOne(b))

LEMMA SameClient ==
  ASSUME NEW r, client' = client
  PROVE  Process(r)' = Process(r)
<1>1. Text(r.target)' = Text(r.target) BY Zenon DEF Text
<1> QED BY <1>1, Zenon DEF Process

LEMMA SameAnswer ==
  ASSUME NEW b, client' = client
  PROVE  AnswerOf(b)' = AnswerOf(b)
<1>1. PICK r : r = ParseRequest(b) OBVIOUS
<1>2. AnswerOf(b) = IF r.ok THEN Process(r) ELSE Error(400) BY <1>1, Zenon DEF AnswerOf
<1>3. AnswerOf(b)' = IF r.ok THEN Process(r)' ELSE Error(400) BY <1>1, Zenon DEF AnswerOf
<1>4. Process(r)' = Process(r) BY SameClient
<1> QED BY <1>2, <1>3, <1>4, Zenon

LEMMA NothingThere ==
  ASSUME NEW b
  PROVE  HeaderLen(b, 0) = 0
<1>1. Stops(b, 0) = {} BY DEF Stops
<1>2. 0 \in Nat OBVIOUS
<1> QED BY <1>1, <1>2, HeaderLenIs, Zenon

LEMMA AnsweredInit == RequestInit => AnsweredWell
<1> SUFFICES ASSUME RequestInit PROVE AnsweredWell OBVIOUS
<1>1. ReadInTime BY ReadInTimeInit
<1>2. buf_size \in Nat BY BufferAssumption
<1>3. buf \in Seq(Nat) /\ Len(buf) = buf_size
  <2>1. buf = [i \in 1 .. buf_size |-> 0] BY DEF RequestInit
  <2>2. buf \in [1 .. buf_size -> Nat] BY <2>1
  <2> QED BY <1>2, <2>2
<1>4. data_len = 0 /\ pc = "reading" BY DEF RequestInit
<1>5. Len(client.stream) \in Nat BY <1>1, ClientsSend DEF ReadInTime
<1>6. HasRead(buf)
  <2>1. 0 <= Len(buf) /\ \A k \in 1 .. 0 : buf[k] = client.stream[k] BY <1>2, <1>3
  <2> QED BY <1>3, <1>4, <2>1 DEF HasRead, Agrees
<1>7. HeaderLen(buf, data_len) = 0 BY <1>4, NothingThere
<1> QED BY <1>1, <1>3, <1>4, <1>5, <1>6, <1>7 DEF AnsweredWell

(* When the worker gives up on what it has, no handler answers.            *)
LEMMA GivesUp ==
  ASSUME ReadInTime', buf' \in Seq(Nat), Len(buf') = buf_size, data_len' <= Len(client'.stream),
         HasRead(buf)', HeaderLen(buf', data_len') <= 0, GiveUpReading
  PROVE  AnsweredWell'
<1>1. pc' = "done" /\ answer' = NoMessage BY DEF GiveUpReading
<1>2. answer'.code # 200
  <2>1. answer' = Error(400) \/ answer' = Closed BY <1>1 DEF NoMessage
  <2>2. Error(400).code = 400 /\ Closed.code = 0 BY DEF Error, Closed, Answer
  <2>3. 400 # 200 /\ 0 # 200 OBVIOUS
  <2> QED BY <2>1, <2>2, <2>3
<1>3. HadNone(buf)' BY <1>2 DEF HadNone
<1> QED BY <1>1, <1>3 DEF AnsweredWell

LEMMA GoesOnReading ==
  ASSUME ReadInTime', buf' \in Seq(Nat), Len(buf') = buf_size, data_len' <= Len(client'.stream),
         HasRead(buf)', HeaderLen(buf', data_len') = 0, pc = "reading", GoOn
  PROVE  AnsweredWell'
<1>1. CASE LastedTooLong
  <2>1. GiveUpReading BY <1>1 DEF GoOn
  <2>2. HeaderLen(buf', data_len') <= 0 OBVIOUS
  <2> QED BY <2>1, <2>2, GivesUp
<1>2. CASE ~LastedTooLong
  <2>1. pc' = "reading" BY <1>2 DEF GoOn
  <2> QED BY <2>1 DEF AnsweredWell
<1> QED BY <1>1, <1>2

LEMMA AnsweredReceive ==
  ASSUME AnsweredWell, Receive PROVE AnsweredWell'
<1>1. /\ ReadInTime /\ buf \in Seq(Nat) /\ Len(buf) = buf_size /\ data_len <= Len(client.stream)
      /\ pc = "reading" /\ HasRead(buf) /\ HeaderLen(buf, data_len) = 0
  BY DEF AnsweredWell, Receive
<1>2. ReadInTime' BY <1>1, ReadInTimeReceive
<1> DEFINE sent == Min({Len(client.stream), buf_size})
<1>3. buf_size \in Nat /\ Len(client.stream) \in Nat /\ client.stream \in Seq(Nat) /\ data_len \in Nat
  <2>1. buf_size \in Nat BY BufferAssumption
  <2>2. PICK v \in Visits : client \in Range(v) BY <1>1 DEF ReadInTime, Clients
  <2>3. client.stream \in Seq(Nat) BY <2>2, VisitsAssumption
  <2>4. data_len \in Nat BY <1>1 DEF ReadInTime
  <2> QED BY <2>1, <2>3, <2>4
<1>4. sent \in Nat /\ sent <= buf_size /\ sent <= Len(client.stream)
  <2>1. {Len(client.stream), buf_size} \in SUBSET Nat BY <1>3
  <2> QED BY <2>1, SmallestOf
<1> DEFINE b(n) == [i \in 1 .. buf_size |->
                      IF i \in data_len + 1 .. data_len + n THEN client.stream[i] ELSE buf[i]]
           len(n) == Received(b(n), data_len + n)
<1>5. PICK n \in 1 .. sent - data_len : \E wait \in 0 .. Timeout :
        /\ data_len' = data_len + n /\ now' = now + wait
        /\ CASE len(n) > 0 -> Finish(b(n))
             [] len(n) = 0 -> buf' = b(n) /\ GoOn
             [] len(n) < 0 -> buf' = b(n) /\ GiveUpReading
  BY Zenon DEF Receive
<1>6. PICK c : c = b(n) OBVIOUS
<1>7. PICK m : m = data_len + n OBVIOUS
<1>8. PICK l : l = HeaderLen(c, m) OBVIOUS
<1>9. l = len(n) BY <1>6, <1>7, <1>8, Zenon DEF Received
<1>10. /\ data_len' = m
       /\ CASE l > 0 -> Finish(c)
            [] l = 0 -> buf' = c /\ GoOn
            [] l < 0 -> buf' = c /\ GiveUpReading
  <2> HIDE DEF b, len
  <2> QED BY <1>5, <1>6, <1>7, <1>9, Zenon
<1>11. n \in Nat /\ m \in Nat /\ m <= buf_size /\ m <= Len(client.stream) BY ONLY <1>3, <1>4, <1>7, n \in 1 .. sent - data_len
<1>12. c \in Seq(Nat) /\ Len(c) = buf_size /\ \A k \in 1 .. m : c[k] = client.stream[k]
  <2>1. \A k \in 1 .. buf_size : c[k] = IF k \in data_len + 1 .. data_len + n THEN client.stream[k] ELSE buf[k]
    BY <1>6
  <2>2. ASSUME NEW k \in 1 .. buf_size
        PROVE (IF k \in data_len + 1 .. data_len + n THEN client.stream[k] ELSE buf[k]) \in Nat
    <3>1. CASE k \in data_len + 1 .. data_len + n
      <4>1. k \in 1 .. Len(client.stream) BY ONLY <1>3, <1>7, <1>11, <3>1
      <4>2. client.stream[k] \in Nat BY <1>3, <4>1
      <4> QED BY <3>1, <4>2
    <3>2. CASE k \notin data_len + 1 .. data_len + n
      <4>1. k \in 1 .. Len(buf) BY <1>1
      <4>2. buf[k] \in Nat BY <1>1, <4>1
      <4> QED BY <3>2, <4>2
    <3> QED BY <3>1, <3>2
  <2>3. c \in [1 .. buf_size -> Nat] BY <1>6, <2>2
  <2>4. c \in Seq(Nat) /\ Len(c) = buf_size BY ONLY <1>3, <2>3
  <2>5. \A k \in 1 .. data_len : buf[k] = client.stream[k] BY <1>1 DEF HasRead, Agrees
  <2>6. ASSUME NEW k \in 1 .. m PROVE c[k] = client.stream[k]
    <3>1. k \in 1 .. buf_size /\ (k \in data_len + 1 .. data_len + n \/ k \in 1 .. data_len)
      BY ONLY <1>3, <1>7, <1>11, k \in 1 .. m
    <3> QED BY <2>1, <2>5, <3>1
  <2> QED BY <2>4, <2>6
<1>13. client' = client
  <2>1. l \in Int BY <1>8, <1>11, HeaderLenIsInt
  <2>2. l > 0 \/ l = 0 \/ l < 0 BY <2>1
  <2>3. ~(l > 0 /\ l = 0) /\ ~(l > 0 /\ l < 0) /\ ~(l = 0 /\ l < 0) BY <2>1
  <2>4. Finish(c) \/ GoOn \/ GiveUpReading BY <1>10, <2>2, <2>3, Zenon
  <2> QED BY <2>4 DEF Finish, GoOn, GiveUpReading
<1>14. HasRead(c)' BY <1>3, <1>10, <1>11, <1>12, <1>13 DEF HasRead, Agrees
<1>15. data_len' <= Len(client'.stream) BY <1>10, <1>11, <1>13
<1>16. l \in Int BY <1>8, <1>11, HeaderLenIsInt
<1>17. CASE l > 0
  <2>1. Finish(c)
    <3>1. ~(l = 0) /\ ~(l < 0) BY <1>16, <1>17
    <3> QED BY <1>10, <1>17, <3>1, Zenon
  <2>2. PICK r : r = ParseRequest(c) OBVIOUS
  <2>3. pc' = "done" /\ buf' = r.buf /\ answer' = AnswerOf(c)
    BY <2>1, <2>2, Zenon DEF Finish, AnswerOf
  <2>4. buf' \in Seq(Nat) /\ Len(buf') = buf_size BY <1>12, <2>2, <2>3, ParsedIs DEF IsBuffer
  <2>5. answer' = AnswerOf(c)' BY <1>13, <2>3, SameAnswer, Zenon
  <2>6. HadOne(c)' BY <1>8, <1>10, <1>17, <2>5, Zenon DEF HadOne
  <2> QED BY <1>2, <1>14, <1>15, <2>3, <2>4, <2>6 DEF AnsweredWell
<1>18. CASE l = 0
  <2>1. buf' = c /\ GoOn
    <3>1. ~(l > 0) /\ ~(l < 0) BY <1>18
    <3> QED BY <1>10, <1>18, <3>1, Zenon
  <2>2. HasRead(buf)' BY <1>14, <2>1 DEF HasRead
  <2>3. HeaderLen(buf', data_len') = 0 BY <1>8, <1>10, <1>18, <2>1
  <2> QED BY <1>1, <1>2, <1>12, <1>15, <2>1, <2>2, <2>3, GoesOnReading
<1>19. CASE l < 0
  <2>1. buf' = c /\ GiveUpReading
    <3>1. ~(l > 0) /\ ~(l = 0) BY <1>16, <1>19
    <3> QED BY <1>10, <1>19, <3>1, Zenon
  <2>2. HasRead(buf)' BY <1>14, <2>1 DEF HasRead
  <2>3. HeaderLen(buf', data_len') <= 0 BY <1>8, <1>10, <1>16, <1>19, <2>1
  <2> QED BY <1>2, <1>12, <1>15, <2>1, <2>2, <2>3, GivesUp
<1> QED BY <1>16, <1>17, <1>18, <1>19

LEMMA AnsweredStep == AnsweredWell /\ [RequestNext]_requestVars => AnsweredWell'
<1> SUFFICES ASSUME AnsweredWell, [RequestNext]_requestVars PROVE AnsweredWell'
  OBVIOUS
<1>1. ReadInTime /\ buf \in Seq(Nat) /\ Len(buf) = buf_size /\ data_len <= Len(client.stream) BY DEF AnsweredWell
<1>2. ReadInTime' BY <1>1, ReadInTimeStep
<1>3. CASE Receive BY <1>3, AnsweredReceive
<1>4. CASE Silence
  <2>1. /\ pc = "reading" /\ UNCHANGED <<buf, data_len>> /\ GoOn /\ client' = client
        /\ HasRead(buf) /\ HeaderLen(buf, data_len) = 0
    BY <1>4 DEF Silence, GoOn, GiveUpReading, AnsweredWell
  <2>2. HasRead(buf)' /\ HeaderLen(buf', data_len') = 0 BY <2>1 DEF HasRead
  <2> QED BY <1>1, <1>2, <2>1, <2>2, GoesOnReading
<1>5. CASE StopReading
  <2>1. /\ pc = "reading" /\ UNCHANGED <<buf, data_len>> /\ GiveUpReading /\ client' = client
        /\ HasRead(buf) /\ HeaderLen(buf, data_len) = 0
    BY <1>5 DEF StopReading, GiveUpReading, AnsweredWell
  <2>2. HasRead(buf)' /\ HeaderLen(buf', data_len') <= 0
    <3>1. HasRead(buf)' /\ HeaderLen(buf', data_len') = 0 BY <2>1 DEF HasRead
    <3> QED BY <3>1
  <2> QED BY <1>1, <1>2, <2>1, <2>2, GivesUp
<1>6. CASE NextConnection
  <2>1. pc' = "reading" /\ data_len' = 0 /\ buf' = buf BY <1>6 DEF NextConnection
  <2>2. Len(client'.stream) \in Nat BY <1>2, ClientsSend DEF ReadInTime
  <2>3. HasRead(buf)'
    <3>1. 0 <= Len(buf) /\ \A k \in 1 .. 0 : buf[k] = client'.stream[k] BY <1>1
    <3> QED BY <1>1, <2>1, <3>1 DEF HasRead, Agrees
  <2>4. HeaderLen(buf, 0) = 0 BY NothingThere
  <2> QED BY <1>1, <1>2, <2>1, <2>2, <2>3, <2>4 DEF AnsweredWell
<1>7. CASE UNCHANGED requestVars
  <2>1. UNCHANGED <<pc, client, buf, data_len, answer>> BY <1>7 DEF requestVars
  <2>2. \A b : (HasRead(b)' <=> HasRead(b)) /\ (HadNone(b)' <=> HadNone(b)) BY <2>1 DEF HasRead, HadNone
  <2>3. \A b : HadOne(b)' <=> HadOne(b)
    <3>1. ASSUME NEW b PROVE HadOne(b)' <=> HadOne(b)
      <4>1. AnswerOf(b)' = AnswerOf(b) BY <2>1, SameAnswer
      <4> QED BY <2>1, <4>1, Zenon DEF HadOne
    <3> QED BY <3>1
  <2> QED BY <1>1, <1>2, <2>1, <2>2, <2>3 DEF AnsweredWell
<1> QED BY <1>3, <1>4, <1>5, <1>6, <1>7 DEF RequestNext

LEMMA AnsweredIsEnough == AnsweredWell => AnsweredAsSent
<1> SUFFICES ASSUME AnsweredWell, pc = "done", ~OnlyBlank(Own)
             PROVE  /\ IsRfc(Own) => answer = Process(RfcRequest(Own))
                    /\ answer.code = 200 => WordsAreSent(Own)
  BY Zenon DEF AnsweredAsSent, WordsAreSent
<1>1. PICK b : HasRead(b) /\ (HadNone(b) \/ HadOne(b)) BY DEF AnsweredWell
<1>2. /\ client \in Clients /\ data_len \in Nat /\ data_len <= Len(client.stream) BY DEF AnsweredWell, ReadInTime
<1>3. PICK v \in Visits : client \in Range(v) BY <1>2 DEF Clients
<1>4. client.stream \in Seq(Nat) /\ Len(client.stream) \in Nat
  <2>1. client.stream \in Seq(Nat) BY <1>3, VisitsAssumption
  <2> QED BY <2>1
<1>5. client.uri \in Seq(Nat) /\ \A k \in 1 .. Len(client.stream) : client.stream[k] \notin {47, 72, 87, 104, 119}
  <2>1. client.uri \in Seq(Nat) /\ Range(client.stream) \cap {47, 72, 87, 104, 119} = {} BY <1>3, UrisAssumption
  <2>2. \A k \in 1 .. Len(client.stream) : client.stream[k] \in Range(client.stream) BY <1>4 DEF Range
  <2> QED BY <2>1, <2>2
<1>6. PICK s : s = Own OBVIOUS
<1>7. s \in Seq(Nat) /\ Len(s) = data_len /\ \A k \in 1 .. data_len : s[k] = client.stream[k]
  <2>1. PICK t : t = client.stream OBVIOUS
  <2>2. s = SubSeq(t, 1, data_len) /\ t \in Seq(Nat) /\ data_len <= Len(t) BY <1>2, <1>4, <1>6, <2>1 DEF Own
  <2>3. 1 \in Nat /\ data_len \in Int /\ 1 <= 1 /\ 1 <= data_len + 1 /\ data_len - 1 + 1 = data_len BY ONLY <1>2
  <2>4. s \in Seq(Nat) /\ Len(s) = data_len - 1 + 1 /\ \A k \in 1 .. data_len - 1 + 1 : s[k] = t[1 + k - 1]
    BY ONLY <2>2, <2>3, PartIs
  <2>5. \A k \in 1 .. data_len : 1 + k - 1 = k BY ONLY <1>2
  <2> QED BY <2>1, <2>3, <2>4, <2>5
<1>8. Len(b) = buf_size /\ b \in Seq(Nat) /\ data_len <= Len(b) /\ \A k \in 1 .. data_len : b[k] = client.stream[k]
  BY <1>1 DEF HasRead, Agrees
<1>9. Agrees(b, s, Len(s)) BY <1>7, <1>8 DEF Agrees
<1>10. PICK r : r = ParseRequest(b) OBVIOUS
<1>11. AnswerOf(b) = IF r.ok THEN Process(r) ELSE Error(400) BY <1>10, Zenon DEF AnswerOf
<1>12. ASSUME IsRfc(s) PROVE answer = Process(RfcRequest(s))
  <2>1. PICK e : e = Min(Ends(s)) OBVIOUS
  <2>2. e \in Nat /\ e + 3 <= Len(s) BY <1>7, <1>12, <2>1, RequestLine
  <2>3. Agrees(b, s, e + 3)
    <3>1. e + 3 <= Len(b) BY ONLY <1>2, <1>4, <1>7, <1>8, <2>2
    <3>2. \A k \in 1 .. e + 3 : k \in 1 .. Len(s) BY ONLY <1>2, <1>7, <2>2
    <3> QED BY <1>7, <1>8, <3>1, <3>2 DEF Agrees
  <2>4. HeaderLen(b, data_len) = e + 3
    <3>1. PICK n \in Nat : n = data_len BY <1>2
    <3>2. n <= Len(b) /\ \A k \in 1 .. e + 3 : k <= n => b[k] = s[k]
      <4>1. \A k \in 1 .. e + 3 : b[k] = s[k] BY <2>3 DEF Agrees
      <4> QED BY <1>8, <3>1, <4>1
    <3>3. HeaderLen(b, n) = IF e + 3 <= n THEN e + 3 ELSE 0 BY <1>7, <1>8, <1>12, <2>1, <3>2, HeaderFound
    <3> QED BY <1>7, <2>2, <3>1, <3>3
  <2>5. ~HadNone(b)
    <3>1. ~(e + 3 <= 0) BY ONLY <2>2
    <3> QED BY <2>4, <3>1 DEF HadNone
  <2>6. answer = AnswerOf(b) BY <1>1, <2>5 DEF HadOne
  <2>7. SaysWhatIsSent(s, r) BY <1>7, <1>10, <1>12, <2>1, <2>3, WellFormedParsed
  <2>8. r.ok = TRUE BY <2>7, Zenon DEF SaysWhatIsSent
  <2>9. Process(r) = Process(RfcRequest(s)) BY <1>7, <1>12, <2>7, SentIs
  <2> QED BY <1>11, <2>6, <2>8, <2>9, Zenon
<1>13. ASSUME answer.code = 200 PROVE WordsAreSent(s)
  <2>1. ~HadNone(b) BY <1>13 DEF HadNone
  <2>2. HeaderLen(b, data_len) > 0 /\ answer = AnswerOf(b) BY <1>1, <2>1 DEF HadOne
  <2>3. Error(400).code # 200
    <3>1. Error(400).code = 400 BY DEF Error, Answer
    <3>2. 400 # 200 OBVIOUS
    <3> QED BY <3>1, <3>2
  <2>4. r.ok /\ Process(r).code = 200 BY <1>11, <1>13, <2>2, <2>3, Zenon
  <2>5. \A k \in 1 .. Len(s) : s[k] \notin {47, 72, 87, 104, 119}
    <3>1. \A k \in 1 .. data_len : k \in 1 .. Len(client.stream) BY ONLY <1>2, <1>4
    <3> QED BY <1>5, <1>7, <3>1
  <2>6. HeaderLen(b, Len(s)) > 0 /\ ~OnlyBlank(s) BY <1>6, <1>7, <2>2
  <2> QED BY ONLY <1>5, <1>7, <1>9, <1>10, <2>4, <2>5, <2>6, HandledIsSent
<1> QED BY <1>6, <1>12, <1>13

(* get_request, parse_http_request: what is answered is what was sent, not *)
(* how it was cut into pieces nor what the worker read before.  A request  *)
(* that is well formed is answered for what it says once its header is     *)
(* there, for the first MaxHeaders fields of it; whoever gets a handler's  *)
(* answer sent the words of a request, unless only blank lines came.       *)
THEOREM AnswersAreAsSent == RequestSpec => []AnsweredAsSent
<1>1. RequestInit => AnsweredWell BY AnsweredInit
<1>2. AnsweredWell /\ [RequestNext]_requestVars => AnsweredWell' BY AnsweredStep
<1>3. AnsweredWell => AnsweredAsSent BY AnsweredIsEnough
<1> QED BY <1>1, <1>2, <1>3, PTL DEF RequestSpec

(***************************************************************************)
(* A value that is asked for: base64 there and back. Every digit is        *)
(* decoded to what was encoded, and what the first i bytes are encoded to  *)
(* is decoded to these i bytes: what was begun of a byte by one is what    *)
(* the next digit goes on with.                                            *)
(***************************************************************************)
(* What is written in base64: its digits, the padding, the ends of lines.  *)
Digits == (48 .. 57) \cup (65 .. 90) \cup (97 .. 122) \cup {45, 95}
Written == Digits \cup {10, 61}

LEMMA DigitsAre ==
  ASSUME NEW v \in 0 .. 63
  PROVE  EncodeValue(v) \in Digits /\ DecodeValue(EncodeValue(v)) = v
<1>1. CASE v < 26
  <2>1. EncodeValue(v) = v + 65 BY <1>1 DEF EncodeValue
  <2>2. v + 65 \in Digits /\ DecodeValue(v + 65) = v BY <1>1 DEF Digits, DecodeValue, LetterValue
  <2> QED BY <2>1, <2>2
<1>2. CASE v \in 26 .. 51
  <2>1. EncodeValue(v) = v + 71 BY <1>2 DEF EncodeValue
  <2>2. v + 71 \in Digits /\ DecodeValue(v + 71) = v BY <1>2 DEF Digits, DecodeValue, LetterValue
  <2> QED BY <2>1, <2>2
<1>3. CASE v \in 52 .. 61
  <2>1. EncodeValue(v) = v - 4 BY <1>3 DEF EncodeValue
  <2>2. v - 4 \in Digits /\ DecodeValue(v - 4) = v BY <1>3 DEF Digits, DecodeValue, LetterValue
  <2> QED BY <2>1, <2>2
<1>4. CASE v = 62 BY <1>4 DEF EncodeValue, Digits, DecodeValue
<1>5. CASE v = 63 BY <1>5 DEF EncodeValue, Digits, DecodeValue
<1> QED BY <1>1, <1>2, <1>3, <1>4, <1>5

LEMMA NoDigits == DecodeValue(10) = -1 /\ DecodeValue(61) = -1
BY DEF DecodeValue, LetterValue

(* base64_decode_block goes from the first character to the last.          *)
Decodes(f, code, n) == f[0] = DecodeInit /\ \A i \in 1 .. n : f[i] = DecodeChar(f[i - 1], code[i])

LEMMA DecodesExist ==
  ASSUME NEW code, NEW N \in Nat
  PROVE  \E f : Decodes(f, code, N)
<1> DEFINE S == {n \in 0 .. N : \E f : Decodes(f, code, n)}
<1>1. 0 \in S
  <2> DEFINE f == [k \in {0} |-> DecodeInit]
  <2>1. f[0] = DecodeInit OBVIOUS
  <2> HIDE DEF f
  <2>2. Decodes(f, code, 0) BY <2>1 DEF Decodes
  <2> QED BY <2>2
<1>2. ASSUME NEW n \in 1 .. N, n - 1 \in S PROVE n \in S
  <2>1. PICK f : Decodes(f, code, n - 1) BY <1>2
  <2> DEFINE h == [k \in 0 .. n |-> IF k = n THEN DecodeChar(f[n - 1], code[n]) ELSE f[k]]
  <2>2. \A k \in 0 .. n : h[k] = IF k = n THEN DecodeChar(f[n - 1], code[n]) ELSE f[k] OBVIOUS
  <2> HIDE DEF h
  <2>3. h[0] = DecodeInit
    <3>1. h[0] = f[0] BY <2>2
    <3> QED BY <2>1, <3>1 DEF Decodes
  <2>4. ASSUME NEW k \in 1 .. n PROVE h[k] = DecodeChar(h[k - 1], code[k])
    <3>1. h[k - 1] = f[k - 1] BY <2>2
    <3>2. CASE k = n
      <4>1. h[k] = DecodeChar(f[n - 1], code[n]) BY <2>2, <3>2
      <4> QED BY <3>1, <3>2, <4>1
    <3>3. CASE k # n
      <4>1. k \in 1 .. n - 1 BY <3>3
      <4>2. f[k] = DecodeChar(f[k - 1], code[k]) BY <2>1, <4>1 DEF Decodes
      <4>3. h[k] = f[k] BY <2>2, <3>3
      <4> QED BY <3>1, <4>2, <4>3
    <3> QED BY <3>2, <3>3
  <2>5. Decodes(h, code, n) BY <2>3, <2>4 DEF Decodes
  <2> QED BY <2>5
<1>3. \A n \in 0 .. N : n \in S
  <2> HIDE DEF S
  <2> QED BY <1>1, <1>2, UpTo
<1> QED BY <1>3

LEMMA DecodeLoop ==
  ASSUME NEW code, NEW N \in Nat, Len(code) = N
  PROVE  \E f : Decodes(f, code, N) /\ DecodeBlock(code) = f[N]
<1> DEFINE G(f) == [i \in 0 .. Len(code) |-> IF i = 0 THEN DecodeInit ELSE DecodeChar(f[i - 1], code[i])]
           after == CHOOSE f : f = G(f)
<1>1. PICK f : Decodes(f, code, N) BY DecodesExist
<1> DEFINE h == [i \in 0 .. N |-> f[i]]
<1>2. h = G(h)
  <2>1. \A i \in 0 .. N : h[i] = f[i] OBVIOUS
  <2>2. ASSUME NEW i \in 0 .. N
        PROVE  f[i] = IF i = 0 THEN DecodeInit ELSE DecodeChar(h[i - 1], code[i])
    <3>1. CASE i = 0 BY <1>1, <3>1 DEF Decodes
    <3>2. CASE i # 0
      <4>1. i \in 1 .. N /\ i - 1 \in 0 .. N BY <3>2
      <4>2. f[i] = DecodeChar(f[i - 1], code[i]) BY <1>1, <4>1 DEF Decodes
      <4>3. h[i - 1] = f[i - 1] BY <2>1, <4>1
      <4> HIDE DEF h
      <4> QED BY <3>2, <4>2, <4>3, Zenon
    <3> QED BY <3>1, <3>2
  <2> QED BY <2>2, Zenon
<1>3. after = G(after)
  <2> HIDE DEF G, h
  <2> QED BY <1>2, Zenon
<1>4. Decodes(after, code, N)
  <2>1. \A i \in 0 .. N : after[i] = IF i = 0 THEN DecodeInit ELSE DecodeChar(after[i - 1], code[i])
    <3> HIDE DEF after
    <3> QED BY <1>3, Zenon
  <2> HIDE DEF after, G
  <2>2. after[0] = DecodeInit
    <3>1. 0 \in 0 .. N OBVIOUS
    <3> QED BY <2>1, <3>1, Zenon
  <2>3. ASSUME NEW k \in 1 .. N PROVE after[k] = DecodeChar(after[k - 1], code[k])
    <3>1. k \in 0 .. N /\ k # 0 OBVIOUS
    <3> QED BY <2>1, <3>1, Zenon
  <2> QED BY <2>2, <2>3 DEF Decodes
<1>5. DecodeBlock(code) = after[N] BY Zenon DEF DecodeBlock
<1> HIDE DEF after
<1> QED BY <1>4, <1>5

LEMMA DecodeNothing == DecodeBlock(<< >>) = DecodeInit
<1>1. PICK f : Decodes(f, << >>, 0) /\ DecodeBlock(<< >>) = f[0]
  <2>1. Len(<< >>) = 0 /\ 0 \in Nat OBVIOUS
  <2> QED BY <2>1, DecodeLoop, Zenon
<1> QED BY <1>1 DEF Decodes

LEMMA DecodeMore ==
  ASSUME NEW S, NEW code \in Seq(S), NEW c \in S
  PROVE  DecodeBlock(Append(code, c)) = DecodeChar(DecodeBlock(code), c)
<1>1. PICK n \in Nat : n = Len(code) OBVIOUS
<1>2. PICK more \in Seq(S) : more = Append(code, c)
  <2>1. Append(code, c) \in Seq(S) OBVIOUS
  <2> QED BY <2>1, Zenon
<1>3. Len(more) = n + 1 /\ n + 1 \in Nat /\ more[n + 1] = c /\ \A i \in 1 .. n : more[i] = code[i] BY <1>1, <1>2
<1>4. PICK f : Decodes(f, code, n) /\ DecodeBlock(code) = f[n] BY <1>1, DecodeLoop
<1>5. PICK g : Decodes(g, more, n + 1) /\ DecodeBlock(more) = g[n + 1] BY <1>3, DecodeLoop
<1> DEFINE T == {i \in 0 .. n : g[i] = f[i]}
<1>6. 0 \in T BY <1>4, <1>5 DEF Decodes
<1>7. ASSUME NEW i \in 1 .. n, i - 1 \in T PROVE i \in T
  <2>1. f[i] = DecodeChar(f[i - 1], code[i]) BY <1>4 DEF Decodes
  <2>2. i \in 1 .. n + 1 OBVIOUS
  <2>3. g[i] = DecodeChar(g[i - 1], more[i]) BY <1>5, <2>2, Zenon DEF Decodes
  <2>4. g[i - 1] = f[i - 1] /\ more[i] = code[i] BY <1>3, <1>7
  <2> QED BY <2>1, <2>3, <2>4
<1>8. \A i \in 0 .. n : i \in T
  <2> HIDE DEF T
  <2> QED BY <1>6, <1>7, UpTo
<1>9. g[n] = f[n] BY <1>8
<1>10. g[n + 1] = DecodeChar(g[n], c)
  <2>1. n + 1 \in 1 .. n + 1 /\ (n + 1) - 1 = n OBVIOUS
  <2>2. g[n + 1] = DecodeChar(g[(n + 1) - 1], more[n + 1]) BY <1>5, <2>1, Zenon DEF Decodes
  <2> QED BY <1>3, <2>1, <2>2
<1> QED BY <1>2, <1>4, <1>5, <1>9, <1>10

(* One digit is decoded: it ends the byte that was begun and begins the    *)
(* next; other characters change nothing.                                  *)
Decoded(step, out, cell) == [step |-> step, out |-> out, cell |-> cell]

LEMMA SkipsChar ==
  ASSUME NEW s, NEW c, DecodeValue(c) = -1
  PROVE  DecodeChar(s, c) = s
BY Zenon DEF DecodeChar

LEMMA FirstDigit ==
  ASSUME NEW out, NEW cell, NEW v \in 0 .. 63
  PROVE  DecodeChar(Decoded(0, out, cell), EncodeValue(v)) = Decoded(1, out, v * 4)
<1>1. PICK c : c = EncodeValue(v) OBVIOUS
<1>2. DecodeValue(c) = v /\ v # -1 BY <1>1, DigitsAre
<1>3. DecodeChar(Decoded(0, out, cell), c) = Decoded(1, out, v * 4) BY <1>2 DEF DecodeChar, Decoded
<1> QED BY <1>1, <1>3

LEMMA SecondDigit ==
  ASSUME NEW out, NEW cell, NEW v \in 0 .. 63
  PROVE  DecodeChar(Decoded(1, out, cell), EncodeValue(v)) = Decoded(2, Append(out, cell + v \div 16), (v % 16) * 16)
<1>1. PICK c : c = EncodeValue(v) OBVIOUS
<1>2. DecodeValue(c) = v /\ v # -1 BY <1>1, DigitsAre
<1>3. DecodeChar(Decoded(1, out, cell), c) = Decoded(2, Append(out, cell + v \div 16), (v % 16) * 16) BY <1>2 DEF DecodeChar, Decoded
<1> QED BY <1>1, <1>3

LEMMA ThirdDigit ==
  ASSUME NEW out, NEW cell, NEW v \in 0 .. 63
  PROVE  DecodeChar(Decoded(2, out, cell), EncodeValue(v)) = Decoded(3, Append(out, cell + v \div 4), (v % 4) * 64)
<1>1. PICK c : c = EncodeValue(v) OBVIOUS
<1>2. DecodeValue(c) = v /\ v # -1 BY <1>1, DigitsAre
<1>3. DecodeChar(Decoded(2, out, cell), c) = Decoded(3, Append(out, cell + v \div 4), (v % 4) * 64) BY <1>2 DEF DecodeChar, Decoded
<1> QED BY <1>1, <1>3

LEMMA FourthDigit ==
  ASSUME NEW out, NEW cell \in Nat, NEW v \in 0 .. 63
  PROVE  DecodeChar(Decoded(3, out, cell), EncodeValue(v)) = Decoded(0, Append(out, cell + v), Unset)
<1>1. PICK c : c = EncodeValue(v) OBVIOUS
<1>2. DecodeValue(c) = v /\ v # -1 BY <1>1, DigitsAre
<1>3. v \div 1 = v OBVIOUS
<1>4. DecodeChar(Decoded(3, out, cell), c) = Decoded(0, Append(out, cell + v), Unset) BY <1>2, <1>3 DEF DecodeChar, Decoded
<1> QED BY <1>1, <1>4

(* Three bytes are four digits.                                            *)
LEMMA Bits ==
  ASSUME NEW a \in 0 .. 255
  PROVE  /\ a \div 4 \in 0 .. 63 /\ (a % 4) * 16 \in 0 .. 48 /\ a \div 16 \in 0 .. 15 /\ (a % 16) * 4 \in 0 .. 60
         /\ a \div 64 \in 0 .. 3 /\ a % 64 \in 0 .. 63
         /\ (a \div 4) * 4 + (a % 4) = a /\ (a \div 16) * 16 + (a % 16) = a /\ (a \div 64) * 64 + (a % 64) = a
         /\ a % 4 \in 0 .. 3 /\ a % 16 \in 0 .. 15
OBVIOUS

LEMMA TwoParts ==
  ASSUME NEW x \in 0 .. 3, NEW y \in 0 .. 15
  PROVE  /\ x * 16 + y \in 0 .. 63 /\ (x * 16 + y) \div 16 = x /\ (x * 16 + y) % 16 = y
         /\ y * 4 + x \in 0 .. 63 /\ (y * 4 + x) \div 4 = y /\ (y * 4 + x) % 4 = x
OBVIOUS

(* base64_encode_block goes from the first byte to the last.               *)
Encodes(f, plain, n) == f[0] = EncodeInit /\ \A i \in 1 .. n : f[i] = EncodeByte(f[i - 1], plain[i])
LEMMA EncodesExist ==
  ASSUME NEW plain, NEW N \in Nat
  PROVE  \E f : Encodes(f, plain, N)
<1> DEFINE S == {n \in 0 .. N : \E f : Encodes(f, plain, n)}
<1>1. 0 \in S
  <2> DEFINE f == [k \in {0} |-> EncodeInit]
  <2>1. f[0] = EncodeInit OBVIOUS
  <2> HIDE DEF f
  <2>2. Encodes(f, plain, 0) BY <2>1 DEF Encodes
  <2> QED BY <2>2
<1>2. ASSUME NEW n \in 1 .. N, n - 1 \in S PROVE n \in S
  <2>1. PICK f : Encodes(f, plain, n - 1) BY <1>2
  <2> DEFINE h == [k \in 0 .. n |-> IF k = n THEN EncodeByte(f[n - 1], plain[n]) ELSE f[k]]
  <2>2. \A k \in 0 .. n : h[k] = IF k = n THEN EncodeByte(f[n - 1], plain[n]) ELSE f[k] OBVIOUS
  <2> HIDE DEF h
  <2>3. h[0] = EncodeInit
    <3>1. h[0] = f[0] BY <2>2
    <3> QED BY <2>1, <3>1 DEF Encodes
  <2>4. ASSUME NEW k \in 1 .. n PROVE h[k] = EncodeByte(h[k - 1], plain[k])
    <3>1. h[k - 1] = f[k - 1] BY <2>2
    <3>2. CASE k = n
      <4>1. h[k] = EncodeByte(f[n - 1], plain[n]) BY <2>2, <3>2
      <4> QED BY <3>1, <3>2, <4>1
    <3>3. CASE k # n
      <4>1. k \in 1 .. n - 1 BY <3>3
      <4>2. f[k] = EncodeByte(f[k - 1], plain[k]) BY <2>1, <4>1 DEF Encodes
      <4>3. h[k] = f[k] BY <2>2, <3>3
      <4> QED BY <3>1, <4>2, <4>3
    <3> QED BY <3>2, <3>3
  <2>5. Encodes(h, plain, n) BY <2>3, <2>4 DEF Encodes
  <2> QED BY <2>5
<1>3. \A n \in 0 .. N : n \in S
  <2> HIDE DEF S
  <2> QED BY <1>1, <1>2, UpTo
<1> QED BY <1>3

LEMMA EncodeLoop ==
  ASSUME NEW plain, NEW N \in Nat, Len(plain) = N
  PROVE  \E f : Encodes(f, plain, N) /\ EncodeBlock(plain) = f[N]
<1> DEFINE G(f) == [i \in 0 .. Len(plain) |-> IF i = 0 THEN EncodeInit ELSE EncodeByte(f[i - 1], plain[i])]
           after == CHOOSE f : f = G(f)
<1>1. PICK f : Encodes(f, plain, N) BY EncodesExist
<1> DEFINE h == [i \in 0 .. N |-> f[i]]
<1>2. h = G(h)
  <2>1. \A i \in 0 .. N : h[i] = f[i] OBVIOUS
  <2>2. ASSUME NEW i \in 0 .. N
        PROVE  f[i] = IF i = 0 THEN EncodeInit ELSE EncodeByte(h[i - 1], plain[i])
    <3>1. CASE i = 0 BY <1>1, <3>1 DEF Encodes
    <3>2. CASE i # 0
      <4>1. i \in 1 .. N /\ i - 1 \in 0 .. N BY <3>2
      <4>2. f[i] = EncodeByte(f[i - 1], plain[i]) BY <1>1, <4>1 DEF Encodes
      <4>3. h[i - 1] = f[i - 1] BY <2>1, <4>1
      <4> HIDE DEF h
      <4> QED BY <3>2, <4>2, <4>3, Zenon
    <3> QED BY <3>1, <3>2
  <2> QED BY <2>2, Zenon
<1>3. after = G(after)
  <2> HIDE DEF G, h
  <2> QED BY <1>2, Zenon
<1>4. Encodes(after, plain, N)
  <2>1. \A i \in 0 .. N : after[i] = IF i = 0 THEN EncodeInit ELSE EncodeByte(after[i - 1], plain[i])
    <3> HIDE DEF after
    <3> QED BY <1>3, Zenon
  <2> HIDE DEF after, G
  <2>2. after[0] = EncodeInit
    <3>1. 0 \in 0 .. N OBVIOUS
    <3> QED BY <2>1, <3>1, Zenon
  <2>3. ASSUME NEW k \in 1 .. N PROVE after[k] = EncodeByte(after[k - 1], plain[k])
    <3>1. k \in 0 .. N /\ k # 0 OBVIOUS
    <3> QED BY <2>1, <3>1, Zenon
  <2> QED BY <2>2, <2>3 DEF Encodes
<1>5. EncodeBlock(plain) = after[N] BY Zenon DEF EncodeBlock
<1> HIDE DEF after
<1> QED BY <1>4, <1>5

(* What base64_encode_block has so far.                                    *)
Encoded(step, out, result, stepcount) == [step |-> step, out |-> out, result |-> result, stepcount |-> stepcount]

(* A byte is taken: it is encoded to what decodes to done, and to a cell.  *)
Takes(s, b, step, result, done, cell) ==
  \E more \in Seq(Written) : \E count :
    EncodeByte(s, b) = Encoded(step, more, result, count) /\ DecodeBlock(more) = Decoded(step, done, cell)

LEMMA Pushed ==
  ASSUME NEW S, NEW out \in Seq(S), NEW c \in S, NEW d \in S, NEW e \in S
  PROVE  /\ out \o <<c>> = Append(out, c) /\ out \o <<c, d>> = Append(Append(out, c), d)
         /\ out \o <<c, d, e>> = Append(Append(Append(out, c), d), e)
         /\ (out \o <<c, d>>) \o << >> = Append(Append(out, c), d)
         /\ out \o << >> = out
<1>1. out \o <<c>> = Append(out, c) OBVIOUS
<1>2. out \o <<c, d>> = Append(Append(out, c), d) OBVIOUS
<1>3. out \o <<c, d, e>> = Append(Append(Append(out, c), d), e) OBVIOUS
<1>4. out \o << >> = out OBVIOUS
<1>5. Append(Append(out, c), d) \in Seq(S) OBVIOUS
<1>6. Append(Append(out, c), d) \o << >> = Append(Append(out, c), d) OBVIOUS
<1> QED BY <1>1, <1>2, <1>3, <1>4, <1>6

LEMMA FirstByte ==
  ASSUME NEW out \in Seq(Written), NEW result, NEW count, NEW done, NEW cell, NEW b \in 0 .. 255,
         DecodeBlock(out) = Decoded(0, done, cell)
  PROVE  Takes(Encoded(0, out, result, count), b, 1, (b % 4) * 16, done, (b \div 4) * 4)
<1>1. PICK v \in 0 .. 63 : v = b \div 4 BY Bits
<1>2. PICK c \in Written : c = EncodeValue(v)
  <2>1. EncodeValue(v) \in Written BY DigitsAre DEF Written
  <2> QED BY <2>1, Zenon
<1>3. PICK more \in Seq(Written) : more = Append(out, c)
  <2>1. Append(out, c) \in Seq(Written) OBVIOUS
  <2> QED BY <2>1, Zenon
<1>4. EncodeByte(Encoded(0, out, result, count), b) = Encoded(1, more, (b % 4) * 16, count)
  <2>1. PICK s : s = Encoded(0, out, result, count) OBVIOUS
  <2>2. s.step = 0 /\ s.out = out /\ s.result = result BY <2>1 DEF Encoded
  <2>3. EncodeByte(s, b) = [s EXCEPT !.step = 1, !.out = Append(out, c), !.result = (b % 4) * 16]
    BY <1>1, <1>2, <2>2 DEF EncodeByte
  <2>4. EncodeByte(s, b) = [s EXCEPT !.step = 1, !.out = more, !.result = (b % 4) * 16] BY <1>3, <2>3, Zenon
  <2> QED BY <2>1, <2>4 DEF Encoded
<1>5. DecodeBlock(more) = DecodeChar(Decoded(0, done, cell), c) BY <1>3, DecodeMore
<1>6. DecodeBlock(more) = Decoded(1, done, v * 4) BY <1>2, <1>5, FirstDigit
<1>7. v * 4 = (b \div 4) * 4 BY <1>1
<1> QED BY <1>4, <1>6, <1>7, Zenon DEF Takes

LEMMA SecondByte ==
  ASSUME NEW out \in Seq(Written), NEW count, NEW done, NEW a \in 0 .. 255, NEW b \in 0 .. 255,
         DecodeBlock(out) = Decoded(1, done, (a \div 4) * 4)
  PROVE  Takes(Encoded(1, out, (a % 4) * 16, count), b, 2, (b % 16) * 4, Append(done, a), (b \div 16) * 16)
<1>1. PICK v \in 0 .. 63 : v = (a % 4) * 16 + b \div 16 /\ v \div 16 = a % 4 /\ v % 16 = b \div 16
  <2>1. PICK x \in 0 .. 3 : x = a % 4 BY Bits
  <2>2. PICK y \in 0 .. 15 : y = b \div 16 BY Bits
  <2> QED BY <2>1, <2>2, TwoParts
<1>2. PICK c \in Written : c = EncodeValue(v)
  <2>1. EncodeValue(v) \in Written BY DigitsAre DEF Written
  <2> QED BY <2>1, Zenon
<1>3. PICK more \in Seq(Written) : more = Append(out, c)
  <2>1. Append(out, c) \in Seq(Written) OBVIOUS
  <2> QED BY <2>1, Zenon
<1>4. EncodeByte(Encoded(1, out, (a % 4) * 16, count), b) = Encoded(2, more, (b % 16) * 4, count)
  <2>1. PICK s : s = Encoded(1, out, (a % 4) * 16, count) OBVIOUS
  <2>2. s.step = 1 /\ s.out = out /\ s.result = (a % 4) * 16 BY <2>1 DEF Encoded
  <2>3. EncodeByte(s, b) = [s EXCEPT !.step = 2, !.out = Append(out, c), !.result = (b % 16) * 4]
    BY <1>1, <1>2, <2>2 DEF EncodeByte
  <2>4. EncodeByte(s, b) = [s EXCEPT !.step = 2, !.out = more, !.result = (b % 16) * 4] BY <1>3, <2>3, Zenon
  <2> QED BY <2>1, <2>4 DEF Encoded
<1>5. DecodeBlock(more) = DecodeChar(Decoded(1, done, (a \div 4) * 4), c) BY <1>3, DecodeMore
<1>6. DecodeBlock(more) = Decoded(2, Append(done, (a \div 4) * 4 + v \div 16), (v % 16) * 16)
  BY <1>2, <1>5, SecondDigit
<1>7. (a \div 4) * 4 + v \div 16 = a BY <1>1, Bits
<1>8. DecodeBlock(more) = Decoded(2, Append(done, a), (b \div 16) * 16) BY <1>1, <1>6, <1>7
<1> QED BY <1>4, <1>8, Zenon DEF Takes

LEMMA ThirdByte ==
  ASSUME NEW out \in Seq(Written), NEW count, NEW done, NEW a \in 0 .. 255, NEW b \in 0 .. 255,
         DecodeBlock(out) = Decoded(2, done, (a \div 16) * 16)
  PROVE  Takes(Encoded(2, out, (a % 16) * 4, count), b, 0, b % 64, Append(Append(done, a), b), Unset)
<1>1. PICK v \in 0 .. 63 : v = (a % 16) * 4 + b \div 64 /\ v \div 4 = a % 16 /\ v % 4 = b \div 64
  <2>1. PICK y \in 0 .. 15 : y = a % 16 BY Bits
  <2>2. PICK x \in 0 .. 3 : x = b \div 64 BY Bits
  <2> QED BY <2>1, <2>2, TwoParts
<1>2. PICK w \in 0 .. 63 : w = b % 64 BY Bits
<1>3. PICK c \in Written : c = EncodeValue(v)
  <2>1. EncodeValue(v) \in Written BY DigitsAre DEF Written
  <2> QED BY <2>1, Zenon
<1>4. PICK d \in Written : d = EncodeValue(w)
  <2>1. EncodeValue(w) \in Written BY DigitsAre DEF Written
  <2> QED BY <2>1, Zenon
<1>5. PICK n \in Written : n = 10 BY DEF Written
<1>6. PICK one \in Seq(Written) : one = Append(out, c)
  <2>1. Append(out, c) \in Seq(Written) OBVIOUS
  <2> QED BY <2>1, Zenon
<1>7. PICK two \in Seq(Written) : two = Append(one, d)
  <2>1. Append(one, d) \in Seq(Written) OBVIOUS
  <2> QED BY <2>1, Zenon
<1>8. PICK three \in Seq(Written) : three = Append(two, n)
  <2>1. Append(two, n) \in Seq(Written) OBVIOUS
  <2> QED BY <2>1, Zenon
<1>9. two = (out \o <<c, d>>) \o << >> /\ three = (out \o <<c, d>>) \o <<10>>
  BY <1>5, <1>6, <1>7, <1>8, Pushed
<1>10. DecodeBlock(two) = Decoded(0, Append(Append(done, a), b), Unset)
  <2>1. DecodeBlock(one) = DecodeChar(Decoded(2, done, (a \div 16) * 16), c) BY <1>6, DecodeMore
  <2>2. DecodeBlock(one) = Decoded(3, Append(done, (a \div 16) * 16 + v \div 4), (v % 4) * 64)
    BY <1>3, <2>1, ThirdDigit
  <2>3. (a \div 16) * 16 + v \div 4 = a BY <1>1, Bits
  <2>4. PICK x \in Nat : x = (b \div 64) * 64 BY Bits
  <2>5. DecodeBlock(one) = Decoded(3, Append(done, a), x) BY <1>1, <2>2, <2>3, <2>4
  <2>6. DecodeBlock(two) = DecodeChar(DecodeBlock(one), d) BY <1>7, DecodeMore
  <2>7. DecodeBlock(two) = Decoded(0, Append(Append(done, a), x + w), Unset) BY <1>4, <2>5, <2>6, FourthDigit
  <2>8. x + w = b BY <1>2, <2>4, Bits
  <2> QED BY <2>7, <2>8
<1>11. DecodeBlock(three) = DecodeBlock(two)
  <2>1. DecodeBlock(three) = DecodeChar(DecodeBlock(two), n) BY <1>8, DecodeMore
  <2> QED BY <1>5, <2>1, NoDigits, SkipsChar
<1> DEFINE s == Encoded(2, out, (a % 16) * 4, count)
           endsLine == count + 1 = CharsPerLine \div 4
<1>12. EncodeByte(s, b) = Encoded(0, IF endsLine THEN three ELSE two, w, IF endsLine THEN 0 ELSE count + 1)
  <2>1. s.step = 2 /\ s.out = out /\ s.result = (a % 16) * 4 /\ s.stepcount = count BY DEF Encoded
  <2>2. EncodeByte(s, b) =
          [step |-> 0,
           out |-> out \o <<EncodeValue(v), EncodeValue(w)>> \o IF endsLine THEN <<10>> ELSE << >>,
           result |-> w,
           stepcount |-> IF endsLine THEN 0 ELSE count + 1]
    <3> HIDE DEF s
    <3> QED BY <1>1, <1>2, <2>1 DEF EncodeByte
  <2>3. CASE endsLine
    <3>1. out \o <<c, d>> \o <<10>> = three BY <1>9
    <3> QED BY <1>3, <1>4, <2>2, <2>3, <3>1 DEF Encoded
  <2>4. CASE ~endsLine
    <3>1. out \o <<c, d>> \o << >> = two BY <1>9
    <3> QED BY <1>3, <1>4, <2>2, <2>4, <3>1 DEF Encoded
  <2> QED BY <2>3, <2>4
<1>13. CASE endsLine
  <2>1. EncodeByte(s, b) = Encoded(0, three, b % 64, 0) BY <1>2, <1>12, <1>13, Zenon
  <2> QED BY <1>10, <1>11, <2>1, Zenon DEF Takes
<1>14. CASE ~endsLine
  <2>1. EncodeByte(s, b) = Encoded(0, two, b % 64, count + 1) BY <1>2, <1>12, <1>14, Zenon
  <2> QED BY <1>10, <2>1, Zenon DEF Takes
<1> QED BY <1>13, <1>14

Bytes == 0 .. 255

LEMMA PartGrows ==
  ASSUME NEW S, NEW s \in Seq(S), NEW i \in 1 .. Len(s)
  PROVE  SubSeq(s, 1, i) = Append(SubSeq(s, 1, i - 1), s[i])
<1>1. PICK a : a = SubSeq(s, 1, i) OBVIOUS
<1>2. PICK b : b = SubSeq(s, 1, i - 1) OBVIOUS
<1>3. a \in Seq(S) /\ Len(a) = i /\ \A k \in 1 .. i : a[k] = s[k]
  <2>1. i \in Int /\ 1 \in Nat /\ 1 <= 1 /\ i <= Len(s) /\ 1 <= i + 1 /\ i - 1 + 1 = i OBVIOUS
  <2>2. \A k \in 1 .. i : 1 + k - 1 = k OBVIOUS
  <2>3. a \in Seq(S) /\ Len(a) = i - 1 + 1 /\ \A k \in 1 .. i - 1 + 1 : a[k] = s[1 + k - 1]
    BY ONLY <1>1, <2>1, s \in Seq(S), PartIs
  <2> QED BY <2>1, <2>2, <2>3
<1>4. b \in Seq(S) /\ Len(b) = i - 1 /\ \A k \in 1 .. i - 1 : b[k] = s[k]
  <2>1. i - 1 \in Int /\ 1 \in Nat /\ 1 <= 1 /\ i - 1 <= Len(s) /\ 1 <= (i - 1) + 1 /\ (i - 1) - 1 + 1 = i - 1 OBVIOUS
  <2>2. \A k \in 1 .. i - 1 : 1 + k - 1 = k OBVIOUS
  <2>3. b \in Seq(S) /\ Len(b) = (i - 1) - 1 + 1 /\ \A k \in 1 .. (i - 1) - 1 + 1 : b[k] = s[1 + k - 1]
    BY ONLY <1>2, <2>1, s \in Seq(S), PartIs
  <2> QED BY <2>1, <2>2, <2>3
<1>5. s[i] \in S OBVIOUS
<1>6. PICK c \in Seq(S) : c = Append(b, s[i])
  <2>1. Append(b, s[i]) \in Seq(S) BY <1>4, <1>5
  <2> QED BY <2>1, Zenon
<1>7. Len(c) = i /\ \A k \in 1 .. i : c[k] = s[k] BY <1>4, <1>5, <1>6
<1>8. \A k \in 1 .. Len(a) : a[k] = c[k] BY <1>3, <1>7
<1>9. a = c BY <1>3, <1>6, <1>7, <1>8, SameSequence
<1> QED BY <1>1, <1>2, <1>6, <1>9

(* What the first i bytes are encoded to decodes to these bytes; of the    *)
(* last one it says as much as was written of it.                          *)
SaysWith(s, plain, i, out, result, count) ==
  \/ /\ s = Encoded(0, out, result, count) /\ i % 3 = 0
     /\ DecodeBlock(out) = Decoded(0, SubSeq(plain, 1, i), IF i = 0 THEN 0 ELSE Unset)
  \/ /\ s = Encoded(1, out, (plain[i] % 4) * 16, count) /\ i >= 1 /\ i % 3 = 1
     /\ DecodeBlock(out) = Decoded(1, SubSeq(plain, 1, i - 1), (plain[i] \div 4) * 4)
  \/ /\ s = Encoded(2, out, (plain[i] % 16) * 4, count) /\ i >= 1 /\ i % 3 = 2
     /\ DecodeBlock(out) = Decoded(2, SubSeq(plain, 1, i - 1), (plain[i] \div 16) * 16)

SaysBytes(s, plain, i) == \E out \in Seq(Written) : \E result, count : SaysWith(s, plain, i, out, result, count)

LEMMA SaysNothing ==
  ASSUME NEW plain \in Seq(Bytes)
  PROVE  SaysBytes(EncodeInit, plain, 0)
<1>1. EncodeInit = Encoded(0, << >>, 0, 0) BY DEF EncodeInit, Encoded
<1>2. << >> \in Seq(Written) /\ 0 % 3 = 0 OBVIOUS
<1>3. DecodeBlock(<< >>) = Decoded(0, << >>, 0) BY DecodeNothing DEF DecodeInit, Decoded
<1>4. SubSeq(plain, 1, 0) = << >> OBVIOUS
<1>5. DecodeBlock(<< >>) = Decoded(0, SubSeq(plain, 1, 0), IF 0 = 0 THEN 0 ELSE Unset) BY <1>3, <1>4
<1> QED BY <1>1, <1>2, <1>5, Zenon DEF SaysBytes, SaysWith

LEMMA SaysOneMore ==
  ASSUME NEW plain \in Seq(Bytes), NEW i \in 1 .. Len(plain), NEW s, SaysBytes(s, plain, i - 1)
  PROVE  SaysBytes(EncodeByte(s, plain[i]), plain, i)
<1>1. PICK b \in 0 .. 255 : b = plain[i]
  <2>1. plain[i] \in Bytes OBVIOUS
  <2> QED BY <2>1, Zenon DEF Bytes
<1>0. PICK out \in Seq(Written) : \E result, count : SaysWith(s, plain, i - 1, out, result, count)
  BY Zenon DEF SaysBytes
<1>2. PICK result, count : SaysWith(s, plain, i - 1, out, result, count) BY <1>0
<1>3. i \in Nat /\ i >= 1 OBVIOUS
<1>9. /\ (i - 1) % 3 = 0 => i % 3 = 1
      /\ (i - 1) % 3 = 1 => i % 3 = 2
      /\ (i - 1) % 3 = 2 => i % 3 = 0
  BY ONLY <1>3
<1>10. PICK done : done = SubSeq(plain, 1, i - 1) OBVIOUS
<1>11. PICK start : start = SubSeq(plain, 1, i - 1 - 1) OBVIOUS
<1>4. SubSeq(plain, 1, i) = Append(SubSeq(plain, 1, i - 1), b) BY <1>1, PartGrows
<1>5. CASE /\ s = Encoded(0, out, result, count) /\ (i - 1) % 3 = 0
           /\ DecodeBlock(out) = Decoded(0, SubSeq(plain, 1, i - 1), IF i - 1 = 0 THEN 0 ELSE Unset)
  <2>1. PICK more, counted :
           /\ more \in Seq(Written)
           /\ EncodeByte(s, b) = Encoded(1, more, (b % 4) * 16, counted)
           /\ DecodeBlock(more) = Decoded(1, SubSeq(plain, 1, i - 1), (b \div 4) * 4)
    <3>1. PICK cell : cell = IF i - 1 = 0 THEN 0 ELSE Unset OBVIOUS
    <3>2. DecodeBlock(out) = Decoded(0, done, cell) BY <1>5, <1>10, <3>1, Zenon
    <3>3. Takes(Encoded(0, out, result, count), b, 1, (b % 4) * 16, done, (b \div 4) * 4)
      BY <3>2, FirstByte, Zenon
    <3> QED BY <1>5, <1>10, <3>3, Zenon DEF Takes
  <2>2. i % 3 = 1 BY <1>5, <1>9, Zenon
  <2> QED BY <1>1, <1>3, <2>1, <2>2, Zenon DEF SaysBytes, SaysWith
<1>6. ASSUME i - 1 >= 1
      PROVE  /\ plain[i - 1] \in 0 .. 255
             /\ SubSeq(plain, 1, i - 1) = Append(SubSeq(plain, 1, i - 1 - 1), plain[i - 1])
  <2>1. i - 1 \in 1 .. Len(plain) BY <1>6
  <2>2. plain[i - 1] \in Bytes BY <2>1
  <2> QED BY <2>1, <2>2, PartGrows DEF Bytes
<1>7. CASE /\ s = Encoded(1, out, (plain[i - 1] % 4) * 16, count) /\ i - 1 >= 1 /\ (i - 1) % 3 = 1
           /\ DecodeBlock(out) = Decoded(1, SubSeq(plain, 1, i - 1 - 1), (plain[i - 1] \div 4) * 4)
  <2>1. PICK a \in 0 .. 255 : a = plain[i - 1] BY <1>6, <1>7
  <2>2. PICK more, counted :
           /\ more \in Seq(Written)
           /\ EncodeByte(s, b) = Encoded(2, more, (b % 16) * 4, counted)
           /\ DecodeBlock(more) = Decoded(2, Append(SubSeq(plain, 1, i - 1 - 1), a), (b \div 16) * 16)
    <3>1. DecodeBlock(out) = Decoded(1, start, (a \div 4) * 4) BY <1>7, <1>11, <2>1, Zenon
    <3>2. Takes(Encoded(1, out, (a % 4) * 16, count), b, 2, (b % 16) * 4, Append(start, a), (b \div 16) * 16)
      BY <3>1, SecondByte, Zenon
    <3> QED BY <1>7, <1>11, <2>1, <3>2, Zenon DEF Takes
  <2>3. DecodeBlock(more) = Decoded(2, SubSeq(plain, 1, i - 1), (b \div 16) * 16) BY <1>6, <1>7, <2>1, <2>2
  <2>4. i % 3 = 2 BY <1>7, <1>9, Zenon
  <2> QED BY <1>1, <1>3, <2>2, <2>3, <2>4, Zenon DEF SaysBytes, SaysWith
<1>8. CASE /\ s = Encoded(2, out, (plain[i - 1] % 16) * 4, count) /\ i - 1 >= 1 /\ (i - 1) % 3 = 2
           /\ DecodeBlock(out) = Decoded(2, SubSeq(plain, 1, i - 1 - 1), (plain[i - 1] \div 16) * 16)
  <2>1. PICK a \in 0 .. 255 : a = plain[i - 1] BY <1>6, <1>8
  <2>2. PICK more, counted :
           /\ more \in Seq(Written)
           /\ EncodeByte(s, b) = Encoded(0, more, b % 64, counted)
           /\ DecodeBlock(more) = Decoded(0, Append(Append(SubSeq(plain, 1, i - 1 - 1), a), b), Unset)
    <3>1. DecodeBlock(out) = Decoded(2, start, (a \div 16) * 16) BY <1>8, <1>11, <2>1, Zenon
    <3>2. Takes(Encoded(2, out, (a % 16) * 4, count), b, 0, b % 64, Append(Append(start, a), b), Unset)
      BY <3>1, ThirdByte, Zenon
    <3> QED BY <1>8, <1>11, <2>1, <3>2, Zenon DEF Takes
  <2>3. DecodeBlock(more) = Decoded(0, SubSeq(plain, 1, i), Unset) BY <1>4, <1>6, <1>8, <2>1, <2>2
  <2>4. i % 3 = 0 /\ i # 0
    <3>1. i # 0 BY ONLY <1>3
    <3> QED BY <1>8, <1>9, <3>1, Zenon
  <2>5. DecodeBlock(more) = Decoded(0, SubSeq(plain, 1, i), IF i = 0 THEN 0 ELSE Unset) BY <2>3, <2>4, Zenon
  <2> QED BY <1>1, <2>2, <2>4, <2>5, Zenon DEF SaysBytes, SaysWith
<1> QED BY <1>2, <1>5, <1>7, <1>8, Zenon DEF SaysWith

LEMMA BlockSays ==
  ASSUME NEW plain \in Seq(Bytes)
  PROVE  SaysBytes(EncodeBlock(plain), plain, Len(plain))
<1>1. PICK n \in Nat : n = Len(plain) OBVIOUS
<1>2. PICK f : Encodes(f, plain, n) /\ EncodeBlock(plain) = f[n] BY <1>1, EncodeLoop
<1> DEFINE S == {i \in 0 .. n : SaysBytes(f[i], plain, i)}
<1>3. 0 \in S
  <2>1. f[0] = EncodeInit BY <1>2 DEF Encodes
  <2>2. SaysBytes(f[0], plain, 0) BY <2>1, SaysNothing
  <2> QED BY <2>2
<1>4. ASSUME NEW i \in 1 .. n, i - 1 \in S PROVE i \in S
  <2>1. f[i] = EncodeByte(f[i - 1], plain[i]) BY <1>2 DEF Encodes
  <2>2. SaysBytes(f[i - 1], plain, i - 1) BY <1>4
  <2>3. i \in 1 .. Len(plain) BY <1>1
  <2>4. SaysBytes(EncodeByte(f[i - 1], plain[i]), plain, i) BY <2>2, <2>3, SaysOneMore
  <2> QED BY <2>1, <2>4
<1>5. \A i \in 0 .. n : i \in S
  <2> HIDE DEF S
  <2> QED BY <1>3, <1>4, UpTo
<1>6. SaysBytes(f[n], plain, n) BY <1>5
<1> QED BY <1>1, <1>2, <1>6

(* Padding and newlines change nothing.                                    *)
LEMMA PaddingIsSkipped ==
  ASSUME NEW out \in Seq(Written), NEW c \in {10, 61}
  PROVE  Append(out, c) \in Seq(Written) /\ DecodeBlock(Append(out, c)) = DecodeBlock(out)
<1>1. c \in Written BY DEF Written
<1>2. DecodeBlock(Append(out, c)) = DecodeChar(DecodeBlock(out), c) BY <1>1, DecodeMore
<1>3. DecodeValue(c) = -1 BY NoDigits
<1> QED BY <1>1, <1>2, <1>3, SkipsChar

LEMMA Padded ==
  ASSUME NEW out \in Seq(Written), NEW v \in 0 .. 63
  PROVE  LET one == out \o <<EncodeValue(v), 61, 61>> \o <<10>>
             two == out \o <<EncodeValue(v), 61>> \o <<10>>
             none == out \o << >> \o <<10>>
         IN /\ one # << >> /\ two # << >> /\ none # << >>
            /\ one \in Seq(Written) /\ DecodeBlock(one) = DecodeChar(DecodeBlock(out), EncodeValue(v))
            /\ two \in Seq(Written) /\ DecodeBlock(two) = DecodeChar(DecodeBlock(out), EncodeValue(v))
            /\ none \in Seq(Written) /\ DecodeBlock(none) = DecodeBlock(out)
<1>1. PICK c \in Written : c = EncodeValue(v)
  <2>1. EncodeValue(v) \in Written BY DigitsAre DEF Written
  <2> QED BY <2>1, Zenon
<1>2. PICK p \in Written : p = 61 BY DEF Written
<1>3. PICK n \in Written : n = 10 BY DEF Written
<1>4. PICK a \in Seq(Written) : a = Append(out, c)
  <2>1. Append(out, c) \in Seq(Written) OBVIOUS
  <2> QED BY <2>1, Zenon
<1>5. PICK b \in Seq(Written) : b = Append(a, p)
  <2>1. Append(a, p) \in Seq(Written) OBVIOUS
  <2> QED BY <2>1, Zenon
<1>6. PICK d \in Seq(Written) : d = Append(b, p)
  <2>1. Append(b, p) \in Seq(Written) OBVIOUS
  <2> QED BY <2>1, Zenon
<1>7. DecodeBlock(a) = DecodeChar(DecodeBlock(out), c) BY <1>4, DecodeMore
<1>8. DecodeBlock(b) = DecodeBlock(a) BY <1>2, <1>5, PaddingIsSkipped
<1>9. DecodeBlock(d) = DecodeBlock(b) BY <1>2, <1>6, PaddingIsSkipped
<1>10. out \o <<c, p, p>> = d /\ out \o <<c, p>> = b /\ out \o << >> = out BY <1>4, <1>5, <1>6, Pushed
<1>11. d \o <<n>> = Append(d, n) /\ b \o <<n>> = Append(b, n) /\ out \o <<n>> = Append(out, n) BY Pushed
<1>12. Append(d, n) \in Seq(Written) /\ DecodeBlock(Append(d, n)) = DecodeBlock(d) BY <1>3, PaddingIsSkipped
<1>13. Append(b, n) \in Seq(Written) /\ DecodeBlock(Append(b, n)) = DecodeBlock(b) BY <1>3, PaddingIsSkipped
<1>14. Append(out, n) \in Seq(Written) /\ DecodeBlock(Append(out, n)) = DecodeBlock(out) BY <1>3, PaddingIsSkipped
<1>15. Append(d, n) # << >> /\ Append(b, n) # << >> /\ Append(out, n) # << >>
  <2>1. ASSUME NEW x \in Seq(Written) PROVE Append(x, n) # << >>
    <3>1. Len(Append(x, n)) = Len(x) + 1 /\ Len(x) \in Nat /\ Len(<< >>) = 0 OBVIOUS
    <3>2. Len(Append(x, n)) # Len(<< >>) BY ONLY <3>1
    <3> QED BY <3>2, Zenon
  <2> QED BY <2>1, Zenon
<1> QED BY <1>1, <1>2, <1>3, <1>7, <1>8, <1>9, <1>10, <1>11, <1>12, <1>13, <1>14, <1>15, Zenon

(* base64_decode_block after base64_encode_block: what was encoded, and    *)
(* after it the byte that was begun, which is zero, or none.               *)
CellAfter(plain) == IF Len(plain) % 3 = 0 /\ plain # << >> THEN Unset ELSE 0

LEMMA RoundTrip ==
  ASSUME NEW plain \in Seq(Bytes)
  PROVE  Encode(plain) \in Seq(Written) /\ Encode(plain) # << >>
         /\ \E step : DecodeBlock(Encode(plain)) = Decoded(step, plain, CellAfter(plain))
<1>1. PICK n \in Nat : n = Len(plain) OBVIOUS
<1>2. PICK s : s = EncodeBlock(plain) OBVIOUS
<1>3. PICK code : code = Encode(plain) OBVIOUS
<1>4. code = EncodeEnd(s) BY <1>2, <1>3, Zenon DEF Encode
<1>5. SubSeq(plain, 1, n) = plain BY <1>1
<1>6. SaysBytes(s, plain, n) BY <1>1, <1>2, BlockSays
<1>0. PICK out \in Seq(Written) : \E result, count : SaysWith(s, plain, n, out, result, count)
  BY <1>6, Zenon DEF SaysBytes
<1>7. PICK result, count : SaysWith(s, plain, n, out, result, count) BY <1>0
<1>8. ASSUME n >= 1
      PROVE  plain[n] \in 0 .. 255 /\ plain = Append(SubSeq(plain, 1, n - 1), plain[n])
  <2>1. n \in 1 .. Len(plain) BY <1>1, <1>8
  <2>2. plain[n] \in Bytes BY <2>1
  <2>3. SubSeq(plain, 1, n) = Append(SubSeq(plain, 1, n - 1), plain[n]) BY <2>1, PartGrows
  <2> QED BY <1>5, <2>2, <2>3 DEF Bytes
<1>9. CASE /\ s = Encoded(0, out, result, count) /\ n % 3 = 0
           /\ DecodeBlock(out) = Decoded(0, SubSeq(plain, 1, n), IF n = 0 THEN 0 ELSE Unset)
  <2>1. code = out \o << >> \o <<10>> BY <1>4, <1>9 DEF EncodeEnd, Encoded
  <2>2. 0 \in 0 .. 63 OBVIOUS
  <2>3. code \in Seq(Written) /\ code # << >> /\ DecodeBlock(code) = DecodeBlock(out) BY <2>1, <2>2, Padded, Zenon
  <2>4. n = 0 <=> plain = << >> BY <1>1
  <2>5. CellAfter(plain) = IF n = 0 THEN 0 ELSE Unset BY <1>1, <1>9, <2>4, Zenon DEF CellAfter
  <2>6. DecodeBlock(code) = Decoded(0, plain, CellAfter(plain)) BY <1>5, <1>9, <2>3, <2>5, Zenon
  <2> QED BY <1>3, <2>3, <2>6, Zenon
<1>10. ASSUME n % 3 # 0 PROVE CellAfter(plain) = 0 BY <1>1, <1>10, Zenon DEF CellAfter
<1>11. CASE /\ s = Encoded(1, out, (plain[n] % 4) * 16, count) /\ n >= 1 /\ n % 3 = 1
            /\ DecodeBlock(out) = Decoded(1, SubSeq(plain, 1, n - 1), (plain[n] \div 4) * 4)
  <2>1. PICK b \in 0 .. 255 : b = plain[n] BY <1>8, <1>11
  <2>2. PICK x \in 0 .. 3 : x = b % 4 BY Bits
  <2>3. PICK v \in 0 .. 63 : v = (b % 4) * 16 /\ v \div 16 = b % 4 /\ v % 16 = 0
    <3>1. x * 16 + 0 \in 0 .. 63 /\ (x * 16 + 0) \div 16 = x /\ (x * 16 + 0) % 16 = 0 BY TwoParts
    <3>2. x * 16 + 0 = x * 16 OBVIOUS
    <3> QED BY <2>2, <3>1, <3>2
  <2>4. code = out \o <<EncodeValue(v), 61, 61>> \o <<10>>
    <3>1. s.step = 1 /\ s.out = out /\ s.result = v BY <1>11, <2>1, <2>3 DEF Encoded
    <3> QED BY <1>4, <3>1 DEF EncodeEnd
  <2>5. code \in Seq(Written) /\ code # << >> /\ DecodeBlock(code) = DecodeChar(DecodeBlock(out), EncodeValue(v))
    BY <2>4, Padded, Zenon
  <2>6. DecodeBlock(code) = Decoded(2, Append(SubSeq(plain, 1, n - 1), (b \div 4) * 4 + v \div 16), (v % 16) * 16)
    BY <1>11, <2>1, <2>5, SecondDigit
  <2>7. (b \div 4) * 4 + v \div 16 = b /\ (v % 16) * 16 = 0 BY <2>3, Bits
  <2>8. n % 3 # 0 BY <1>11
  <2>9. plain = Append(SubSeq(plain, 1, n - 1), b) BY <1>8, <1>11, <2>1
  <2>10. DecodeBlock(code) = Decoded(2, plain, CellAfter(plain)) BY <1>10, <2>6, <2>7, <2>8, <2>9, Zenon
  <2> QED BY <1>3, <2>5, <2>10, Zenon
<1>12. CASE /\ s = Encoded(2, out, (plain[n] % 16) * 4, count) /\ n >= 1 /\ n % 3 = 2
            /\ DecodeBlock(out) = Decoded(2, SubSeq(plain, 1, n - 1), (plain[n] \div 16) * 16)
  <2>1. PICK b \in 0 .. 255 : b = plain[n] BY <1>8, <1>12
  <2>2. PICK y \in 0 .. 15 : y = b % 16 BY Bits
  <2>3. PICK v \in 0 .. 63 : v = (b % 16) * 4 /\ v \div 4 = b % 16 /\ v % 4 = 0
    <3>1. y * 4 + 0 \in 0 .. 63 /\ (y * 4 + 0) \div 4 = y /\ (y * 4 + 0) % 4 = 0 BY TwoParts
    <3>2. y * 4 + 0 = y * 4 OBVIOUS
    <3> QED BY <2>2, <3>1, <3>2
  <2>4. code = out \o <<EncodeValue(v), 61>> \o <<10>>
    <3>1. s.step = 2 /\ s.out = out /\ s.result = v BY <1>12, <2>1, <2>3 DEF Encoded
    <3> QED BY <1>4, <3>1 DEF EncodeEnd
  <2>5. code \in Seq(Written) /\ code # << >> /\ DecodeBlock(code) = DecodeChar(DecodeBlock(out), EncodeValue(v))
    BY <2>4, Padded, Zenon
  <2>6. DecodeBlock(code) = Decoded(3, Append(SubSeq(plain, 1, n - 1), (b \div 16) * 16 + v \div 4), (v % 4) * 64)
    BY <1>12, <2>1, <2>5, ThirdDigit
  <2>7. (b \div 16) * 16 + v \div 4 = b /\ (v % 4) * 64 = 0 BY <2>3, Bits
  <2>8. n % 3 # 0 BY <1>12
  <2>9. plain = Append(SubSeq(plain, 1, n - 1), b) BY <1>8, <1>12, <2>1
  <2>10. DecodeBlock(code) = Decoded(3, plain, CellAfter(plain)) BY <1>10, <2>6, <2>7, <2>8, <2>9, Zenon
  <2> QED BY <1>3, <2>5, <2>10, Zenon
<1> QED BY <1>7, <1>9, <1>11, <1>12, Zenon DEF SaysWith

(***************************************************************************)
(* Escapes there and back. A recursion from the end of a text has a        *)
(* solution, and what is decoded is found when the places where the        *)
(* characters begin are known.                                             *)
(***************************************************************************)
GoesBack(f, N, a, G, next) == f[N + 1] = a /\ \A i \in 1 .. N : f[i] = G[i][f[next[i]]]

LEMMA RecursionBack ==
  ASSUME NEW N \in Nat, NEW T, NEW a \in T, NEW G, StaysIn(T, N, G), NEW next,
         \A i \in 1 .. N : next[i] \in i + 1 .. N + 1
  PROVE  \E f \in [1 .. N + 1 -> T] : GoesBack(f, N, a, G, next)
<1> DEFINE Is(f, m) == f[N + 1] = a /\ \A i \in N + 1 - m .. N : f[i] = G[i][f[next[i]]]
           S == {m \in 0 .. N : \E f \in [1 .. N + 1 -> T] : Is(f, m)}
<1>1. 0 \in S
  <2> DEFINE f == [i \in 1 .. N + 1 |-> a]
  <2>1. f \in [1 .. N + 1 -> T] OBVIOUS
  <2>2. N + 1 \in 1 .. N + 1 /\ N + 1 - 0 .. N = {} OBVIOUS
  <2>3. Is(f, 0) BY <2>2
  <2> HIDE DEF f, Is
  <2> QED BY <2>1, <2>3
<1>2. ASSUME NEW m \in 1 .. N, m - 1 \in S PROVE m \in S
  <2>1. PICK f \in [1 .. N + 1 -> T] : Is(f, m - 1) BY <1>2
  <2>2. PICK j \in 1 .. N : j = N + 1 - m OBVIOUS
  <2>3. j + 1 = N + 1 - (m - 1) BY <2>2
  <2>4. next[j] \in j + 1 .. N + 1 BY <2>2
  <2>5. next[j] \in 1 .. N + 1 /\ next[j] # j BY <2>2, <2>4
  <2> DEFINE h == [i \in 1 .. N + 1 |-> IF i = j THEN G[j][f[next[j]]] ELSE f[i]]
  <2>6. h \in [1 .. N + 1 -> T]
    <3>1. f[next[j]] \in T BY <2>5
    <3>2. G[j][f[next[j]]] \in T BY <3>1 DEF StaysIn
    <3>3. \A i \in 1 .. N + 1 : (IF i = j THEN G[j][f[next[j]]] ELSE f[i]) \in T BY <3>2
    <3> QED BY <3>3
  <2>7. \A i \in 1 .. N + 1 : h[i] = IF i = j THEN G[j][f[next[j]]] ELSE f[i] OBVIOUS
  <2> HIDE DEF h
  <2>8. h[N + 1] = a
    <3>1. N + 1 \in 1 .. N + 1 /\ N + 1 # j BY <2>2
    <3> QED BY <2>1, <2>7, <3>1
  <2>9. ASSUME NEW i \in N + 1 - m .. N PROVE h[i] = G[i][h[next[i]]]
    <3>1. i \in j .. N /\ i \in 1 .. N + 1 /\ i \in 1 .. N BY <2>2
    <3>2. next[i] \in 1 .. N + 1 /\ next[i] # j
      <4>1. next[i] \in i + 1 .. N + 1 BY <3>1
      <4> QED BY ONLY <2>2, <3>1, <4>1
    <3>3. h[next[i]] = f[next[i]] BY <2>7, <3>2
    <3>4. CASE i = j
      <4>1. h[i] = G[j][f[next[j]]] BY <2>7, <3>1, <3>4
      <4> QED BY <3>3, <3>4, <4>1
    <3>5. CASE i # j
      <4>1. i \in N + 1 - (m - 1) .. N BY ONLY <2>3, <3>1, <3>5, j \in 1 .. N
      <4>2. f[i] = G[i][f[next[i]]] BY <2>1, <4>1
      <4>3. h[i] = f[i] BY <2>7, <3>1, <3>5
      <4> QED BY <3>3, <4>2, <4>3
    <3> QED BY <3>4, <3>5
  <2>10. Is(h, m) BY <2>8, <2>9
  <2>11. m \in 0 .. N OBVIOUS
  <2> HIDE DEF Is
  <2> QED BY <2>6, <2>10, <2>11
<1>3. \A m \in 0 .. N : m \in S
  <2> HIDE DEF S
  <2> QED BY <1>1, <1>2, UpTo
<1>4. PICK f \in [1 .. N + 1 -> T] : Is(f, N) BY <1>3
<1>5. N + 1 - N = 1 OBVIOUS
<1>6. \A i \in 1 .. N : f[i] = G[i][f[next[i]]] BY <1>4, <1>5
<1> QED BY <1>4, <1>6 DEF GoesBack

(* mg_url_decode, from the end on: what is left from each character.       *)
IsEscape(src, i) ==
  i + 2 <= Len(src) /\ src[i] = Percent /\ src[i + 1] \in HexDigits /\ src[i + 2] \in HexDigits
EscapedChar(src, i) == 16 * HexToInt(src[i + 1]) + HexToInt(src[i + 2])
OneChar(src, is_form, i) == IF is_form /\ src[i] = Plus THEN 32 ELSE src[i]
LeftOf(f, src, is_form, n) ==
  /\ f[n + 1] = << >>
  /\ \A i \in 1 .. n : f[i] = IF IsEscape(src, i) THEN <<EscapedChar(src, i)>> \o f[i + 3]
                              ELSE <<OneChar(src, is_form, i)>> \o f[i + 1]

LEMMA HexIsNat == \A c \in HexDigits : HexToInt(c) \in 0 .. 15
BY DEF HexDigits, HexToInt, Lower

LEMMA LeftExists ==
  ASSUME NEW src \in Seq(Nat), NEW n \in Nat, Len(src) = n, NEW is_form
  PROVE  \E f \in [1 .. n + 1 -> Seq(Nat)] : LeftOf(f, src, is_form, n)
<1> DEFINE T == Seq(Nat)
           char(i) == IF IsEscape(src, i) THEN EscapedChar(src, i) ELSE OneChar(src, is_form, i)
           G == [i \in 1 .. n |-> [x \in T |-> <<char(i)>> \o x]]
           next == [i \in 1 .. n |-> IF IsEscape(src, i) THEN i + 3 ELSE i + 1]
<1>1. ASSUME NEW i \in 1 .. n PROVE char(i) \in Nat
  <2>1. CASE IsEscape(src, i)
    <3>1. HexToInt(src[i + 1]) \in 0 .. 15 /\ HexToInt(src[i + 2]) \in 0 .. 15 BY <2>1, HexIsNat DEF IsEscape
    <3>2. PICK x \in 0 .. 15 : x = HexToInt(src[i + 1]) BY <3>1
    <3>3. PICK y \in 0 .. 15 : y = HexToInt(src[i + 2]) BY <3>1
    <3>4. 16 * x + y \in Nat OBVIOUS
    <3>5. EscapedChar(src, i) \in Nat BY <3>2, <3>3, <3>4, Zenon DEF EscapedChar
    <3> QED BY <2>1, <3>5
  <2>2. CASE ~IsEscape(src, i)
    <3>1. src[i] \in Nat OBVIOUS
    <3>2. OneChar(src, is_form, i) \in Nat BY <3>1 DEF OneChar
    <3> QED BY <2>2, <3>2
  <2> QED BY <2>1, <2>2
<1>2. \A i \in 1 .. n : \A x \in T : G[i][x] = <<char(i)>> \o x OBVIOUS
<1>3. \A i \in 1 .. n : next[i] = IF IsEscape(src, i) THEN i + 3 ELSE i + 1 OBVIOUS
<1> HIDE DEF char, G, next
<1>4. StaysIn(T, n, G)
  <2>1. ASSUME NEW i \in 1 .. n, NEW x \in T PROVE G[i][x] \in T
    <3>1. <<char(i)>> \in Seq(Nat) BY <1>1
    <3>2. <<char(i)>> \o x \in Seq(Nat) BY <3>1
    <3> QED BY <1>2, <3>2
  <2> HIDE DEF T
  <2> QED BY <2>1 DEF StaysIn
<1>5. \A i \in 1 .. n : next[i] \in i + 1 .. n + 1
  <2>1. ASSUME NEW i \in 1 .. n PROVE next[i] \in i + 1 .. n + 1
    <3>1. CASE IsEscape(src, i)
      <4>1. i + 2 <= n BY <3>1 DEF IsEscape
      <4>2. next[i] = i + 3 BY <1>3, <3>1
      <4> QED BY <4>1, <4>2
    <3>2. CASE ~IsEscape(src, i)
      <4>1. next[i] = i + 1 BY <1>3, <3>2
      <4> QED BY <4>1
    <3> QED BY <3>1, <3>2
  <2> QED BY <2>1
<1>6. << >> \in T OBVIOUS
<1>7. PICK f \in [1 .. n + 1 -> T] : GoesBack(f, n, << >>, G, next)
  <2> HIDE DEF T
  <2> QED BY <1>4, <1>5, <1>6, RecursionBack
<1>8. ASSUME NEW i \in 1 .. n
      PROVE  f[i] = IF IsEscape(src, i) THEN <<EscapedChar(src, i)>> \o f[i + 3]
                    ELSE <<OneChar(src, is_form, i)>> \o f[i + 1]
  <2>1. next[i] \in 1 .. n + 1
    <3>1. next[i] \in i + 1 .. n + 1 BY <1>5
    <3> QED BY <3>1
  <2>2. f[next[i]] \in T
    <3> HIDE DEF T
    <3> QED BY <2>1
  <2>3. f[i] = <<char(i)>> \o f[next[i]]
    <3> HIDE DEF T
    <3> QED BY <1>2, <1>7, <2>2 DEF GoesBack
  <2>4. CASE IsEscape(src, i) BY <1>3, <2>3, <2>4, Zenon DEF char
  <2>5. CASE ~IsEscape(src, i) BY <1>3, <2>3, <2>5, Zenon DEF char
  <2> QED BY <2>4, <2>5
<1>9. LeftOf(f, src, is_form, n) BY <1>7, <1>8, Zenon DEF LeftOf, GoesBack
<1> QED BY <1>9 DEF T

LEMMA UrlDecodeIs ==
  ASSUME NEW src \in Seq(Nat), NEW n \in Nat, Len(src) = n, NEW is_form, NEW room
  PROVE  \E f : /\ LeftOf(f, src, is_form, n)
                /\ UrlDecode(src, room, is_form) = IF Len(f[1]) < room THEN [len |-> Len(f[1]), text |-> f[1]]
                                                   ELSE [len |-> -1, text |-> SubSeq(f[1], 1, room - 1)]
<1> DEFINE escaped(i) == i + 2 <= Len(src) /\ src[i] = Percent /\ src[i + 1] \in HexDigits /\ src[i + 2] \in HexDigits
           F(f) == [i \in 1 .. Len(src) + 1 |->
                     IF i = Len(src) + 1 THEN << >>
                     ELSE IF escaped(i) THEN <<16 * HexToInt(src[i + 1]) + HexToInt(src[i + 2])>> \o f[i + 3]
                     ELSE <<IF is_form /\ src[i] = Plus THEN 32 ELSE src[i]>> \o f[i + 1]]
           from == CHOOSE f : f = F(f)
<1>1. PICK f \in [1 .. n + 1 -> Seq(Nat)] : LeftOf(f, src, is_form, n) BY LeftExists
<1>2. f = F(f)
  <2>1. ASSUME NEW i \in 1 .. n + 1
        PROVE  f[i] = IF i = n + 1 THEN << >>
                     ELSE IF escaped(i) THEN <<16 * HexToInt(src[i + 1]) + HexToInt(src[i + 2])>> \o f[i + 3]
                     ELSE <<IF is_form /\ src[i] = Plus THEN 32 ELSE src[i]>> \o f[i + 1]
    <3>1. CASE i = n + 1 BY <1>1, <3>1, Zenon DEF LeftOf
    <3>2. CASE i # n + 1
      <4>1. i \in 1 .. n BY <3>2
      <4> QED BY <1>1, <3>2, <4>1, Zenon DEF LeftOf, IsEscape, EscapedChar, OneChar
    <3> QED BY <3>1, <3>2
  <2>2. f = [i \in 1 .. n + 1 |-> f[i]] OBVIOUS
  <2> QED BY <2>1, <2>2, Zenon
<1>3. from = F(from)
  <2> HIDE DEF F
  <2> QED BY <1>2, Zenon
<1>4. \A i \in 1 .. n + 1 :
        from[i] = IF i = n + 1 THEN << >>
                  ELSE IF escaped(i) THEN <<16 * HexToInt(src[i + 1]) + HexToInt(src[i + 2])>> \o from[i + 3]
                  ELSE <<IF is_form /\ src[i] = Plus THEN 32 ELSE src[i]>> \o from[i + 1]
  <2> HIDE DEF from, escaped
  <2> QED BY <1>3, Zenon
<1>5. UrlDecode(src, room, is_form) = IF Len(from[1]) < room THEN [len |-> Len(from[1]), text |-> from[1]]
                                      ELSE [len |-> -1, text |-> SubSeq(from[1], 1, room - 1)]
  BY Zenon DEF UrlDecode
<1> HIDE DEF from, F
<1>6. LeftOf(from, src, is_form, n)
  <2>1. from[n + 1] = << >>
    <3>1. n + 1 \in 1 .. n + 1 OBVIOUS
    <3> QED BY <1>4, <3>1, Zenon
  <2>2. ASSUME NEW i \in 1 .. n
        PROVE  from[i] = IF IsEscape(src, i) THEN <<EscapedChar(src, i)>> \o from[i + 3]
                         ELSE <<OneChar(src, is_form, i)>> \o from[i + 1]
    <3>1. i \in 1 .. n + 1 /\ i # n + 1 OBVIOUS
    <3> QED BY <1>4, <3>1, Zenon DEF IsEscape, EscapedChar, OneChar
  <2> QED BY <2>1, <2>2, Zenon DEF LeftOf
<1> QED BY <1>5, <1>6

(* A text is decoded when the places of its characters are known.          *)
CharFrom(src, is_form, i, j, c) ==
  \/ IsEscape(src, i) /\ EscapedChar(src, i) = c /\ j = i + 3
  \/ ~IsEscape(src, i) /\ OneChar(src, is_form, i) = c /\ j = i + 1

LEMMA PartBegins ==
  ASSUME NEW S, NEW s \in Seq(S), NEW i \in 1 .. Len(s)
  PROVE  SubSeq(s, i, Len(s)) = <<s[i]>> \o SubSeq(s, i + 1, Len(s))
<1>1. PICK n \in Nat : n = Len(s) OBVIOUS
<1>2. PICK a : a = SubSeq(s, i, n) OBVIOUS
<1>3. PICK b : b = SubSeq(s, i + 1, n) OBVIOUS
<1>4. i \in Nat /\ n \in Int /\ 1 <= i /\ n <= Len(s) /\ i <= n + 1 BY <1>1
<1>5. i + 1 \in Nat /\ n \in Int /\ 1 <= i + 1 /\ n <= Len(s) /\ i + 1 <= n + 1 BY <1>1
<1>6. a \in Seq(S) /\ Len(a) = n - i + 1 /\ n - i + 1 \in Nat /\ \A k \in 1 .. n - i + 1 : a[k] = s[i + k - 1]
  BY ONLY <1>2, <1>4, s \in Seq(S), PartIs
<1>7. b \in Seq(S) /\ Len(b) = n - (i + 1) + 1 /\ \A k \in 1 .. n - (i + 1) + 1 : b[k] = s[(i + 1) + k - 1]
  BY ONLY <1>3, <1>5, s \in Seq(S), PartIs
<1>8. s[i] \in S OBVIOUS
<1>9. PICK c : c = <<s[i]>> \o b OBVIOUS
<1>10. <<s[i]>> \in Seq(S) /\ Len(<<s[i]>>) = 1 /\ <<s[i]>>[1] = s[i] BY <1>8
<1>11. c \in Seq(S) BY <1>7, <1>9, <1>10
<1>12. Len(c) = n - i + 1
  <2>1. Len(c) = 1 + Len(b) BY <1>7, <1>9, <1>10
  <2>2. 1 + (n - (i + 1) + 1) = n - i + 1 BY ONLY <1>4
  <2> QED BY <1>7, <2>1, <2>2
<1>13. ASSUME NEW k \in 1 .. n - i + 1 PROVE a[k] = c[k]
  <2>1. a[k] = s[i + k - 1] BY <1>6
  <2>2. CASE k = 1
    <3>1. c[1] = s[i] BY <1>7, <1>9, <1>10
    <3>2. i + 1 - 1 = i BY <1>4
    <3> QED BY <2>1, <2>2, <3>1, <3>2
  <2>3. CASE k # 1
    <3>1. k - 1 \in 1 .. n - (i + 1) + 1 /\ (i + 1) + (k - 1) - 1 = i + k - 1 BY <1>4, <2>3
    <3>2. c[k] = b[k - 1] BY <1>7, <1>9, <1>10, <2>3, <3>1
    <3> QED BY <1>7, <2>1, <3>1, <3>2
  <2> QED BY <2>2, <2>3
<1>14. a = c
  <2>1. \A k \in 1 .. Len(a) : a[k] = c[k] BY <1>6, <1>13
  <2> QED BY <1>6, <1>11, <1>12, <2>1, SameSequence
<1> QED BY <1>1, <1>2, <1>3, <1>9, <1>14

PlacesOf(pos, src, is_form, n, text, m) ==
  /\ pos[0] = 1 /\ pos[m] = n + 1
  /\ \A k \in 1 .. m : pos[k - 1] \in 1 .. n /\ CharFrom(src, is_form, pos[k - 1], pos[k], text[k])

LEMMA LeftIs ==
  ASSUME NEW n \in Nat, NEW src, NEW is_form, NEW f, LeftOf(f, src, is_form, n),
         NEW text \in Seq(Nat), NEW m \in Nat, Len(text) = m, NEW pos, PlacesOf(pos, src, is_form, n, text, m)
  PROVE  f[1] = text
<1> DEFINE S == {j \in 0 .. m : f[pos[m - j]] = SubSeq(text, m - j + 1, m)}
<1>1. 0 \in S
  <2>1. m - 0 = m /\ m - 0 + 1 = m + 1 OBVIOUS
  <2>2. f[pos[m]] = << >> BY DEF LeftOf, PlacesOf
  <2>3. SubSeq(text, m + 1, m) = << >> OBVIOUS
  <2>4. f[pos[m - 0]] = SubSeq(text, m - 0 + 1, m) BY <2>1, <2>2, <2>3, Zenon
  <2>5. 0 \in 0 .. m OBVIOUS
  <2> QED BY <2>4, <2>5, Zenon
<1>2. ASSUME NEW j \in 1 .. m, j - 1 \in S PROVE j \in S
  <2>1. PICK k \in 1 .. m : k = m - j + 1 OBVIOUS
  <2>2. k - 1 = m - j /\ m - (j - 1) = k /\ m - (j - 1) + 1 = k + 1 BY <2>1
  <2>3. f[pos[k]] = SubSeq(text, k + 1, m) BY <1>2, <2>2
  <2>4. PICK i \in 1 .. n : i = pos[k - 1] BY DEF PlacesOf
  <2>5. CharFrom(src, is_form, i, pos[k], text[k]) BY <2>4 DEF PlacesOf
  <2>6. f[i] = IF IsEscape(src, i) THEN <<EscapedChar(src, i)>> \o f[i + 3]
               ELSE <<OneChar(src, is_form, i)>> \o f[i + 1]
    BY Zenon DEF LeftOf
  <2>7. f[i] = <<text[k]>> \o f[pos[k]] BY <2>5, <2>6, Zenon DEF CharFrom
  <2>8. SubSeq(text, k, m) = <<text[k]>> \o SubSeq(text, k + 1, m) BY PartBegins
  <2>9. f[pos[m - j]] = SubSeq(text, m - j + 1, m) BY <2>1, <2>2, <2>3, <2>4, <2>7, <2>8
  <2> QED BY <2>9
<1>3. \A j \in 0 .. m : j \in S
  <2> HIDE DEF S
  <2> QED BY <1>1, <1>2, UpTo
<1>4. f[pos[m - m]] = SubSeq(text, m - m + 1, m) BY <1>3
<1>5. m - m = 0 /\ m - m + 1 = 1 /\ SubSeq(text, 1, m) = text OBVIOUS
<1> QED BY <1>4, <1>5 DEF PlacesOf

LEMMA DecodedText ==
  ASSUME NEW src \in Seq(Nat), NEW n \in Nat, Len(src) = n, NEW is_form, NEW room,
         NEW text \in Seq(Nat), NEW m \in Nat, Len(text) = m, m < room,
         NEW pos, PlacesOf(pos, src, is_form, n, text, m)
  PROVE  UrlDecode(src, room, is_form) = [len |-> m, text |-> text]
<1>1. PICK f : /\ LeftOf(f, src, is_form, n)
               /\ UrlDecode(src, room, is_form) = IF Len(f[1]) < room THEN [len |-> Len(f[1]), text |-> f[1]]
                                                  ELSE [len |-> -1, text |-> SubSeq(f[1], 1, room - 1)]
  BY UrlDecodeIs
<1>2. f[1] = text BY <1>1, LeftIs
<1> QED BY <1>1, <1>2, Zenon

(* Nothing is escaped: what is decoded is what was there.                  *)
LEMMA PlainDecoded ==
  ASSUME NEW src \in Seq(Nat), \A i \in 1 .. Len(src) : src[i] # Percent
  PROVE  UrlDecode(src, Len(src) + 1, FALSE) = [len |-> Len(src), text |-> src]
<1>1. PICK n \in Nat : n = Len(src) OBVIOUS
<1>0. PICK form : form = FALSE OBVIOUS
<1> DEFINE pos == [k \in 0 .. n |-> k + 1]
<1>2. PlacesOf(pos, src, form, n, src, n)
  <2>1. pos[0] = 1 /\ pos[n] = n + 1 OBVIOUS
  <2>2. ASSUME NEW k \in 1 .. n
        PROVE  pos[k - 1] \in 1 .. n /\ CharFrom(src, form, pos[k - 1], pos[k], src[k])
    <3>1. pos[k - 1] = k /\ pos[k] = k + 1 OBVIOUS
    <3>2. ~IsEscape(src, k) BY <1>1 DEF IsEscape
    <3>3. OneChar(src, form, k) = src[k] BY <1>0, Zenon DEF OneChar
    <3> QED BY <3>1, <3>2, <3>3 DEF CharFrom
  <2> HIDE DEF pos
  <2> QED BY <2>1, <2>2 DEF PlacesOf
<1>3. PICK room \in Nat : room = n + 1 /\ n < room OBVIOUS
<1> HIDE DEF pos
<1>4. UrlDecode(src, room, form) = [len |-> n, text |-> src] BY <1>1, <1>2, <1>3, DecodedText
<1> QED BY <1>0, <1>1, <1>3, <1>4, Zenon

(* Where the parts are in what they are flattened to.                      *)
PartsAt(pos, whole, seqs, m) ==
  /\ pos[0] = 1 /\ pos[m] = Len(whole) + 1
  /\ \A k \in 1 .. m :
       /\ pos[k - 1] \in Nat /\ pos[k - 1] >= 1 /\ pos[k] = pos[k - 1] + Len(seqs[k]) /\ pos[k] <= Len(whole) + 1
       /\ \A j \in 1 .. Len(seqs[k]) : whole[pos[k - 1] + j - 1] = seqs[k][j]

GoesOnFrom(b, a) == Len(a) <= Len(b) /\ \A j \in 1 .. Len(a) : b[j] = a[j]

LEMMA LongerBegins ==
  ASSUME NEW S, NEW a \in Seq(S), NEW b \in Seq(S), NEW c \in Seq(S), GoesOnFrom(b, a)
  PROVE  b \o c \in Seq(S) /\ GoesOnFrom(b \o c, a) /\ GoesOnFrom(b \o c, b \o c)
<1>1. PICK d : d = b \o c OBVIOUS
<1>2. d \in Seq(S) /\ Len(d) = Len(b) + Len(c) /\ \A j \in 1 .. Len(b) : d[j] = b[j] BY <1>1
<1>3. Len(a) \in Nat /\ Len(b) \in Nat /\ Len(c) \in Nat /\ Len(a) <= Len(b) BY DEF GoesOnFrom
<1>4. Len(a) <= Len(d) BY ONLY <1>2, <1>3
<1>5. ASSUME NEW j \in 1 .. Len(a) PROVE d[j] = a[j]
  <2>1. j \in 1 .. Len(b) BY <1>3
  <2> QED BY <1>2, <2>1 DEF GoesOnFrom
<1>6. GoesOnFrom(d, a) BY <1>4, <1>5 DEF GoesOnFrom
<1>7. GoesOnFrom(d, d) BY <1>2 DEF GoesOnFrom
<1> QED BY <1>1, <1>2, <1>6, <1>7

LEMMA FlattenHas ==
  ASSUME NEW S, NEW seqs \in Seq(Seq(S)), NEW m \in Nat, Len(seqs) = m, m # 0
  PROVE  FlattenSeq(seqs) \in Seq(S) /\ \E pos : PartsAt(pos, FlattenSeq(seqs), seqs, m)
<1>1. PICK f : Flattens(f, seqs, m) /\ FlattenSeq(seqs) = f[m] BY FlattenLoop
<1>2. \A i \in 1 .. m : seqs[i] \in Seq(S) OBVIOUS
<1> DEFINE T == {i \in 0 .. m : i = 0 \/ (f[i] \in Seq(S) /\ \A k \in 1 .. i : f[k] \in Seq(S) /\ GoesOnFrom(f[i], f[k]))}
<1>3. 0 \in T OBVIOUS
<1>4. ASSUME NEW i \in 1 .. m, i - 1 \in T PROVE i \in T
  <2>1. CASE i = 1
    <3>1. f[1] = seqs[1] BY <1>1 DEF Flattens
    <3>2. f[1] \in Seq(S) BY <1>2, <2>1, <3>1
    <3>3. GoesOnFrom(f[1], f[1]) BY <3>2 DEF GoesOnFrom
    <3> QED BY <2>1, <3>2, <3>3
  <2>2. CASE i # 1
    <3>1. i \in 2 .. m /\ i - 1 # 0 BY <2>2
    <3>2. f[i] = f[i - 1] \o seqs[i] BY <1>1, <3>1, Zenon DEF Flattens
    <3>3. f[i - 1] \in Seq(S) /\ \A k \in 1 .. i - 1 : f[k] \in Seq(S) /\ GoesOnFrom(f[i - 1], f[k]) BY <1>4, <3>1
    <3>4. PICK b \in Seq(S) : b = f[i - 1] BY <3>3, Zenon
    <3>5. PICK c \in Seq(S) : c = seqs[i] BY <1>2, Zenon
    <3>6. f[i] = b \o c BY <3>2, <3>4, <3>5
    <3>7. GoesOnFrom(b, b) BY DEF GoesOnFrom
    <3>8. f[i] \in Seq(S) /\ GoesOnFrom(f[i], f[i]) BY <3>6, <3>7, LongerBegins
    <3>9. ASSUME NEW k \in 1 .. i PROVE f[k] \in Seq(S) /\ GoesOnFrom(f[i], f[k])
      <4>1. CASE k = i BY <3>8, <4>1
      <4>2. CASE k # i
        <5>1. k \in 1 .. i - 1 BY <4>2
        <5>2. PICK a \in Seq(S) : a = f[k] BY <3>3, <5>1, Zenon
        <5>3. GoesOnFrom(b, a) BY <3>3, <3>4, <5>1, <5>2, Zenon
        <5>4. GoesOnFrom(b \o c, a) BY <5>3, LongerBegins
        <5> QED BY <3>6, <5>2, <5>4
      <4> QED BY <4>1, <4>2
    <3> QED BY <3>8, <3>9
  <2> QED BY <2>1, <2>2
<1>5. \A i \in 0 .. m : i \in T
  <2> HIDE DEF T
  <2> QED BY <1>3, <1>4, UpTo
<1>6. PICK whole \in Seq(S) : whole = f[m] /\ \A k \in 1 .. m : f[k] \in Seq(S) /\ GoesOnFrom(whole, f[k])
  <2>1. m \in T BY <1>5
  <2> QED BY <2>1
<1> DEFINE pos == [k \in 0 .. m |-> IF k = 0 THEN 1 ELSE Len(f[k]) + 1]
<1>7. pos[0] = 1 /\ \A k \in 1 .. m : pos[k] = Len(f[k]) + 1 OBVIOUS
<1> HIDE DEF pos
<1>8. pos[m] = Len(whole) + 1 BY <1>6, <1>7
<1>9. ASSUME NEW k \in 1 .. m
      PROVE  /\ pos[k - 1] \in Nat /\ pos[k - 1] >= 1 /\ pos[k] = pos[k - 1] + Len(seqs[k]) /\ pos[k] <= Len(whole) + 1
             /\ \A j \in 1 .. Len(seqs[k]) : whole[pos[k - 1] + j - 1] = seqs[k][j]
  <2>1. PICK c \in Seq(S) : c = seqs[k] BY <1>2, Zenon
  <2>2. PICK d \in Seq(S) : d = f[k] BY <1>6, Zenon
  <2>3. Len(d) <= Len(whole) /\ \A j \in 1 .. Len(d) : whole[j] = d[j] BY <1>6, <2>2 DEF GoesOnFrom
  <2>4. pos[k] = Len(d) + 1 BY <1>7, <2>2
  <2>5. CASE k = 1
    <3>1. d = c BY <1>1, <2>1, <2>2, <2>5 DEF Flattens
    <3>2. pos[k - 1] = 1 BY <1>7, <2>5
    <3>3. pos[k] = 1 + Len(c) /\ pos[k] <= Len(whole) + 1 BY <2>3, <2>4, <3>1
    <3>4. \A j \in 1 .. Len(c) : 1 + j - 1 = j OBVIOUS
    <3> QED BY <2>1, <2>3, <3>1, <3>2, <3>3, <3>4
  <2>6. CASE k # 1
    <3>1. k \in 2 .. m /\ k - 1 \in 1 .. m BY <2>6
    <3>2. PICK b \in Seq(S) : b = f[k - 1] BY <1>6, <3>1, Zenon
    <3>3. d = b \o c BY <1>1, <2>1, <2>2, <3>1, <3>2, Zenon DEF Flattens
    <3>4. pos[k - 1] = Len(b) + 1 BY <1>7, <3>1, <3>2
    <3>5. Len(d) = Len(b) + Len(c) /\ \A j \in 1 .. Len(c) : d[Len(b) + j] = c[j] BY <3>3
    <3>6. Len(b) \in Nat /\ Len(c) \in Nat /\ Len(whole) \in Nat OBVIOUS
    <3>7. pos[k - 1] \in Nat /\ pos[k - 1] >= 1 /\ pos[k] = pos[k - 1] + Len(c) /\ pos[k] <= Len(whole) + 1
      BY ONLY <2>3, <2>4, <3>4, <3>5, <3>6
    <3>8. ASSUME NEW j \in 1 .. Len(c) PROVE whole[pos[k - 1] + j - 1] = c[j]
      <4>1. pos[k - 1] + j - 1 = Len(b) + j /\ Len(b) + j \in 1 .. Len(d) BY ONLY <3>4, <3>5, <3>6, j \in 1 .. Len(c)
      <4> QED BY <2>3, <3>5, <4>1
    <3> QED BY <2>1, <3>7, <3>8
  <2> QED BY <2>5, <2>6
<1>10. PartsAt(pos, whole, seqs, m) BY <1>7, <1>8, <1>9 DEF PartsAt
<1> QED BY <1>1, <1>6, <1>10

(* What a client sends of a value: its base64, a part of it escaped.       *)
Sent == Digits \cup {Percent, 61}
PieceOf(c, chars) ==
  IF c \in chars THEN <<Percent, HexDigit(c \div 16), HexDigit(c % 16)>> ELSE <<c>>

LEMMA HexDigitIs ==
  ASSUME NEW d \in 0 .. 15
  PROVE  HexDigit(d) \in HexDigits /\ HexDigit(d) \in Digits /\ HexToInt(HexDigit(d)) = d
<1>1. CASE d < 10
  <2>1. HexDigit(d) = d + 48 /\ d + 48 \in 48 .. 57 BY <1>1 DEF HexDigit
  <2>2. HexToInt(d + 48) = d BY <2>1 DEF HexToInt
  <2> QED BY <2>1, <2>2 DEF HexDigits, Digits
<1>2. CASE d >= 10
  <2>1. HexDigit(d) = d + 87 /\ d + 87 \in 97 .. 102 BY <1>2 DEF HexDigit
  <2>2. HexToInt(d + 87) = d BY <2>1 DEF HexToInt, Lower
  <2> QED BY <2>1, <2>2 DEF HexDigits, Digits
<1> QED BY <1>1, <1>2

LEMMA WrittenChar ==
  ASSUME NEW c \in Written
  PROVE  /\ c \in 1 .. 122 /\ c \div 16 \in 0 .. 15 /\ c % 16 \in 0 .. 15 /\ 16 * (c \div 16) + (c % 16) = c
         /\ c # Percent /\ c # Plus /\ (c # 10 => c \in Sent)
<1>1. c \in 1 .. 122 BY DEF Written, Digits
<1>2. c \div 16 \in 0 .. 15 /\ c % 16 \in 0 .. 15 /\ 16 * (c \div 16) + (c % 16) = c BY <1>1
<1>3. c # Percent /\ c # Plus BY DEF Written, Digits, Percent, Plus
<1>4. c # 10 => c \in Sent BY DEF Written, Sent
<1> QED BY <1>1, <1>2, <1>3, <1>4

LEMMA PieceIsSent ==
  ASSUME NEW c \in Written, NEW chars, 10 \in chars
  PROVE  PieceOf(c, chars) \in Seq(Sent)
<1>1. CASE c \in chars
  <2>1. PICK h : h = HexDigit(c \div 16) OBVIOUS
  <2>2. PICK l : l = HexDigit(c % 16) OBVIOUS
  <2>3. h \in Sent /\ l \in Sent /\ Percent \in Sent BY <2>1, <2>2, WrittenChar, HexDigitIs DEF Sent
  <2>4. PieceOf(c, chars) = <<Percent, h, l>> BY <1>1, <2>1, <2>2 DEF PieceOf
  <2> QED BY <2>3, <2>4
<1>2. CASE c \notin chars
  <2>1. c \in Sent BY <1>2, WrittenChar
  <2>2. PieceOf(c, chars) = <<c>> BY <1>2 DEF PieceOf
  <2> QED BY <2>1, <2>2
<1> QED BY <1>1, <1>2

(* A piece in its place is decoded.                                        *)
LEMMA PieceDecoded ==
  ASSUME NEW src \in Seq(Nat), NEW n \in Nat, Len(src) = n, NEW form, NEW c \in Written, NEW chars,
         NEW i \in Nat, i >= 1, i + Len(PieceOf(c, chars)) <= n + 1,
         \A j \in 1 .. Len(PieceOf(c, chars)) : src[i + j - 1] = PieceOf(c, chars)[j]
  PROVE  i \in 1 .. n /\ CharFrom(src, form, i, i + Len(PieceOf(c, chars)), c)
<1>1. CASE c \in chars
  <2>1. PICK x \in 0 .. 15 : x = c \div 16 BY WrittenChar
  <2>2. PICK y \in 0 .. 15 : y = c % 16 BY WrittenChar
  <2>3. PICK h \in HexDigits : h = HexDigit(x) /\ HexToInt(h) = x BY HexDigitIs
  <2>4. PICK l \in HexDigits : l = HexDigit(y) /\ HexToInt(l) = y BY HexDigitIs
  <2>5. PICK p : p = PieceOf(c, chars) OBVIOUS
  <2>6. p = <<Percent, h, l>> BY <1>1, <2>1, <2>2, <2>3, <2>4, <2>5 DEF PieceOf
  <2>7. Len(p) = 3 /\ p[1] = Percent /\ p[2] = h /\ p[3] = l BY <2>6
  <2>8. i + 3 <= n + 1 /\ \A j \in 1 .. 3 : src[i + j - 1] = p[j] BY <2>5, <2>7
  <2>9. i + 1 - 1 = i /\ i + 2 - 1 = i + 1 /\ i + 3 - 1 = i + 2 OBVIOUS
  <2>10. src[i] = Percent /\ src[i + 1] = h /\ src[i + 2] = l
    <3>1. src[i + 1 - 1] = p[1] /\ src[i + 2 - 1] = p[2] /\ src[i + 3 - 1] = p[3] BY <2>8
    <3> QED BY <2>7, <2>9, <3>1
  <2>11. i + 2 <= n /\ i \in 1 .. n BY <2>8
  <2>12. IsEscape(src, i) BY <2>10, <2>11 DEF IsEscape
  <2>13. EscapedChar(src, i) = 16 * x + y BY <2>3, <2>4, <2>10, Zenon DEF EscapedChar
  <2>14. 16 * x + y = c BY <2>1, <2>2, WrittenChar
  <2> QED BY <2>5, <2>7, <2>11, <2>12, <2>13, <2>14 DEF CharFrom
<1>2. CASE c \notin chars
  <2>1. PICK p : p = PieceOf(c, chars) OBVIOUS
  <2>2. p = <<c>> BY <1>2, <2>1 DEF PieceOf
  <2>3. Len(p) = 1 /\ p[1] = c BY <2>2
  <2>4. i + 1 <= n + 1 /\ src[i + 1 - 1] = c BY <2>1, <2>3
  <2>5. src[i] = c /\ i \in 1 .. n BY <2>4
  <2>6. ~IsEscape(src, i) BY <2>5, WrittenChar DEF IsEscape
  <2>7. OneChar(src, form, i) = c BY <2>5, WrittenChar, Zenon DEF OneChar
  <2> QED BY <2>1, <2>3, <2>5, <2>6, <2>7 DEF CharFrom
<1> QED BY <1>1, <1>2

LEMMA OfMore ==
  ASSUME NEW S, NEW T, S \in SUBSET T, NEW s \in Seq(S)
  PROVE  s \in Seq(T)
<1>1. PICK n \in Nat : n = Len(s) OBVIOUS
<1>2. s = [k \in 1 .. n |-> s[k]] BY <1>1
<1>3. \A k \in 1 .. n : s[k] \in T BY <1>1
<1>4. s \in [1 .. n -> T] BY <1>2, <1>3
<1> QED BY <1>4

LEMMA EscapedArrives ==
  ASSUME NEW text \in Seq(Written), NEW m \in Nat, Len(text) = m, m # 0, NEW chars, 10 \in chars,
         NEW room, m < room, NEW form
  PROVE  /\ Escaped(text, chars) \in Seq(Sent)
         /\ UrlDecode(Escaped(text, chars), room, form) = [len |-> m, text |-> text]
<1> DEFINE pieces == [i \in 1 .. m |-> PieceOf(text[i], chars)]
<1>1. \A i \in 1 .. m : pieces[i] = PieceOf(text[i], chars) /\ text[i] \in Written OBVIOUS
<1>2. pieces \in Seq(Seq(Sent)) /\ Len(pieces) = m
  <2>1. \A i \in 1 .. m : PieceOf(text[i], chars) \in Seq(Sent) BY <1>1, PieceIsSent
  <2>2. pieces \in [1 .. m -> Seq(Sent)] BY <2>1
  <2> HIDE DEF pieces
  <2> QED BY <2>2
<1>3. Escaped(text, chars) = FlattenSeq(pieces) BY Zenon DEF Escaped, PieceOf
<1> HIDE DEF pieces
<1>4. PICK whole \in Seq(Sent) : whole = Escaped(text, chars) BY <1>2, <1>3, FlattenHas
<1>5. PICK pos : PartsAt(pos, whole, pieces, m) BY <1>2, <1>3, <1>4, FlattenHas
<1>6. Sent \in SUBSET Nat BY DEF Sent, Digits, Percent
<1>7. PICK src \in Seq(Nat) : src = whole
  <2>1. whole \in Seq(Nat) BY <1>6, OfMore
  <2> QED BY <2>1, Zenon
<1>8. PICK n \in Nat : n = Len(src) OBVIOUS
<1>9. PlacesOf(pos, src, form, n, text, m)
  <2>1. pos[0] = 1 /\ pos[m] = n + 1 BY <1>5, <1>7, <1>8 DEF PartsAt
  <2>2. ASSUME NEW k \in 1 .. m
        PROVE  pos[k - 1] \in 1 .. n /\ CharFrom(src, form, pos[k - 1], pos[k], text[k])
    <3>1. PICK c \in Written : c = text[k] BY <1>1, Zenon
    <3>2. pieces[k] = PieceOf(c, chars) BY <1>1, <3>1
    <3>3. PICK i \in Nat : i = pos[k - 1] BY <1>5 DEF PartsAt
    <3>4. /\ i >= 1 /\ pos[k] = i + Len(PieceOf(c, chars)) /\ i + Len(PieceOf(c, chars)) <= n + 1
          /\ \A j \in 1 .. Len(PieceOf(c, chars)) : src[i + j - 1] = PieceOf(c, chars)[j]
      BY <1>5, <1>7, <1>8, <3>2, <3>3 DEF PartsAt
    <3>5. i \in 1 .. n /\ CharFrom(src, form, i, i + Len(PieceOf(c, chars)), c) BY <1>8, <3>4, PieceDecoded
    <3> QED BY <3>1, <3>3, <3>4, <3>5
  <2> QED BY <2>1, <2>2 DEF PlacesOf
<1>10. Written \in SUBSET Nat BY DEF Written, Digits
<1>11. text \in Seq(Nat) BY <1>10, OfMore
<1>12. UrlDecode(src, room, form) = [len |-> m, text |-> text] BY <1>8, <1>9, <1>11, DecodedText
<1> QED BY <1>4, <1>7, <1>12

(* What a string says, its first character of some kind.                   *)
LEMMA FindNone ==
  ASSUME NEW text, NEW chars, NEW N \in Nat, Len(text) = N, \A k \in 1 .. N : text[k] \notin chars
  PROVE  Find(text, chars) = 0
BY FindIs

LEMMA FindFirst ==
  ASSUME NEW text, NEW chars, NEW N \in Nat, Len(text) = N, NEW i \in 1 .. N, text[i] \in chars,
         \A k \in 1 .. i - 1 : text[k] \notin chars
  PROVE  Find(text, chars) = i
<1>1. PICK j : j = Find(text, chars) OBVIOUS
<1>2. \/ j = 0 /\ \A k \in 1 .. N : text[k] \notin chars
      \/ j \in 1 .. N /\ text[j] \in chars /\ \A k \in 1 .. j - 1 : text[k] \notin chars
  BY <1>1, FindIs
<1>3. j \in 1 .. N /\ text[j] \in chars /\ \A k \in 1 .. j - 1 : text[k] \notin chars BY <1>2
<1>4. ~(j < i)
  <2>1. SUFFICES ASSUME j < i PROVE FALSE OBVIOUS
  <2>2. j \in 1 .. i - 1 BY <1>3, <2>1
  <2> QED BY <1>3, <2>2
<1>5. ~(i < j)
  <2>1. SUFFICES ASSUME i < j PROVE FALSE OBVIOUS
  <2>2. i \in 1 .. j - 1 BY <1>3, <2>1
  <2> QED BY <1>3, <2>2
<1> QED BY <1>1, <1>3, <1>4, <1>5

LEMMA NotTerminated ==
  ASSUME NEW text, NEW N \in Nat, Len(text) = N, \A k \in 1 .. N : text[k] # 0
  PROVE  Terminated(text) = text
<1>1. \A k \in 1 .. N : text[k] \notin {0} OBVIOUS
<1>2. Find(text, {0}) = 0 BY <1>1, FindNone
<1> QED BY <1>2, Zenon DEF Terminated

(* AsString of what was decoded: the value, and what comes after it when   *)
(* nothing was begun.                                                      *)
LEMMA StringOf ==
  ASSUME NEW value \in Seq(1 .. 255), NEW step, NEW cell \in {0, Unset}
  PROVE  AsString(Decoded(step, value, cell)) = IF cell = 0 THEN value ELSE Append(value, Unset)
<1>1. PICK n \in Nat : n = Len(value) OBVIOUS
<1>2. Unset \in Int /\ Unset # 0 /\ Unset \notin 1 .. 255 BY DEF Unset
<1>3. \A k \in 1 .. n : value[k] \in 1 .. 255 BY <1>1
<1>4. value \in Seq(Int)
  <2>1. 1 .. 255 \in SUBSET Int OBVIOUS
  <2> QED BY <2>1, OfMore
<1>0. PICK s : s = Decoded(step, value, cell) OBVIOUS
<1> DEFINE cells == s.out \o <<s.cell, Unset>>
<1>5. cells = value \o <<cell, Unset>>
  <2>1. s.out = value /\ s.cell = cell BY <1>0 DEF Decoded
  <2> QED BY <2>1
<1> HIDE DEF cells
<1>6. cells \in Seq(Int) /\ Len(cells) = n + 2 /\ cells[n + 1] = cell /\ \A k \in 1 .. n : cells[k] = value[k]
  <2>1. PICK b : b = <<cell, Unset>> OBVIOUS
  <2>2. b \in Seq(Int) /\ Len(b) = 2 /\ b[1] = cell BY <1>2, <2>1
  <2> QED BY <1>1, <1>4, <1>5, <2>1, <2>2
<1> DEFINE ends == {i \in 1 .. Len(cells) : cells[i] \in {0, Unset}}
           end == CHOOSE i \in ends : \A j \in ends : i <= j
<1>7. AsString(Decoded(step, value, cell)) = IF cells[end] = 0 THEN SubSeq(cells, 1, end - 1) ELSE SubSeq(cells, 1, end)
  <2>1. AsString(s) = IF cells[end] = 0 THEN SubSeq(cells, 1, end - 1) ELSE SubSeq(cells, 1, end)
    BY Zenon DEF AsString, cells
  <2> HIDE DEF end
  <2> QED BY <1>0, <2>1, Zenon
<1>8. n + 1 \in ends /\ \A j \in ends : n + 1 <= j
  <2>1. n + 1 \in 1 .. Len(cells) /\ cells[n + 1] \in {0, Unset} BY <1>6
  <2>2. ASSUME NEW j \in ends PROVE n + 1 <= j
    <3>1. j \in 1 .. n + 2 /\ cells[j] \in {0, Unset} BY <1>6
    <3>2. j \notin 1 .. n
      <4>1. SUFFICES ASSUME j \in 1 .. n PROVE FALSE OBVIOUS
      <4>2. cells[j] \in 1 .. 255 BY <1>3, <1>6, <4>1
      <4>3. 0 \notin 1 .. 255 OBVIOUS
      <4>4. cells[j] = 0 \/ cells[j] = Unset BY <3>1
      <4> QED BY <1>2, <4>2, <4>3, <4>4, Zenon
    <3> QED BY ONLY <3>1, <3>2, n \in Nat
  <2> QED BY <2>1, <2>2
<1>9. end = n + 1
  <2>1. ends \in SUBSET Nat OBVIOUS
  <2>2. PICK e : e = end OBVIOUS
  <2> HIDE DEF ends
  <2>3. e \in ends /\ \A j \in ends : e <= j
    <3>1. \E i \in ends : \A j \in ends : i <= j BY <1>8
    <3> QED BY <2>2, <3>1, Zenon
  <2>4. e \in Nat /\ n + 1 <= e /\ e <= n + 1 BY <1>8, <2>1, <2>3
  <2> HIDE DEF end
  <2> QED BY <2>2, <2>4
<1> HIDE DEF end
<1>10. CASE cell = 0
  <2>1. AsString(Decoded(step, value, cell)) = SubSeq(cells, 1, n) BY <1>6, <1>7, <1>9, <1>10
  <2>2. SubSeq(cells, 1, n) = SubSeq(value, 1, n)
    <3>1. 1 \in Nat /\ n \in Int /\ 1 <= 1 /\ n <= Len(cells) /\ n <= Len(value) /\ 1 <= n + 1 BY <1>1, <1>6
    <3> QED BY <1>4, <1>6, <3>1, SamePart
  <2>3. SubSeq(value, 1, n) = value BY <1>1
  <2> QED BY <1>10, <2>1, <2>2, <2>3
<1>11. CASE cell # 0
  <2>1. AsString(Decoded(step, value, cell)) = SubSeq(cells, 1, n + 1) BY <1>6, <1>7, <1>9, <1>11
  <2>2. n + 1 \in 1 .. Len(cells) BY <1>6
  <2>3. SubSeq(cells, 1, n + 1) = Append(SubSeq(cells, 1, (n + 1) - 1), cells[n + 1]) BY <1>6, <2>2, PartGrows
  <2>4. SubSeq(cells, 1, n) = SubSeq(value, 1, n)
    <3>1. 1 \in Nat /\ n \in Int /\ 1 <= 1 /\ n <= Len(cells) /\ n <= Len(value) /\ 1 <= n + 1 BY <1>1, <1>6
    <3> QED BY <1>4, <1>6, <3>1, SamePart
  <2>5. SubSeq(value, 1, n) = value /\ (n + 1) - 1 = n BY <1>1
  <2>6. cells[n + 1] = Unset BY <1>6, <1>11
  <2> QED BY <1>11, <2>1, <2>3, <2>4, <2>5, <2>6
<1> QED BY <1>10, <1>11

(***************************************************************************)
(* The query of a request, the handler that its path names, and what the   *)
(* handler gets.                                                           *)
(***************************************************************************)
(* mg_get_var: where the variable is.                                      *)
VariableAt(query, name, n, m) ==
  /\ m = 1 \/ query[m - 1] = 38
  /\ query[m + n] = 61 /\ \A k \in 1 .. n : query[m + k - 1] = name[k]
  /\ \A p \in 1 .. m - 1 : ~((p = 1 \/ query[p - 1] = 38) /\ query[p + n] = 61)

VariableIs(query, N, name, n, m, room, form, d) ==
  /\ query \in Seq(Nat) /\ N \in Nat /\ Len(query) = N
  /\ name \in Seq(Nat) /\ n \in Nat /\ Len(name) = n /\ n >= 1
  /\ m \in 1 .. N - n /\ VariableAt(query, name, n, m)
  /\ \A k \in m + n + 1 .. N : query[k] # 38
  /\ form = TRUE /\ d = UrlDecode(SubSeq(query, m + n + 1, N), room, form) /\ d.len # -1

LEMMA GetVarIs ==
  ASSUME NEW query, NEW N, NEW name, NEW n, NEW m, NEW room, NEW form, NEW d,
         VariableIs(query, N, name, n, m, room, form, d)
  PROVE  GetVar(query, name, room) = d
<1> SUFFICES ASSUME /\ query \in Seq(Nat) /\ N \in Nat /\ Len(query) = N
                    /\ name \in Seq(Nat) /\ n \in Nat /\ Len(name) = n /\ n >= 1
                    /\ m \in 1 .. N - n /\ VariableAt(query, name, n, m)
                    /\ \A k \in m + n + 1 .. N : query[k] # 38
                    /\ form = TRUE /\ d = UrlDecode(SubSeq(query, m + n + 1, N), room, form) /\ d.len # -1
             PROVE  GetVar(query, name, room) = d
  BY Zenon DEF VariableIs
<1> DEFINE starts == {p \in 1 .. Len(query) - Len(name) :
                   /\ p = 1 \/ query[p - 1] = 38
                   /\ query[p + Len(name)] = 61
                   /\ SameLetters(name, SubSeq(query, p, p + Len(name) - 1))}
           value == SubSeq(query, Min(starts) + Len(name) + 1, Len(query))
           end == Find(value, {38})
           decoded == UrlDecode(IF end = 0 THEN value ELSE SubSeq(value, 1, end - 1), room, TRUE)
<1>1. m \in starts
  <2>1. PICK q : q = SubSeq(query, m, m + n - 1) OBVIOUS
  <2>2. m \in Nat /\ m + n - 1 \in Int /\ 1 <= m /\ m + n - 1 <= N /\ m <= (m + n - 1) + 1 /\ (m + n - 1) - m + 1 = n
    BY ONLY m \in 1 .. N - n, n \in Nat, N \in Nat
  <2>3. q \in Seq(Nat) /\ Len(q) = n /\ \A k \in 1 .. n : q[k] = query[m + k - 1]
    <3>1. m + n - 1 <= Len(query) BY <2>2
    <3>2. /\ q \in Seq(Nat) /\ Len(q) = (m + n - 1) - m + 1
          /\ \A k \in 1 .. (m + n - 1) - m + 1 : q[k] = query[m + k - 1]
      BY ONLY <2>1, <2>2, <3>1, query \in Seq(Nat), PartIs
    <3> QED BY <2>2, <3>2
  <2>4. SameLetters(name, q)
    <3>1. \A k \in 1 .. n : q[k] = name[k] BY <2>3 DEF VariableAt
    <3>2. \A k \in 1 .. n : Lower(name[k]) = Lower(q[k]) BY <3>1
    <3> QED BY <2>3, <3>2, Zenon DEF SameLetters
  <2>5. m \in 1 .. Len(query) - Len(name) OBVIOUS
  <2>6. (m = 1 \/ query[m - 1] = 38) /\ query[m + Len(name)] = 61 BY DEF VariableAt
  <2> QED BY <2>1, <2>4, <2>5, <2>6
<1>2. starts \in SUBSET Nat OBVIOUS
<1>3. ASSUME NEW p \in starts PROVE m <= p
  <2>1. p \in 1 .. N - n /\ (p = 1 \/ query[p - 1] = 38) /\ query[p + n] = 61 OBVIOUS
  <2>2. p \notin 1 .. m - 1 BY <2>1 DEF VariableAt
  <2> QED BY ONLY <2>1, <2>2, m \in 1 .. N - n, n \in Nat, N \in Nat
<1>4. starts # {} BY <1>1
<1>5. GetVar(query, name, room) =
        IF starts = {} THEN [len |-> -1, text |-> << >>]
        ELSE IF decoded.len = -1 THEN [decoded EXCEPT !.len = -2] ELSE decoded
  BY Zenon DEF GetVar
<1> HIDE DEF starts
<1>6. Min(starts) = m BY <1>1, <1>2, <1>3, SmallestIs
<1>7. value = SubSeq(query, m + n + 1, N) BY <1>6
<1>8. end = 0
  <2>1. PICK v : v = value OBVIOUS
  <2>2. m + n + 1 \in Nat /\ N \in Int /\ 1 <= m + n + 1 /\ m + n + 1 <= N + 1 OBVIOUS
  <2>3. Len(v) = N - (m + n + 1) + 1 /\ N - (m + n + 1) + 1 \in Nat
        /\ \A k \in 1 .. N - (m + n + 1) + 1 : v[k] = query[(m + n + 1) + k - 1]
    <3>1. N <= Len(query) BY <2>2
    <3>2. v = SubSeq(query, m + n + 1, N) BY <1>7, <2>1
    <3> QED BY ONLY <2>2, <3>1, <3>2, query \in Seq(Nat), PartIs
  <2>4. ASSUME NEW k \in 1 .. N - (m + n + 1) + 1 PROVE v[k] \notin {38}
    <3>1. (m + n + 1) + k - 1 \in m + n + 1 .. N BY <2>2
    <3> QED BY <2>3, <3>1
  <2>5. Find(v, {38}) = 0 BY <2>3, <2>4, FindNone
  <2> QED BY <2>1, <2>5
<1>9. decoded = d BY <1>7, <1>8, Zenon
<1> HIDE DEF decoded
<1> QED BY <1>4, <1>5, <1>9, Zenon

(* remove_double_dots_and_double_slashes: nothing to do.                   *)
LEMMA CleanPathIs ==
  ASSUME NEW path \in Seq(Nat), NEW n \in Nat, Len(path) = n, n >= 2,
         \A k \in 1 .. n : path[k] # Dot, \A k \in 2 .. n : path[k] \notin {Slash, 92}
  PROVE  CleanPath(path) = path
<1> DEFINE dots(i) == i < Len(path) /\ path[i] = Dot /\ path[i + 1] = Dot
           slash(i) == i <= Len(path) /\ path[i] \in {Slash, 92}
           Start(f) == [i \in 1 .. Len(path) + 1 |-> IF dots(i) THEN f[i + 1] ELSE i]
           start == CHOOSE f : f = Start(f)
           After(f) == [i \in 1 .. Len(path) + 1 |-> IF slash(i) THEN f[i + 1] ELSE IF dots(i) THEN f[i + 2] ELSE i]
           after == CHOOSE f : f = After(f)
           FromAfter(f, g) == [i \in 1 .. Len(path) + 1 |->
                           IF i = Len(path) + 1 THEN << >>
                           ELSE <<path[i]>> \o f[IF slash(i) THEN g[i + 1] ELSE i + 1]]
           from == CHOOSE f : f = FromAfter(f, after)
<1>1. CleanPath(path) = from[start[1]] BY Zenon DEF CleanPath
<1>2. \A i \in 1 .. n + 1 : ~dots(i) OBVIOUS
<1>3. \A i \in 2 .. n + 1 : ~slash(i) OBVIOUS
<1>4. start = [i \in 1 .. n + 1 |-> i]
  <2>1. Start([i \in 1 .. n + 1 |-> i]) = [i \in 1 .. n + 1 |-> i] BY <1>2
  <2>2. start = Start(start)
    <3> HIDE DEF Start
    <3> QED BY <2>1, Zenon
  <2>3. \A f : Start(f) = [i \in 1 .. n + 1 |-> i] BY <1>2
  <2> HIDE DEF Start, start
  <2> QED BY <2>2, <2>3, Zenon
<1>5. after[2] = 2
  <2> DEFINE h == [i \in 1 .. n + 1 |-> IF i = 1 /\ slash(1) THEN 2 ELSE i]
  <2>1. After(h) = h
    <3>1. ASSUME NEW i \in 1 .. n + 1
          PROVE  (IF slash(i) THEN h[i + 1] ELSE IF dots(i) THEN h[i + 2] ELSE i) = IF i = 1 /\ slash(1) THEN 2 ELSE i
      <4>1. ~dots(i) BY <1>2
      <4>2. CASE slash(i)
        <5>1. i = 1 BY <1>3, <4>2
        <5>2. h[2] = 2 OBVIOUS
        <5> QED BY <4>2, <5>1, <5>2
      <4>3. CASE ~slash(i) BY <4>1, <4>3
      <4> QED BY <4>2, <4>3
    <3> HIDE DEF dots, slash
    <3> QED BY <3>1
  <2>2. after = After(after)
    <3> HIDE DEF After, h
    <3> QED BY <2>1, Zenon
  <2>3. ~slash(2) /\ ~dots(2) BY <1>2, <1>3
  <2>4. \A f : After(f)[2] = 2
    <3> HIDE DEF slash, dots
    <3> QED BY <2>3
  <2> HIDE DEF After, after
  <2> QED BY <2>2, <2>4
<1> HIDE DEF start, after, dots
<1> DEFINE h == [i \in 1 .. n + 1 |-> SubSeq(path, i, n)]
<1>6. \A i \in 1 .. n : (IF slash(i) THEN after[i + 1] ELSE i + 1) = i + 1
  <2>1. ASSUME NEW i \in 1 .. n PROVE (IF slash(i) THEN after[i + 1] ELSE i + 1) = i + 1
    <3>1. CASE i = 1 BY <1>5, <3>1
    <3>2. CASE i # 1 BY <1>3, <3>2
    <3> QED BY <3>1, <3>2
  <2> QED BY <2>1
<1> HIDE DEF slash
<1>7. h = FromAfter(h, after)
  <2>1. ASSUME NEW i \in 1 .. n + 1
        PROVE  SubSeq(path, i, n) = IF i = Len(path) + 1 THEN << >>
                                    ELSE <<path[i]>> \o h[IF slash(i) THEN after[i + 1] ELSE i + 1]
    <3>1. CASE i = n + 1
      <4>1. SubSeq(path, n + 1, n) = << >> OBVIOUS
      <4> QED BY <3>1, <4>1
    <3>2. CASE i # n + 1
      <4>1. i \in 1 .. n /\ i + 1 \in 1 .. n + 1 BY <3>2
      <4>2. h[i + 1] = SubSeq(path, i + 1, n) BY <4>1
      <4>3. SubSeq(path, i, n) = <<path[i]>> \o SubSeq(path, i + 1, n) BY <4>1, PartBegins
      <4> HIDE DEF h
      <4> QED BY <1>6, <3>2, <4>1, <4>2, <4>3, Zenon
    <3> QED BY <3>1, <3>2
  <2> QED BY <2>1, Zenon
<1>8. from = FromAfter(from, after)
  <2> HIDE DEF FromAfter, h
  <2> QED BY <1>7, Zenon
<1>9. \A i \in 1 .. n + 1 : from[i] = IF i = n + 1 THEN << >> ELSE <<path[i]>> \o from[i + 1]
  <2>1. \A i \in 1 .. n + 1 : from[i] = IF i = n + 1 THEN << >>
                              ELSE <<path[i]>> \o from[IF slash(i) THEN after[i + 1] ELSE i + 1]
    <3> HIDE DEF from
    <3> QED BY <1>8, Zenon
  <2> HIDE DEF from
  <2>2. ASSUME NEW i \in 1 .. n + 1 PROVE from[i] = IF i = n + 1 THEN << >> ELSE <<path[i]>> \o from[i + 1]
    <3>1. CASE i = n + 1 BY <2>1, <3>1, Zenon
    <3>2. CASE i # n + 1
      <4>1. i \in 1 .. n BY <3>2
      <4> QED BY <1>6, <2>1, <3>2, <4>1, Zenon
    <3> QED BY <3>1, <3>2
  <2> QED BY <2>2
<1> HIDE DEF from
<1>10. from[1] = path
  <2> DEFINE S == {j \in 0 .. n : from[n + 1 - j] = SubSeq(path, n + 1 - j, n)}
  <2>1. 0 \in S
    <3>1. n + 1 - 0 = n + 1 /\ n + 1 \in 1 .. n + 1 /\ SubSeq(path, n + 1, n) = << >> OBVIOUS
    <3>2. from[n + 1] = << >> BY <1>9, <3>1, Zenon
    <3>3. from[n + 1 - 0] = SubSeq(path, n + 1 - 0, n) BY <3>1, <3>2, Zenon
    <3>4. 0 \in 0 .. n OBVIOUS
    <3> QED BY <3>3, <3>4, Zenon
  <2>2. ASSUME NEW j \in 1 .. n, j - 1 \in S PROVE j \in S
    <3>1. PICK i \in 1 .. n : i = n + 1 - j OBVIOUS
    <3>2. n + 1 - (j - 1) = i + 1 /\ i \in 1 .. n + 1 /\ i # n + 1 BY <3>1
    <3>3. from[i + 1] = SubSeq(path, i + 1, n) BY <2>2, <3>2
    <3>4. from[i] = <<path[i]>> \o from[i + 1] BY <1>9, <3>2, Zenon
    <3>5. SubSeq(path, i, n) = <<path[i]>> \o SubSeq(path, i + 1, n) BY PartBegins
    <3>6. from[n + 1 - j] = SubSeq(path, n + 1 - j, n) BY <3>1, <3>3, <3>4, <3>5, Zenon
    <3>7. j \in 0 .. n OBVIOUS
    <3> QED BY <3>6, <3>7, Zenon
  <2>3. \A j \in 0 .. n : j \in S
    <3> HIDE DEF S
    <3> QED BY <2>1, <2>2, UpTo
  <2>4. from[n + 1 - n] = SubSeq(path, n + 1 - n, n) BY <2>3
  <2>5. n + 1 - n = 1 /\ SubSeq(path, 1, n) = path OBVIOUS
  <2> QED BY <2>4, <2>5
<1>11. start[1] = 1 BY <1>4
<1> QED BY <1>1, <1>10, <1>11

(* What a client asks with: the path of a handler, and after a question    *)
(* mark at the given place a query in which the variable is the m-th       *)
(* character.                                                              *)
NameOf(h) == IF h = 1 THEN <<117, 114, 108>> ELSE <<107, 101, 121>>

Asks(q, mark, m, h) ==
  /\ q \in Seq(Nat) /\ mark \in Nat /\ mark >= 3 /\ m \in Nat /\ m >= 1 /\ Len(q) = mark + m + 3
  /\ q[1] = Slash /\ q[mark] = 63
  /\ \A k \in 1 .. mark - 1 : q[k] \notin {63, Percent, Dot, 0}
  /\ \A k \in 2 .. mark - 1 : q[k] \notin {Slash, 92}
  /\ \A k \in 1 .. Len(q) : ValidChar(q[k])
  /\ h \in {1, 2} /\ HandlerOf(SubSeq(q, 1, mark - 1)) = h
  /\ \A query : (\A k \in 1 .. m + 3 : query[k] = q[mark + k]) => VariableAt(query, NameOf(h), 3, m)

LEMMA BeginningIs ==
  ASSUME NEW q \in Seq(Nat), NEW b \in Seq(Nat), NEW n \in Nat, Len(b) = n, n <= Len(q), \A k \in 1 .. n : q[k] = b[k]
  PROVE  SubSeq(q, 1, n) = b
<1>1. PICK a : a = SubSeq(q, 1, n) OBVIOUS
<1>2. 1 \in Nat /\ n \in Int /\ 1 <= 1 /\ 1 <= n + 1 /\ n - 1 + 1 = n OBVIOUS
<1>3. a \in Seq(Nat) /\ Len(a) = n - 1 + 1 /\ \A k \in 1 .. n - 1 + 1 : a[k] = q[1 + k - 1]
  BY ONLY <1>1, <1>2, q \in Seq(Nat), n <= Len(q), PartIs
<1>4. \A k \in 1 .. n : 1 + k - 1 = k OBVIOUS
<1>5. \A k \in 1 .. Len(a) : a[k] = b[k] BY <1>2, <1>3, <1>4
<1>6. a = b BY <1>2, <1>3, <1>5, SameSequence
<1> QED BY <1>1, <1>6

LEMMA JsonAsks == Asks(JsonQuery, 6, 1, 1)
<1>1. PICK q : q = JsonQuery OBVIOUS
<1>2. q = <<47, 106, 115, 111, 110, 63, 117, 114, 108, 61>> BY <1>1 DEF JsonQuery
<1>3. q \in Seq(Nat) /\ Len(q) = 10 BY <1>2
<1>4. /\ q[1] = 47 /\ q[2] = 106 /\ q[3] = 115 /\ q[4] = 111 /\ q[5] = 110 /\ q[6] = 63
      /\ q[7] = 117 /\ q[8] = 114 /\ q[9] = 108 /\ q[10] = 61
  BY <1>2
<1>5. \A k \in 1 .. 10 : k = 1 \/ k = 2 \/ k = 3 \/ k = 4 \/ k = 5 \/ k = 6 \/ k = 7 \/ k = 8 \/ k = 9 \/ k = 10 OBVIOUS
<1>6. \A k \in 1 .. 6 - 1 : q[k] \notin {63, Percent, Dot, 0}
  <2>1. \A k \in 1 .. 6 - 1 : k = 1 \/ k = 2 \/ k = 3 \/ k = 4 \/ k = 5 OBVIOUS
  <2> QED BY ONLY <1>4, <2>1 DEF Percent, Dot
<1>7. \A k \in 2 .. 6 - 1 : q[k] \notin {Slash, 92}
  <2>1. \A k \in 2 .. 6 - 1 : k = 2 \/ k = 3 \/ k = 4 \/ k = 5 OBVIOUS
  <2> QED BY ONLY <1>4, <2>1 DEF Slash
<1>8. \A k \in 1 .. Len(q) : ValidChar(q[k])
  <2>1. \A k \in 1 .. 10 : q[k] \in {47, 106, 115, 111, 110, 63, 117, 114, 108, 61} BY ONLY <1>4, <1>5
  <2>2. \A c \in {47, 106, 115, 111, 110, 63, 117, 114, 108, 61} : ValidChar(c) BY DEF ValidChar, Invalid
  <2> QED BY <1>3, <2>1, <2>2
<1>9. HandlerOf(SubSeq(q, 1, 6 - 1)) = 1
  <2>1. SubSeq(q, 1, 6 - 1) = <<47, 106, 115, 111, 110>>
    <3>2. PICK b : b = <<47, 106, 115, 111, 110>> OBVIOUS
    <3>3. b \in Seq(Nat) /\ Len(b) = 5 /\ b[1] = 47 /\ b[2] = 106 /\ b[3] = 115 /\ b[4] = 111 /\ b[5] = 110 BY <3>2
    <3>4. q[1] = b[1] /\ q[2] = b[2] /\ q[3] = b[3] /\ q[4] = b[4] /\ q[5] = b[5]
      BY ONLY <1>4, <3>3
    <3>5. \A k \in 1 .. 5 : k = 1 \/ k = 2 \/ k = 3 \/ k = 4 \/ k = 5 OBVIOUS
    <3>6. \A k \in 1 .. 5 : q[k] = b[k] BY ONLY <3>4, <3>5
    <3>7. PICK n \in Nat : n = 5 OBVIOUS
    <3>8. Len(b) = n /\ n <= Len(q) /\ \A k \in 1 .. n : q[k] = b[k] BY <1>3, <3>3, <3>6, <3>7
    <3>9. SubSeq(q, 1, n) = b BY ONLY <1>3, <3>3, <3>8, n \in Nat, BeginningIs
    <3>10. 6 - 1 = n BY <3>7
    <3> QED BY <3>2, <3>9, <3>10
  <2>2. PICK path : path = <<47, 106, 115, 111, 110>> OBVIOUS
  <2> DEFINE same == {h \in 1 .. Len(Handlers) : Handlers[h] = path}
  <2>3. same \in SUBSET Nat /\ 1 \in same /\ \A x \in same : 1 <= x BY <2>2 DEF Handlers
  <2>4. HandlerOf(path) = Min(same)
    <3>1. same # {} BY <2>3
    <3> QED BY <3>1, Zenon DEF HandlerOf
  <2> HIDE DEF same
  <2>5. Min(same) = 1 BY <2>3, SmallestIs
  <2> QED BY <2>1, <2>2, <2>4, <2>5
<1>10. ASSUME NEW query, \A k \in 1 .. 1 + 3 : query[k] = q[6 + k] PROVE VariableAt(query, NameOf(1), 3, 1)
  <2>1. query[1] = q[6 + 1] /\ query[2] = q[6 + 2] /\ query[3] = q[6 + 3] /\ query[4] = q[6 + 4] BY <1>10
  <2>2. query[1] = 117 /\ query[2] = 114 /\ query[3] = 108 /\ query[4] = 61 BY <1>4, <2>1
  <2>3. PICK name : name = NameOf(1) OBVIOUS
  <2>4. name = <<117, 114, 108>> BY <2>3 DEF NameOf
  <2>5. name[1] = 117 /\ name[2] = 114 /\ name[3] = 108 BY <2>4
  <2>6. \A k \in 1 .. 3 : query[1 + k - 1] = name[k]
    <3>1. \A k \in 1 .. 3 : 1 + k - 1 = k /\ (k = 1 \/ k = 2 \/ k = 3) OBVIOUS
    <3> QED BY <2>2, <2>5, <3>1
  <2>7. query[1 + 3] = 61 /\ 1 .. 1 - 1 = {} BY <2>2
  <2> QED BY <2>3, <2>6, <2>7 DEF VariableAt
<1>11. Len(q) = 6 + 1 + 3 BY <1>3
<1>12. q[1] = Slash /\ q[6] = 63 BY <1>4 DEF Slash
<1> QED BY <1>1, <1>3, <1>6, <1>7, <1>8, <1>9, <1>10, <1>11, <1>12 DEF Asks

LEMMA KeyAsks == Asks(KeyQuery, 10, 3, 2)
<1>1. PICK q : q = KeyQuery OBVIOUS
<1>2. q = <<47, 115, 110, 97, 112, 115, 104, 111, 116, 63, 97, 38, 107, 101, 121, 61>> BY <1>1 DEF KeyQuery
<1>3. q \in Seq(Nat) /\ Len(q) = 16 BY <1>2
<1>4. /\ q[1] = 47 /\ q[2] = 115 /\ q[3] = 110 /\ q[4] = 97 /\ q[5] = 112 /\ q[6] = 115 /\ q[7] = 104
      /\ q[8] = 111 /\ q[9] = 116 /\ q[10] = 63 /\ q[11] = 97 /\ q[12] = 38 /\ q[13] = 107 /\ q[14] = 101
      /\ q[15] = 121 /\ q[16] = 61
  BY <1>2
<1>5. \A k \in 1 .. 16 : \/ k = 1 \/ k = 2 \/ k = 3 \/ k = 4 \/ k = 5 \/ k = 6 \/ k = 7 \/ k = 8
                         \/ k = 9 \/ k = 10 \/ k = 11 \/ k = 12 \/ k = 13 \/ k = 14 \/ k = 15 \/ k = 16
  OBVIOUS
<1>6. \A k \in 1 .. 10 - 1 : q[k] \notin {63, Percent, Dot, 0}
  <2>1. \A k \in 1 .. 10 - 1 : \/ k = 1 \/ k = 2 \/ k = 3 \/ k = 4 \/ k = 5 \/ k = 6 \/ k = 7 \/ k = 8 \/ k = 9 OBVIOUS
  <2> QED BY ONLY <1>4, <2>1 DEF Percent, Dot
<1>7. \A k \in 2 .. 10 - 1 : q[k] \notin {Slash, 92}
  <2>1. \A k \in 2 .. 10 - 1 : \/ k = 2 \/ k = 3 \/ k = 4 \/ k = 5 \/ k = 6 \/ k = 7 \/ k = 8 \/ k = 9 OBVIOUS
  <2> QED BY ONLY <1>4, <2>1 DEF Slash
<1>8. \A k \in 1 .. Len(q) : ValidChar(q[k])
  <2>1. \A k \in 1 .. 16 : q[k] \in {47, 115, 110, 97, 112, 104, 111, 116, 63, 38, 107, 101, 121, 61} BY ONLY <1>4, <1>5
  <2>2. \A c \in {47, 115, 110, 97, 112, 104, 111, 116, 63, 38, 107, 101, 121, 61} : ValidChar(c) BY DEF ValidChar, Invalid
  <2>3. \A k \in 1 .. 16 : ValidChar(q[k]) BY <2>1, <2>2, Zenon
  <2> QED BY <1>3, <2>3
<1>9. HandlerOf(SubSeq(q, 1, 10 - 1)) = 2
  <2>1. SubSeq(q, 1, 10 - 1) = <<47, 115, 110, 97, 112, 115, 104, 111, 116>>
    <3>2. PICK b : b = <<47, 115, 110, 97, 112, 115, 104, 111, 116>> OBVIOUS
    <3>3. /\ b \in Seq(Nat) /\ Len(b) = 9 /\ b[1] = 47 /\ b[2] = 115 /\ b[3] = 110 /\ b[4] = 97 /\ b[5] = 112
          /\ b[6] = 115 /\ b[7] = 104 /\ b[8] = 111 /\ b[9] = 116
      BY <3>2
    <3>4. q[1] = b[1] /\ q[2] = b[2] /\ q[3] = b[3] /\ q[4] = b[4] /\ q[5] = b[5] /\ q[6] = b[6] /\ q[7] = b[7] /\ q[8] = b[8] /\ q[9] = b[9]
      BY ONLY <1>4, <3>3
    <3>5. \A k \in 1 .. 9 : k = 1 \/ k = 2 \/ k = 3 \/ k = 4 \/ k = 5 \/ k = 6 \/ k = 7 \/ k = 8 \/ k = 9 OBVIOUS
    <3>6. \A k \in 1 .. 9 : q[k] = b[k] BY ONLY <3>4, <3>5
    <3>7. PICK n \in Nat : n = 9 OBVIOUS
    <3>8. Len(b) = n /\ n <= Len(q) /\ \A k \in 1 .. n : q[k] = b[k] BY <1>3, <3>3, <3>6, <3>7
    <3>9. SubSeq(q, 1, n) = b BY ONLY <1>3, <3>3, <3>8, n \in Nat, BeginningIs
    <3>10. 10 - 1 = n BY <3>7
    <3> QED BY <3>2, <3>9, <3>10
  <2>2. PICK path : path = <<47, 115, 110, 97, 112, 115, 104, 111, 116>> OBVIOUS
  <2> DEFINE same == {h \in 1 .. Len(Handlers) : Handlers[h] = path}
  <2>3. 2 \in same /\ same \in SUBSET Nat BY <2>2 DEF Handlers
  <2>4. \A x \in same : 2 <= x
    <3>1. Handlers[1] # path
      <4>1. Handlers[1] = <<47, 106, 115, 111, 110>> BY DEF Handlers
      <4>2. Len(path) = 9 /\ Len(<<47, 106, 115, 111, 110>>) = 5 BY <2>2
      <4> QED BY <4>1, <4>2
    <3> QED BY <3>1 DEF Handlers
  <2>5. HandlerOf(path) = Min(same)
    <3>1. same # {} BY <2>3
    <3> QED BY <3>1, Zenon DEF HandlerOf
  <2> HIDE DEF same
  <2>6. Min(same) = 2 BY <2>3, <2>4, SmallestIs
  <2> QED BY <2>1, <2>2, <2>5, <2>6
<1>10. ASSUME NEW query, \A k \in 1 .. 3 + 3 : query[k] = q[10 + k] PROVE VariableAt(query, NameOf(2), 3, 3)
  <2>1. /\ query[1] = q[10 + 1] /\ query[2] = q[10 + 2] /\ query[3] = q[10 + 3] /\ query[4] = q[10 + 4]
        /\ query[5] = q[10 + 5] /\ query[6] = q[10 + 6]
    BY <1>10
  <2>2. query[1] = 97 /\ query[2] = 38 /\ query[3] = 107 /\ query[4] = 101 /\ query[5] = 121 /\ query[6] = 61
    BY <1>4, <2>1
  <2>3. PICK name : name = NameOf(2) OBVIOUS
  <2>4. name = <<107, 101, 121>> BY <2>3 DEF NameOf
  <2>5. name[1] = 107 /\ name[2] = 101 /\ name[3] = 121 BY <2>4
  <2>6. \A k \in 1 .. 3 : query[3 + k - 1] = name[k]
    <3>1. \A k \in 1 .. 3 : (k = 1 /\ 3 + k - 1 = 3) \/ (k = 2 /\ 3 + k - 1 = 4) \/ (k = 3 /\ 3 + k - 1 = 5) OBVIOUS
    <3> QED BY <2>2, <2>5, <3>1
  <2>7. query[3 + 3] = 61 /\ query[3 - 1] = 38 BY <2>2
  <2>8. \A p \in 1 .. 3 - 1 : ~((p = 1 \/ query[p - 1] = 38) /\ query[p + 3] = 61)
    <3>1. \A p \in 1 .. 3 - 1 : (p = 1 /\ p + 3 = 4) \/ (p = 2 /\ p - 1 = 1) OBVIOUS
    <3> QED BY <2>2, <3>1
  <2> QED BY <2>3, <2>6, <2>7, <2>8 DEF VariableAt
<1>11. Len(q) = 10 + 3 + 3 BY <1>3
<1>12. q[1] = Slash /\ q[10] = 63 BY <1>4 DEF Slash
<1> QED BY <1>1, <1>3, <1>6, <1>7, <1>8, <1>9, <1>10, <1>11, <1>12 DEF Asks

(* handle_request of what a client sends: the handler gets the value.      *)
LEMMA SentIsValid ==
  ASSUME NEW c \in Sent
  PROVE  c \in Nat /\ ValidChar(c) /\ c \notin {38, 63, 0, Slash}
BY DEF Sent, Digits, Percent, ValidChar, Invalid, Slash

IsJoined(c, a, m, b, n) ==
  /\ c \in Seq(Nat) /\ Len(c) = m + n
  /\ \A k \in 1 .. m : c[k] = a[k]
  /\ \A k \in 1 .. n : c[m + k] = b[k]

LEMMA JoinedIs ==
  ASSUME NEW a \in Seq(Nat), NEW m \in Nat, Len(a) = m, NEW b \in Seq(Nat), NEW n \in Nat, Len(b) = n
  PROVE  IsJoined(a \o b, a, m, b, n)
<1>1. PICK c : c = a \o b OBVIOUS
<1>2. c \in Seq(Nat) /\ Len(c) = m + n /\ \A k \in 1 .. m : c[k] = a[k]
  <2>1. c \in Seq(Nat) BY <1>1
  <2>2. Len(c) = m + n BY <1>1
  <2>3. ASSUME NEW k \in 1 .. m PROVE c[k] = a[k]
    <3>1. k \in 1 .. m + n /\ k <= m OBVIOUS
    <3> QED BY <1>1, <3>1
  <2> QED BY <2>1, <2>2, <2>3
<1>3. ASSUME NEW k \in 1 .. n PROVE c[m + k] = b[k]
  <2>1. m + k \in 1 .. m + n /\ m + k > m /\ (m + k) - m = k OBVIOUS
  <2>2. \A j \in 1 .. m + n : j > m => c[j] = b[j - m]
    <3>1. ASSUME NEW j \in 1 .. m + n, j > m PROVE c[j] = b[j - m]
      <4>1. j \in 1 .. Len(a) + Len(b) /\ ~(j <= Len(a)) /\ j - Len(a) = j - m BY <3>1
      <4>2. c[j] = b[j - Len(a)] BY ONLY <1>1, <4>1, a \in Seq(Nat), b \in Seq(Nat)
      <4> QED BY <4>1, <4>2
    <3> QED BY <3>1
  <2> QED BY <2>1, <2>2
<1> QED BY <1>1, <1>2, <1>3 DEF IsJoined

LEMMA HandlerAsked ==
  ASSUME NEW q, NEW mark, NEW m, NEW h, Asks(q, mark, m, h), NEW code \in Seq(Sent),
         NEW d, d = UrlDecode(code, MaxLen, TRUE), d.len # -1
  PROVE  /\ get_uri_type(q \o code) = 2
         /\ HandleRequest(q \o code) = IF h = 1 THEN JsonOutput(d) ELSE SnapshotKey(d)
<1>1. PICK L \in Nat : L = mark + m + 3 BY DEF Asks
<1>2. PICK K \in Nat : K = Len(code) OBVIOUS
<1>3. code \in Seq(Nat) /\ \A k \in 1 .. K : code[k] \in Sent
  <2>1. Sent \in SUBSET Nat BY SentIsValid
  <2>2. code \in Seq(Nat) BY <2>1, OfMore
  <2> QED BY <1>2, <2>2
<1>4. /\ q \in Seq(Nat) /\ Len(q) = L /\ mark \in Nat /\ mark >= 3 /\ m \in Nat /\ m >= 1
      /\ q[1] = Slash /\ q[mark] = 63 /\ h \in {1, 2}
  BY <1>1 DEF Asks
<1>5. PICK u : u = q \o code OBVIOUS
<1>6. u \in Seq(Nat) /\ Len(u) = L + K /\ (\A k \in 1 .. L : u[k] = q[k]) /\ \A k \in 1 .. K : u[L + k] = code[k]
  <2>1. q \in Seq(Nat) /\ Len(q) = L /\ code \in Seq(Nat) /\ Len(code) = K BY <1>2, <1>3, <1>4
  <2>2. PICK a \in Seq(Nat) : a = q BY <2>1
  <2>3. PICK b \in Seq(Nat) : b = code BY <2>1
  <2>4. Len(a) = L /\ Len(b) = K BY <2>1, <2>2, <2>3
  <2>5. IsJoined(a \o b, a, L, b, K)
    BY ONLY <2>4, L \in Nat, K \in Nat, a \in Seq(Nat), b \in Seq(Nat), JoinedIs
  <2>6. IsJoined(u, q, L, code, K) BY <1>5, <2>2, <2>3, <2>5, Zenon
  <2> QED BY <2>6 DEF IsJoined
<1>7. \A k \in 1 .. K : u[L + k] = code[k] BY <1>6
<1>8. get_uri_type(u) = 2
  <2>1. 1 \in 1 .. L /\ Len(u) \in Nat /\ Len(u) >= 7 BY ONLY <1>1, <1>2, <1>4, <1>6
  <2>2. u # <<42>> /\ u # << >>
    <3>1. Len(<<42>>) = 1 /\ Len(<< >>) = 0 OBVIOUS
    <3>2. Len(u) # 1 /\ Len(u) # 0
      <4>1. PICK w \in Nat : w = Len(u) /\ w >= 7 BY <2>1
      <4>2. w # 1 /\ w # 0 BY ONLY <4>1, w \in Nat
      <4> QED BY <4>1, <4>2, Zenon
    <3> QED BY <3>1, <3>2, Zenon
  <2>3. ASSUME NEW i \in 1 .. L + K PROVE ValidChar(u[i])
    <3>1. CASE i \in 1 .. L
      <4>1. ValidChar(q[i]) BY <1>4, <3>1 DEF Asks
      <4> QED BY <1>6, <3>1, <4>1
    <3>2. CASE i \notin 1 .. L
      <4>1. PICK k \in 1 .. K : i = L + k
        <5>1. i - L \in 1 .. K /\ i = L + (i - L) BY ONLY <3>2, i \in 1 .. L + K, L \in Nat, K \in Nat
        <5> QED BY <5>1
      <4>2. ValidChar(code[k]) BY <1>3, SentIsValid
      <4> QED BY <1>7, <4>1, <4>2
    <3> QED BY <3>1, <3>2
  <2>4. ~ \E i \in 1 .. Len(u) : ~ValidChar(u[i]) BY <1>6, <2>3
  <2>5. u[1] = Slash BY <1>4, <1>6, <2>1
  <2> QED BY <2>2, <2>4, <2>5, Zenon DEF get_uri_type
<1>9. Find(u, {63}) = mark
  <2>1. mark \in 1 .. Len(u) /\ mark \in 1 .. L BY ONLY <1>1, <1>2, <1>4, <1>6
  <2>2. u[mark] \in {63} BY <1>4, <1>6, <2>1
  <2>3. ASSUME NEW k \in 1 .. mark - 1 PROVE u[k] \notin {63}
    <3>1. k \in 1 .. L BY ONLY <2>1, k \in 1 .. mark - 1, L \in Nat
    <3>2. q[k] \notin {63, Percent, Dot, 0} BY DEF Asks
    <3> QED BY <1>6, <3>1, <3>2
  <2>4. Len(u) \in Nat BY <1>6
  <2> QED BY <2>1, <2>2, <2>3, <2>4, FindFirst
<1>10. PICK p : p = SubSeq(u, 1, mark - 1) OBVIOUS
<1>11. mark - 1 \in Nat /\ mark - 1 >= 2 /\ 1 \in Nat /\ mark - 1 \in Int /\ 1 <= 1 /\ mark - 1 <= L /\ mark - 1 <= L + K
       /\ 1 <= (mark - 1) + 1 /\ (mark - 1) - 1 + 1 = mark - 1
  BY ONLY <1>1, <1>2, <1>4
<1>12. p \in Seq(Nat) /\ Len(p) = mark - 1 /\ \A k \in 1 .. mark - 1 : p[k] = q[k]
  <2>1. p \in Seq(Nat) /\ Len(p) = (mark - 1) - 1 + 1 /\ \A k \in 1 .. (mark - 1) - 1 + 1 : p[k] = u[1 + k - 1]
    <3>1. mark - 1 <= Len(u) BY <1>6, <1>11
    <3> QED BY ONLY <1>6, <1>10, <1>11, <3>1, PartIs
  <2>2. \A k \in 1 .. mark - 1 : 1 + k - 1 = k /\ k \in 1 .. L BY ONLY <1>11, L \in Nat
  <2> QED BY <1>6, <1>11, <2>1, <2>2
<1>13. HandlerOf(p) = h
  <2>1. PICK a : a = SubSeq(q, 1, mark - 1) OBVIOUS
  <2>2. a \in Seq(Nat) /\ Len(a) = (mark - 1) - 1 + 1 /\ \A k \in 1 .. (mark - 1) - 1 + 1 : a[k] = q[1 + k - 1]
    <3>1. mark - 1 <= Len(q) BY <1>4, <1>11
    <3> QED BY ONLY <1>4, <1>11, <2>1, <3>1, PartIs
  <2>3. \A k \in 1 .. mark - 1 : 1 + k - 1 = k BY ONLY <1>11
  <2>4. \A k \in 1 .. Len(p) : p[k] = a[k] BY <1>11, <1>12, <2>2, <2>3
  <2>5. p = a
    <3>1. Len(p) = Len(a) BY <1>11, <1>12, <2>2
    <3> QED BY ONLY <1>12, <2>2, <2>4, <3>1, SameSequence
  <2>6. HandlerOf(a) = h BY <2>1 DEF Asks
  <2> QED BY <2>5, <2>6
<1>14. LocalPath(p) = p
  <2>1. \A k \in 1 .. mark - 1 : p[k] \notin {63, Percent, Dot, 0} BY <1>12 DEF Asks
  <2>2. \A k \in 2 .. mark - 1 : p[k] \notin {Slash, 92}
    <3>1. ASSUME NEW k \in 2 .. mark - 1 PROVE p[k] \notin {Slash, 92}
      <4>1. k \in 1 .. mark - 1 BY ONLY k \in 2 .. mark - 1, <1>4
      <4>2. q[k] \notin {Slash, 92} BY DEF Asks
      <4> QED BY <1>12, <4>1, <4>2
    <3> QED BY <3>1
  <2>3. \A k \in 1 .. Len(p) : p[k] # Percent BY <1>12, <2>1
  <2>4. UrlDecode(p, Len(p) + 1, FALSE) = [len |-> Len(p), text |-> p] BY <1>12, <2>3, PlainDecoded
  <2>5. UrlDecode(p, Len(p) + 1, FALSE).text = p
    <3>1. \A x, y : [len |-> x, text |-> y].text = y OBVIOUS
    <3> QED BY <2>4, <3>1, Zenon
  <2>6. Terminated(p) = p
    <3>1. \A k \in 1 .. mark - 1 : p[k] # 0 BY <2>1
    <3> QED BY <1>11, <1>12, <3>1, NotTerminated
  <2>7. CleanPath(p) = p
    <3>1. \A k \in 1 .. mark - 1 : p[k] # Dot BY <2>1
    <3> QED BY <1>11, <1>12, <2>2, <3>1, CleanPathIs
  <2> QED BY <2>5, <2>6, <2>7, Zenon DEF LocalPath
<1>15. PICK query : query = SubSeq(u, mark + 1, Len(u)) OBVIOUS
<1>16. PICK N \in Nat : N = m + 3 + K BY <1>4
<1>17. query \in Seq(Nat) /\ Len(query) = N /\ \A k \in 1 .. N : query[k] = u[mark + k]
  <2>1. mark + 1 \in Nat /\ L + K \in Int /\ 1 <= mark + 1 /\ mark + 1 <= (L + K) + 1 /\ (L + K) - (mark + 1) + 1 = N
    BY ONLY <1>1, <1>2, <1>4, <1>16
  <2>2. L + K <= Len(u) /\ query = SubSeq(u, mark + 1, L + K) BY <1>6, <1>15
  <2>3. query \in Seq(Nat) /\ Len(query) = (L + K) - (mark + 1) + 1
        /\ \A k \in 1 .. (L + K) - (mark + 1) + 1 : query[k] = u[(mark + 1) + k - 1]
    BY ONLY <1>6, <2>1, <2>2, PartIs
  <2>4. \A k \in 1 .. N : (mark + 1) + k - 1 = mark + k BY ONLY <1>4
  <2> QED BY <2>1, <2>3, <2>4
<1>18. VariableAt(query, NameOf(h), 3, m)
  <2>1. ASSUME NEW k \in 1 .. m + 3 PROVE query[k] = q[mark + k]
    <3>1. k \in 1 .. N /\ mark + k \in 1 .. L BY ONLY <1>1, <1>4, <1>16, k \in 1 .. m + 3, K \in Nat
    <3> QED BY <1>6, <1>17, <3>1
  <2> QED BY <2>1, Zenon DEF Asks
<1>19. \A k \in m + 3 + 1 .. N : query[k] = code[k - m - 3] /\ k - m - 3 \in 1 .. K
  <2>1. ASSUME NEW k \in m + 3 + 1 .. N PROVE query[k] = code[k - m - 3] /\ k - m - 3 \in 1 .. K
    <3>1. k \in 1 .. N /\ k - m - 3 \in 1 .. K /\ mark + k = L + (k - m - 3)
      BY ONLY <1>1, <1>4, <1>16, k \in m + 3 + 1 .. N, K \in Nat
    <3> QED BY <1>7, <1>17, <3>1
  <2> QED BY <2>1
<1>20. PICK n \in Nat : n = 3 OBVIOUS
<1>21. GetVar(query, NameOf(h), MaxLen) = d
  <2>1. PICK i \in Nat : i = m + n + 1 BY <1>4
  <2>2. N \in Int /\ 1 <= i /\ i <= N + 1 /\ N - i + 1 = K BY ONLY <1>4, <1>16, <1>20, <2>1, K \in Nat, N \in Nat
  <2>3. PICK a : a = SubSeq(query, i, N) OBVIOUS
  <2>4. a \in Seq(Nat) /\ Len(a) = N - i + 1 /\ \A k \in 1 .. N - i + 1 : a[k] = query[i + k - 1]
    <3>1. N <= Len(query) BY <1>17
    <3> QED BY ONLY <1>17, <2>2, <2>3, <3>1, i \in Nat, PartIs
  <2>5. ASSUME NEW k \in 1 .. K PROVE a[k] = code[k]
    <3>1. i + k - 1 \in m + 3 + 1 .. N /\ (i + k - 1) - m - 3 = k
      BY ONLY <1>4, <1>16, <1>20, <2>1, k \in 1 .. K, K \in Nat
    <3>2. a[k] = query[i + k - 1] BY <2>2, <2>4
    <3> QED BY <1>19, <3>1, <3>2
  <2>6. a = code
    <3>1. Len(a) = Len(code) /\ \A k \in 1 .. Len(a) : a[k] = code[k] BY <1>2, <2>2, <2>4, <2>5
    <3> QED BY ONLY <1>3, <2>4, <3>1, SameSequence
  <2>7. PICK name : name = NameOf(h) OBVIOUS
  <2>8. name \in Seq(Nat) /\ Len(name) = n BY <1>20, <2>7 DEF NameOf
  <2>9. m \in 1 .. N - n BY ONLY <1>4, <1>16, <1>20, K \in Nat
  <2>10. VariableAt(query, name, n, m) BY <1>18, <1>20, <2>7
  <2>11. \A k \in m + n + 1 .. N : query[k] # 38
    <3>1. ASSUME NEW k \in m + 3 + 1 .. N PROVE query[k] # 38
      <4>1. code[k - m - 3] \in Sent BY <1>3, <1>19
      <4> QED BY <1>19, <4>1, SentIsValid
    <3> QED BY <1>20, <3>1
  <2>12. d = UrlDecode(SubSeq(query, m + n + 1, N), MaxLen, TRUE) BY <2>1, <2>3, <2>6, Zenon
  <2>13. n >= 1 BY <1>20
  <2>14. GetVar(query, name, MaxLen) = d
    <3>1. PICK x \in Seq(Nat) : x = query BY <1>17
    <3>2. PICK y \in Seq(Nat) : y = name BY <2>8
    <3>3. PICK z \in 1 .. N - n : z = m BY <2>9
    <3>4. Len(x) = N BY <1>17, <3>1
    <3>5. Len(y) = n BY <2>8, <3>2
    <3>6. VariableAt(x, y, n, z) BY <2>10, <3>1, <3>2, <3>3
    <3>7. \A k \in z + n + 1 .. N : x[k] # 38 BY <2>11, <3>1, <3>3, Zenon
    <3>0. PICK form : form = TRUE OBVIOUS
    <3>8. d = UrlDecode(SubSeq(x, z + n + 1, N), MaxLen, form) BY <2>12, <3>0, <3>1, <3>3, Zenon
    <3>9. VariableIs(x, N, y, n, z, MaxLen, form, d)
      BY <2>13, <3>0, <3>4, <3>5, <3>6, <3>7, <3>8, Zenon DEF VariableIs
    <3>10. GetVar(x, y, MaxLen) = d BY <3>9, GetVarIs, Zenon
    <3> QED BY <3>1, <3>2, <3>10, Zenon
  <2> QED BY <2>7, <2>14
<1>22. HandleRequest(u) = IF h = 1 THEN JsonOutput(d) ELSE SnapshotKey(d)
  <2>1. HandlerOf(LocalPath(IF mark = 0 THEN u ELSE SubSeq(u, 1, mark - 1))) = h
    <3>1. mark # 0 BY <1>4
    <3> QED BY <1>10, <1>13, <1>14, <3>1, Zenon
  <2>2. mark # 0 /\ h # 3 BY <1>4
  <2>3. HandleRequest(u) = IF h = 1 THEN JsonOutput(GetVar(query, <<117, 114, 108>>, MaxLen))
                           ELSE SnapshotKey(GetVar(query, <<107, 101, 121>>, MaxLen))
    BY <1>9, <1>15, <2>1, <2>2, Zenon DEF HandleRequest
  <2>4. CASE h = 1
    <3>1. NameOf(h) = <<117, 114, 108>> BY <2>4, Zenon DEF NameOf
    <3> QED BY <1>21, <2>3, <2>4, <3>1, Zenon
  <2>5. CASE h # 1
    <3>1. NameOf(h) = <<107, 101, 121>> BY <2>5, Zenon DEF NameOf
    <3> QED BY <1>21, <2>3, <2>5, <3>1, Zenon
  <2> QED BY <2>4, <2>5
<1> QED BY <1>5, <1>8, <1>22

(* json_output, snapshot_action_append_handler: what they get is decoded   *)
(* to what was encoded.                                                    *)
CodeIs(value) == [len |-> Len(Encode(value)), text |-> Encode(value)]
Arrived(asks, value) ==
  IF asks = "key" /\ Len(value) % 3 = 0 /\ value # << >> THEN Append(value, Unset) ELSE value

LEMMA HandlerDecodes ==
  ASSUME NEW value \in Seq(1 .. 255)
  PROVE  /\ JsonOutput(CodeIs(value)).value = Arrived("json", value)
         /\ SnapshotKey(CodeIs(value)).value = Arrived("key", value)
<1>1. value \in Seq(Bytes)
  <2>1. 1 .. 255 \in SUBSET Bytes BY DEF Bytes
  <2> QED BY <2>1, OfMore
<1>2. PICK code \in Seq(Written) : code = Encode(value) BY <1>1, RoundTrip, Zenon
<1>3. PICK d : d = CodeIs(value) OBVIOUS
<1>4. d.len = Len(code) /\ d.text = code BY <1>2, <1>3 DEF CodeIs
<1>5. ~(d.len < 0)
  <2>1. Len(code) \in Nat OBVIOUS
  <2> QED BY <1>4, <2>1
<1>6. Terminated(code) = code
  <2>1. PICK n \in Nat : n = Len(code) OBVIOUS
  <2>2. ASSUME NEW k \in 1 .. n PROVE code[k] # 0
    <3>1. PICK c \in Written : c = code[k] BY <2>1
    <3>2. c \in 1 .. 122 BY WrittenChar
    <3>3. c # 0 BY ONLY <3>2
    <3> QED BY <3>1, <3>3, Zenon
  <2> QED BY <2>1, <2>2, NotTerminated
<1>7. code # << >> BY <1>1, <1>2, RoundTrip, Zenon
<1>8. PICK step : DecodeBlock(code) = Decoded(step, value, CellAfter(value)) BY <1>1, <1>2, RoundTrip, Zenon
<1>9. JsonOutput(d) = Answer("json", 200, DecodeBlock(code).out)
  BY <1>4, <1>5, <1>6, <1>7, Zenon DEF JsonOutput
<1>10. SnapshotKey(d) = Answer("key", 200, AsString(DecodeBlock(code)))
  BY <1>4, <1>5, <1>6, Zenon DEF SnapshotKey
<1>11. Decoded(step, value, CellAfter(value)).out = value BY DEF Decoded
<1>12. AsString(DecodeBlock(code)) = Arrived("key", value)
  <2>1. Unset # 0 BY DEF Unset
  <2>2. CellAfter(value) \in {0, Unset} BY Zenon DEF CellAfter
  <2>3. AsString(DecodeBlock(code)) = IF CellAfter(value) = 0 THEN value ELSE Append(value, Unset)
    BY <1>8, <2>2, StringOf
  <2> QED BY <2>1, <2>3, Zenon DEF CellAfter, Arrived
<1>13. Arrived("json", value) = value
  <2>1. "json" # "key" OBVIOUS
  <2> QED BY <2>1, Zenon DEF Arrived
<1>14. \A x, y : Answer(x, 200, y).value = y BY DEF Answer
<1>15. JsonOutput(d).value = Arrived("json", value)
  <2>1. DecodeBlock(code).out = value BY <1>8, <1>11
  <2>2. JsonOutput(d) = Answer("json", 200, value) BY <1>9, <2>1, Zenon
  <2> QED BY <1>13, <1>14, <2>2, Zenon
<1>16. SnapshotKey(d).value = Arrived("key", value) BY <1>10, <1>12, <1>14, Zenon
<1> QED BY <1>3, <1>15, <1>16, Zenon

LEMMA ValueAsked ==
  ASSUME NEW asks \in {"json", "key"}, NEW value \in Seq(1 .. 255), NEW chars, 10 \in chars,
         Len(Encode(value)) < MaxLen, NEW u, u = Asked(asks) \o Escaped(Encode(value), chars)
  PROVE  get_uri_type(u) = 2 /\ HandleRequest(u).value = Arrived(asks, value)
<1>1. value \in Seq(Bytes)
  <2>1. 1 .. 255 \in SUBSET Bytes BY DEF Bytes
  <2> QED BY <2>1, OfMore
<1>2. PICK code \in Seq(Written) : code = Encode(value) BY <1>1, RoundTrip, Zenon
<1>3. PICK n \in Nat : n = Len(code) OBVIOUS
<1>4. n # 0
  <2>1. code # << >> BY <1>1, <1>2, RoundTrip, Zenon
  <2> QED BY <1>3, <2>1
<1>5. n < MaxLen BY <1>2, <1>3
<1>6. PICK form : form = TRUE OBVIOUS
<1>7. /\ Escaped(code, chars) \in Seq(Sent)
      /\ UrlDecode(Escaped(code, chars), MaxLen, form) = [len |-> n, text |-> code]
  BY <1>3, <1>4, <1>5, EscapedArrives
<1>8. PICK d : d = UrlDecode(Escaped(code, chars), MaxLen, form) OBVIOUS
<1>9. d = CodeIs(value) BY <1>2, <1>3, <1>7, <1>8, Zenon DEF CodeIs
<1>10. d.len # -1
  <2>1. d.len = n BY <1>7, <1>8
  <2> QED BY <2>1
<1>11. d = UrlDecode(Escaped(code, chars), MaxLen, TRUE) BY <1>6, <1>8, Zenon
<1>12. CASE asks = "json"
  <2>1. u = JsonQuery \o Escaped(code, chars) BY <1>2, <1>12, Zenon DEF Asked
  <2>2. get_uri_type(u) = 2 /\ HandleRequest(u) = JsonOutput(d)
    <3>1. PICK h : h = 1 OBVIOUS
    <3>2. Asks(JsonQuery, 6, 1, h) BY <3>1, JsonAsks, Zenon
    <3>3. get_uri_type(u) = 2 /\ HandleRequest(u) = IF h = 1 THEN JsonOutput(d) ELSE SnapshotKey(d)
      BY ONLY <1>7, <1>10, <1>11, <2>1, <3>2, HandlerAsked
    <3> QED BY <3>1, <3>3, Zenon
  <2> QED BY <1>9, <1>12, <2>2, HandlerDecodes, Zenon
<1>13. CASE asks # "json"
  <2>0. asks = "key" BY <1>13
  <2>1. u = KeyQuery \o Escaped(code, chars) BY <1>2, <1>13, Zenon DEF Asked
  <2>2. get_uri_type(u) = 2 /\ HandleRequest(u) = SnapshotKey(d)
    <3>1. PICK h : h = 2 OBVIOUS
    <3>2. Asks(KeyQuery, 10, 3, h) BY <3>1, KeyAsks, Zenon
    <3>3. get_uri_type(u) = 2 /\ HandleRequest(u) = IF h = 1 THEN JsonOutput(d) ELSE SnapshotKey(d)
      BY ONLY <1>7, <1>10, <1>11, <2>1, <3>2, HandlerAsked
    <3>4. h # 1 BY <3>1
    <3> QED BY <3>3, <3>4, Zenon
  <2> QED BY <1>9, <2>0, <2>2, HandlerDecodes, Zenon
<1> QED BY <1>12, <1>13

(* A URI of this server is answered by its handler.                        *)
LEMMA TextOfUri ==
  ASSUME client.uri \in Seq(Nat)
  PROVE  Text(<<URI>>) = client.uri
<1>1. PICK word : word = <<URI>> OBVIOUS
<1>2. Len(word) = 1 /\ word[1] = URI BY <1>1
<1>3. PICK uri \in Seq(Nat) : uri = client.uri OBVIOUS
<1> DEFINE seqs == [i \in 1 .. Len(word) |-> IF word[i] = URI THEN client.uri ELSE <<word[i]>>]
<1>4. seqs = [i \in 1 .. 1 |-> uri] BY <1>2, <1>3
<1>5. seqs \in Seq(Seq(Nat)) /\ Len(seqs) = 1 /\ seqs[1] = uri
  <2>1. [i \in 1 .. 1 |-> uri] \in [1 .. 1 -> Seq(Nat)] OBVIOUS
  <2>2. PICK one \in [1 .. 1 -> Seq(Nat)] : one = [i \in 1 .. 1 |-> uri] BY <2>1
  <2>3. one \in Seq(Seq(Nat)) /\ Len(one) = 1
    <3>1. PICK T : T = Seq(Nat) OBVIOUS
    <3>2. PICK n \in Nat : n = 1 OBVIOUS
    <3>3. PICK g \in [1 .. n -> T] : g = one BY <3>1, <3>2
    <3>4. g \in Seq(T) /\ Len(g) = n BY ONLY g \in [1 .. n -> T], n \in Nat
    <3> QED BY <3>1, <3>2, <3>3, <3>4, Zenon
  <2>4. one[1] = uri BY <2>2
  <2> HIDE DEF seqs
  <2> QED BY <1>4, <2>2, <2>3, <2>4
<1>6. Text(word) = FlattenSeq(seqs) BY Zenon DEF Text
<1> HIDE DEF seqs
<1>7. 1 \in Nat /\ 1 # 0 OBVIOUS
<1>8. PICK f : Flattens(f, seqs, 1) /\ FlattenSeq(seqs) = f[1] BY <1>5, <1>7, FlattenLoop
<1>9. f[1] = seqs[1] BY <1>8, Zenon DEF Flattens
<1> QED BY <1>1, <1>3, <1>5, <1>6, <1>8, <1>9, Zenon

LEMMA ProcessHandles ==
  ASSUME NEW r, r.target = <<URI>>, client.uri \in Seq(Nat), get_uri_type(client.uri) = 2, Process(r).code = 200
  PROVE  Process(r) = HandleRequest(client.uri)
<1> DEFINE text == Text(r.target)
           type == get_uri_type(text)
           local_uri == IF type = 2 THEN text ELSE get_rel_url_at_current_server(text)
<1>1. Process(r) = IF ~HostOK(r) THEN Error(400)
                   ELSE IF ~LengthOK(r) THEN Error(411)
                   ELSE IF r.version \notin {<<HTTP10>>, <<HTTP11>>} THEN Error(505)
                   ELSE IF type = 0 THEN Error(400)
                   ELSE IF type = 1 \/ local_uri = << >> THEN Closed
                   ELSE HandleRequest(local_uri)
  BY Zenon DEF Process
<1>2. text = client.uri BY TextOfUri, Zenon
<1>3. type = 2 /\ local_uri = client.uri BY <1>2, Zenon
<1> HIDE DEF text, type, local_uri
<1>4. Error(400).code = 400 /\ Error(411).code = 411 /\ Error(505).code = 505 /\ Closed.code = 0
  BY DEF Error, Closed, Answer
<1>5. 400 # 200 /\ 411 # 200 /\ 505 # 200 /\ 0 # 200 OBVIOUS
<1>6. PICK p : p = Process(r) OBVIOUS
<1>7. p \notin {Error(400), Error(411), Error(505), Closed} BY <1>4, <1>5, <1>6
<1>8. p = HandleRequest(local_uri) \/ p \in {Error(400), Error(411), Error(505), Closed} BY <1>1, <1>6, Zenon
<1> QED BY <1>3, <1>6, <1>7, <1>8, Zenon

LEMMA ArrivesIsEnough == AnsweredWell => ValueArrives
<1> SUFFICES ASSUME AnsweredWell, pc = "done", answer.code = 200, client.asks \in {"json", "key"}
             PROVE  answer.value = Arrived(client.asks, client.value)
  BY Zenon DEF ValueArrives, Arrived
<1>1. PICK b : HasRead(b) /\ (HadNone(b) \/ HadOne(b)) BY DEF AnsweredWell
<1>2. client \in Clients /\ data_len \in Nat /\ data_len <= Len(client.stream) BY DEF AnsweredWell, ReadInTime
<1>3. PICK v \in Visits : client \in Range(v) BY <1>2 DEF Clients
<1>4. client.stream \in Seq(Nat) /\ client.uri \in Seq(Nat) BY <1>3, VisitsAssumption, UrisAssumption
<1>5. /\ IsRfc(client.stream)
      /\ client.value \in Seq(1 .. 255) /\ Len(Encode(client.value)) < MaxLen
      /\ 10 \in client.escapes /\ client.uri = Asked(client.asks) \o Escaped(Encode(client.value), client.escapes)
  BY <1>3, AskingAssumption, Zenon
<1>6. PICK s \in Seq(Nat) : s = client.stream BY <1>4
<1>7. Len(b) = buf_size /\ data_len <= Len(b) /\ \A k \in 1 .. data_len : b[k] = s[k]
  BY <1>1, <1>6 DEF HasRead, Agrees
<1>8. b \in Seq(Nat) BY <1>1 DEF HasRead, Agrees
<1>9. HeaderLen(b, data_len) > 0 /\ answer = AnswerOf(b)
  <2>1. ~HadNone(b) BY DEF HadNone
  <2> QED BY <1>1, <2>1 DEF HadOne
<1>10. PICK e : e = Min(Ends(s)) OBVIOUS
<1>11. e \in Nat /\ e + 3 <= Len(s) BY <1>5, <1>6, <1>10, RequestLine
<1>12. e + 3 <= data_len
  <2>1. PICK n \in Nat : n = data_len BY <1>2
  <2>2. n <= Len(b) /\ \A k \in 1 .. e + 3 : k <= n => b[k] = s[k]
    <3>1. \A k \in 1 .. e + 3 : k <= n => k \in 1 .. n OBVIOUS
    <3> QED BY <1>7, <2>1, <3>1
  <2>3. HeaderLen(b, n) = IF e + 3 <= n THEN e + 3 ELSE 0
    <3>1. IsRfc(s) BY <1>5, <1>6
    <3> QED BY ONLY <1>8, <1>10, <2>2, <3>1, s \in Seq(Nat), n \in Nat, HeaderFound
  <2> QED BY <1>9, <2>1, <2>3
<1>13. Agrees(b, s, e + 3)
  <2>1. Len(b) \in Nat BY <1>8
  <2>2. e + 3 <= Len(b) /\ \A k \in 1 .. e + 3 : k \in 1 .. data_len BY ONLY <1>2, <1>7, <1>11, <1>12, <2>1
  <2> QED BY <1>7, <1>8, <2>2 DEF Agrees
<1>14. PICK r : r = ParseRequest(b) OBVIOUS
<1>15. SaysWhatIsSent(s, r) BY <1>5, <1>6, <1>10, <1>13, <1>14, WellFormedParsed
<1>16. r.ok = TRUE /\ r.target = <<URI>> BY <1>15, Zenon DEF SaysWhatIsSent
<1>17. answer = Process(r) BY <1>9, <1>14, <1>16, Zenon DEF AnswerOf
<1>18. get_uri_type(client.uri) = 2 /\ HandleRequest(client.uri).value = Arrived(client.asks, client.value)
  <2>1. PICK c : c = client OBVIOUS
  <2>2. PICK asks \in {"json", "key"} : asks = c.asks BY <2>1
  <2>3. PICK value \in Seq(1 .. 255) : value = c.value BY <1>5, <2>1
  <2>4. PICK chars : chars = c.escapes OBVIOUS
  <2>5. PICK u : u = c.uri OBVIOUS
  <2>6. 10 \in chars /\ Len(Encode(value)) < MaxLen /\ u = Asked(asks) \o Escaped(Encode(value), chars)
    BY <1>5, <2>1, <2>2, <2>3, <2>4, <2>5, Zenon
  <2>7. get_uri_type(u) = 2 /\ HandleRequest(u).value = Arrived(asks, value) BY ONLY <2>6, ValueAsked
  <2> QED BY <2>1, <2>2, <2>3, <2>5, <2>7, Zenon
<1>19. Process(r) = HandleRequest(client.uri) BY <1>4, <1>16, <1>17, <1>18, ProcessHandles
<1> QED BY <1>17, <1>18, <1>19, Zenon

(* mg_url_decode, mg_get_var, json_output, snapshot_action_append_handler: *)
(* whatever a client encodes in base64, escapes and asks for is what faup  *)
(* decodes as a URL or appends as a key, however the request came in; only *)
(* a key whose length is a multiple of three is followed by what the stack *)
(* held.                                                                   *)
THEOREM ValuesArrive == RequestSpec => []ValueArrives
<1>1. RequestInit => AnsweredWell BY AnsweredInit
<1>2. AnsweredWell /\ [RequestNext]_requestVars => AnsweredWell' BY AnsweredStep
<1>3. AnsweredWell => ValueArrives BY ArrivesIsEnough
<1> QED BY <1>1, <1>2, <1>3, PTL DEF RequestSpec
==============================================================================
