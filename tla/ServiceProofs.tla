--------------------------- MODULE ServiceProofs ----------------------------
(***************************************************************************)
(* Proofs about Service: what wait_closed, shutdown_default_executor and   *)
(* Runner.close promise, for any number of connections, waiters, jobs,     *)
(* pools and interrupts.                                                   *)
(***************************************************************************)
EXTENDS Service, FiniteSetTheorems, TLAPS

ServerTypes ==
    /\ srv \in [servers : BOOLEAN, serving : BOOLEAN, active : Int,
                clients : SUBSET Conns, accepting : {"armed", "retry", "off"},
                late : SUBSET Conns, deferred : BOOLEAN]
    /\ conn \in [Conns -> {"none", "open", "closed"}]
    /\ waits \in [Closers -> {"idle", "pending", "done", "cancelled"}]

(* The set of clients is that of the open connections, and active counts   *)
(* it.                                                                     *)
ClientsCounted ==
    /\ srv.clients = {c \in Conns : conn[c] = "open"}
    /\ srv.active = Cardinality(srv.clients)

(* A server that accepts is not closed, and one that serves from the start *)
(* does so until it is closed: _detach does not wake before.               *)
ServesUntilClosed ==
    /\ srv.accepting # "off" => srv.servers
    /\ ~srv.deferred /\ srv.servers => srv.serving

Quiet ==
    (\E w \in Closers : waits[w] = "done") /\ ~srv.deferred =>
        ~srv.servers /\ srv.clients \subseteq srv.late

ServerInv == ServerTypes /\ ClientsCounted /\ ServesUntilClosed /\ Quiet

-----------------------------------------------------------------------------
(* active is a natural number, and zero only without clients.              *)
LEMMA ActiveIsZero ==
    ASSUME ServerInv
    PROVE  /\ IsFiniteSet(srv.clients)
           /\ srv.active \in Nat
           /\ srv.active <= 0 => srv.clients = {}
<1>1. IsFiniteSet(srv.clients)
  BY FS_Subset, ServerAssumption DEF ServerInv, ServerTypes
<1>2. Cardinality(srv.clients) \in Nat
  BY <1>1, FS_CardinalityType
<1>3. Cardinality(srv.clients) = 0 => srv.clients = {}
  BY <1>1, FS_EmptySet
<1> QED BY <1>1, <1>2, <1>3 DEF ServerInv, ClientsCounted

(* _wakeup answers the pending calls and leaves the others alone.          *)
LEMMA WakeupKeepsTypes ==
    ASSUME ServerInv
    PROVE  /\ _wakeup(waits) \in [Closers -> {"idle", "pending", "done", "cancelled"}]
           /\ close_wakes(waits) \in [Closers -> {"idle", "pending", "done", "cancelled"}]
BY DEF ServerInv, ServerTypes, _wakeup, close_wakes

(* A set of connections leaves: one of them, or all.                       *)
LEMMA DetachKeeps ==
    ASSUME ServerInv, NEW cs \in SUBSET srv.clients,
           cs = srv.clients \/ \E c \in Conns : cs = {c},
           _detach_all(cs)
    PROVE  ServerInv'
<1> DEFINE active == srv.active - Cardinality(cs)
<1>1. /\ IsFiniteSet(srv.clients \ cs)
      /\ Cardinality(srv.clients \ cs) = active
      /\ active \in Int
  <2>1. CASE cs = srv.clients
    <3>1. srv.clients \ cs = {}
      BY <2>1
    <3>2. active = 0
      BY <2>1, ActiveIsZero DEF ServerInv, ClientsCounted
    <3> QED BY <3>1, <3>2, FS_EmptySet
  <2>2. CASE \E c \in Conns : cs = {c}
    <3> PICK c \in Conns : cs = {c}
      BY <2>2
    <3>1. Cardinality(cs) = 1
      BY FS_Singleton
    <3>2. c \in srv.clients
      OBVIOUS
    <3>3. /\ IsFiniteSet(srv.clients \ {c})
          /\ Cardinality(srv.clients \ {c}) = Cardinality(srv.clients) - 1
      BY <3>2, ActiveIsZero, FS_RemoveElement
    <3> QED BY <3>1, <3>3, ActiveIsZero DEF ServerInv, ClientsCounted
  <2> QED BY <2>1, <2>2
<1>2. active <= 0 => srv.clients \ cs = {}
  <2>1. Cardinality(srv.clients \ cs) \in Nat
    BY <1>1, FS_CardinalityType
  <2> QED BY <1>1, <2>1, FS_EmptySet
<1>3. srv' = [srv EXCEPT !.active = active, !.clients = @ \ cs]
  BY DEF _detach_all
<1>4. conn' = [c \in Conns |-> IF c \in cs THEN "closed" ELSE conn[c]]
  BY DEF _detach_all
<1>5. ServerTypes'
  <2>1. waits' \in [Closers -> {"idle", "pending", "done", "cancelled"}]
    <3>1. waits' = _wakeup(waits) \/ waits' = waits
      BY DEF _detach_all
    <3> QED BY <3>1, WakeupKeepsTypes DEF ServerInv, ServerTypes
  <2>2. conn' \in [Conns -> {"none", "open", "closed"}]
    BY <1>4 DEF ServerInv, ServerTypes
  <2>3. active \in Int
    BY <1>1
  <2>4. srv' \in [servers : BOOLEAN, serving : BOOLEAN, active : Int,
                  clients : SUBSET Conns, accepting : {"armed", "retry", "off"},
                  late : SUBSET Conns, deferred : BOOLEAN]
    <3> HIDE DEF active
    <3> QED BY <1>3, <2>3 DEF ServerInv, ServerTypes
  <2> QED BY <2>1, <2>2, <2>4 DEF ServerTypes
<1>6. srv'.clients = srv.clients \ cs /\ srv'.active = active
  BY <1>3 DEF ServerInv, ServerTypes
<1>7. {c \in Conns : conn'[c] = "open"} = srv.clients \ cs
  BY <1>4 DEF ServerInv, ServerTypes, ClientsCounted
<1>8. ClientsCounted'
  BY <1>1, <1>6, <1>7 DEF ClientsCounted
<1>9. ServesUntilClosed'
  BY <1>3 DEF ServesUntilClosed, ServerInv, ServerTypes
<1>10. Quiet'
  <2>1. CASE waits' = waits
    BY <1>3, <2>1 DEF Quiet, ServerInv, ServerTypes
  <2>2. CASE active <= 0 /\ (~srv.servers \/ ~is_serving(srv))
    BY <1>2, <1>3, <2>2 DEF Quiet, ServerInv, ServerTypes, is_serving, ServesUntilClosed
  <2> QED BY <2>1, <2>2 DEF _detach_all
<1> QED BY <1>5, <1>8, <1>9, <1>10 DEF ServerInv

(* The server is closed: the waiters are woken if nobody is connected.     *)
LEMMA CloseKeeps ==
    ASSUME ServerInv, conn' = conn, srv' = Closed(srv),
           waits' \in [Closers -> {"idle", "pending", "done", "cancelled"}],
           \A w \in Closers : waits'[w] = "done" =>
                                waits[w] = "done" \/ srv.active <= 0
    PROVE  ServerInv'
<1>1. ServerTypes'
  BY DEF ServerInv, ServerTypes, Closed
<1>2. ClientsCounted'
  BY DEF ServerInv, ServerTypes, Closed, ClientsCounted
<1>3. ServesUntilClosed'
  BY DEF ServerInv, ServerTypes, Closed, ServesUntilClosed
<1>4. Quiet'
  BY ActiveIsZero DEF ServerInv, ServerTypes, Closed, Quiet
<1> QED BY <1>1, <1>2, <1>3, <1>4 DEF ServerInv

(* A connection is accepted; the protocol factory may close the server.    *)
LEMMA AcceptKeeps ==
    ASSUME ServerInv, NEW c \in Conns, NEW closes \in BOOLEAN,
           accept_callback(c, closes)
    PROVE  ServerInv'
<1> DEFINE x == IF closes THEN [Closed(srv) EXCEPT !.late = @ \cup {c}] ELSE srv
<1>1. srv' = [x EXCEPT !.active = @ + 1, !.clients = @ \cup {c}]
  BY DEF accept_callback, _attach
<1>2. c \notin srv.clients
  BY DEF accept_callback, ServerInv, ClientsCounted
<1>3. /\ IsFiniteSet(srv.clients \cup {c})
      /\ Cardinality(srv.clients \cup {c}) = Cardinality(srv.clients) + 1
  BY <1>2, ActiveIsZero, FS_AddElement
<1>4. ServerTypes'
  <2> DEFINE Types == [servers : BOOLEAN, serving : BOOLEAN, active : Int,
                       clients : SUBSET Conns,
                       accepting : {"armed", "retry", "off"},
                       late : SUBSET Conns, deferred : BOOLEAN]
  <2>1. x \in Types
    BY DEF Closed, ServerInv, ServerTypes
  <2>2. srv' \in Types
    <3> HIDE DEF x
    <3>1. x.active + 1 \in Int /\ x.clients \cup {c} \in SUBSET Conns
      BY <2>1
    <3> QED BY <1>1, <2>1, <3>1
  <2>3. conn' \in [Conns -> {"none", "open", "closed"}]
    BY DEF accept_callback, ServerInv, ServerTypes
  <2>4. waits' = close_wakes(waits) \/ waits' = waits
    BY DEF accept_callback
  <2>5. waits' \in [Closers -> {"idle", "pending", "done", "cancelled"}]
    BY <2>4, WakeupKeepsTypes DEF ServerInv, ServerTypes
  <2> QED BY <2>2, <2>3, <2>5 DEF ServerTypes
<1>5. srv'.clients = srv.clients \cup {c} /\ srv'.active = srv.active + 1
  BY <1>1 DEF Closed, ServerInv, ServerTypes
<1>6. {d \in Conns : conn'[d] = "open"} = srv.clients \cup {c}
  BY DEF accept_callback, ServerInv, ServerTypes, ClientsCounted
<1>7. ClientsCounted'
  BY <1>3, <1>5, <1>6 DEF ClientsCounted, ServerInv
<1>8. ServesUntilClosed'
  BY <1>1 DEF ServesUntilClosed, Closed, ServerInv, ServerTypes
<1>9. Quiet'
  <2>1. srv.servers
    BY DEF accept_callback, ServerInv, ServesUntilClosed
  <2>2. srv'.deferred = srv.deferred
    BY <1>1 DEF Closed, ServerInv, ServerTypes
  <2>3. CASE closes
    <3>1. ~srv'.servers /\ srv'.late = srv.late \cup {c}
      BY <1>1, <2>3 DEF Closed, ServerInv, ServerTypes
    <3>2. CASE srv.active <= 0
      BY <3>1, <3>2, <1>5, ActiveIsZero DEF Quiet
    <3>3. CASE ~(srv.active <= 0)
      BY <2>1, <2>2, <2>3, <3>3 DEF accept_callback, close_wakes, Quiet, ServerInv
    <3> QED BY <3>2, <3>3
  <2>4. CASE ~closes
    BY <2>1, <2>2, <2>4 DEF accept_callback, Quiet, ServerInv
  <2> QED BY <2>3, <2>4
<1> QED BY <1>4, <1>7, <1>8, <1>9 DEF ServerInv

(* A call of wait_closed, or its cancellation.                             *)
LEMMA WaitKeeps ==
    ASSUME ServerInv, NEW w \in Closers, WaitClosed(w) \/ WaitCancelled(w)
    PROVE  ServerInv'
<1>1. ServerTypes'
  BY DEF WaitClosed, WaitCancelled, wait_closed, ServerInv, ServerTypes
<1>2. ClientsCounted' /\ ServesUntilClosed'
  BY DEF WaitClosed, WaitCancelled, ServerInv, ClientsCounted, ServesUntilClosed
<1>3. Quiet'
  <2>1. srv' = srv
    BY DEF WaitClosed, WaitCancelled
  <2>2. \A v \in Closers : waits'[v] = "done" =>
            waits[v] = "done" \/ (~srv.servers /\ srv.active <= 0)
    BY DEF WaitClosed, WaitCancelled, wait_closed, ServerInv, ServerTypes
  <2> QED BY <2>1, <2>2, ActiveIsZero DEF Quiet, ServerInv
<1> QED BY <1>1, <1>2, <1>3 DEF ServerInv

(* What does not touch the server's part leaves the invariant alone.       *)
LEMMA ElsewhereKeeps ==
    ASSUME ServerInv, UNCHANGED serverVars
    PROVE  ServerInv'
BY DEF serverVars, ServerInv, ServerTypes, ClientsCounted, ServesUntilClosed, Quiet

(* One case for each operation of the server.                              *)
LEMMA ServerStepKeeps ==
    ASSUME ServerInv, ServerStep
    PROVE  ServerInv'
<1>1. ASSUME NEW c \in Conns, NEW closes \in BOOLEAN, accept_callback(c, closes)
      PROVE  ServerInv'
  BY <1>1, AcceptKeeps
<1>2. ASSUME NEW c \in Conns, ConnectionCloses(c)
      PROVE  ServerInv'
  <2>1. {c} \in SUBSET srv.clients
    BY <1>2 DEF ConnectionCloses, ServerInv, ClientsCounted
  <2> QED BY <1>2, <2>1, DetachKeeps DEF ConnectionCloses
<1>3. CASE close_clients
  BY <1>3, DetachKeeps DEF close_clients
<1>4. CASE close
  <2>1. \A w \in Closers : waits'[w] = "done" =>
            waits[w] = "done" \/ srv.active <= 0
    BY <1>4 DEF close, close_wakes
  <2>2. waits' \in [Closers -> {"idle", "pending", "done", "cancelled"}]
    BY <1>4, WakeupKeepsTypes DEF close
  <2>3. conn' = conn /\ srv' = Closed(srv)
    BY <1>4 DEF close
  <2> QED BY <2>1, <2>2, <2>3, CloseKeeps
<1>5. CASE start_serving \/ AcceptFails \/ accept_retry_callback
  <2>1. CASE start_serving
    BY <2>1 DEF start_serving, ServerInv, ServerTypes, ClientsCounted,
                ServesUntilClosed, Quiet
  <2>2. CASE AcceptFails
    BY <2>2 DEF AcceptFails, ServerInv, ServerTypes, ClientsCounted,
                ServesUntilClosed, Quiet
  <2>3. CASE accept_retry_callback
    BY <2>3 DEF accept_retry_callback, ServerInv, ServerTypes, ClientsCounted,
                ServesUntilClosed, Quiet
  <2> QED BY <1>5, <2>1, <2>2, <2>3
<1>6. ASSUME NEW w \in Closers, WaitClosed(w) \/ WaitCancelled(w)
      PROVE  ServerInv'
  BY <1>6, WaitKeeps
<1> QED BY <1>1, <1>2, <1>3, <1>4, <1>5, <1>6 DEF ServerStep

(* Main leaves its block: the server is closed, if it was not, and main    *)
(* waits.                                                                  *)
LEMMA MainLeavesKeeps ==
    ASSUME ServerInv, MainLeaves
    PROVE  ServerInv'
<1> DEFINE ws == IF srv.servers THEN close_wakes(waits) ELSE waits
<1>1. ws \in [Closers -> {"idle", "pending", "done", "cancelled"}]
  BY WakeupKeepsTypes DEF ServerInv, ServerTypes
<1>2. Closed(srv).active = srv.active
  BY DEF Closed, ServerInv, ServerTypes
<1>3. waits' = wait_closed(ws, Closed(srv), Main)
  BY DEF MainLeaves
<1>4. waits' \in [Closers -> {"idle", "pending", "done", "cancelled"}]
  BY <1>1, <1>3 DEF wait_closed
<1>5. \A w \in Closers : ws[w] = "done" => waits[w] = "done" \/ srv.active <= 0
  BY DEF close_wakes
<1>6. \A w \in Closers : waits'[w] = "done" => ws[w] = "done" \/ srv.active <= 0
  BY <1>1, <1>2, <1>3 DEF wait_closed
<1> QED BY <1>4, <1>5, <1>6, CloseKeeps DEF MainLeaves

(* Every step of the program keeps the invariant of the server.            *)
LEMMA NextKeeps ==
    ASSUME ServerInv, [Next]_vars
    PROVE  ServerInv'
<1>1. CASE ServerStep
  BY <1>1, ServerStepKeeps
<1>2. CASE ExecutorStep
  BY <1>2, ElsewhereKeeps DEF ExecutorStep
<1>3. CASE MainLeaves
  BY <1>3, MainLeavesKeeps
<1>4. CASE MainEnds \/ \E timed \in BOOLEAN : MainShutsDown(timed)
  BY <1>4, ElsewhereKeeps DEF MainEnds, MainShutsDown
<1>5. CASE MainCancelled
  <2>1. CASE UNCHANGED waits
    BY <1>5, <2>1, ElsewhereKeeps DEF MainCancelled, serverVars
  <2>2. CASE WaitCancelled(Main)
    BY <2>2, WaitKeeps, ServiceAssumption
  <2> QED BY <1>5, <2>1, <2>2 DEF MainCancelled, WaitCancelled
<1>6. ASSUME NEW w \in Closers, TaskCancelled(w)
      PROVE  ServerInv'
  BY <1>6, WaitKeeps DEF TaskCancelled
<1>7. CASE DoneCallback \/ (\E stale \in BOOLEAN : StopRuns(stale)) \/ Interrupt
           \/ shutdown_asyncgens \/ RunnerShutsDown
  BY <1>7, ElsewhereKeeps DEF DoneCallback, StopRuns, Interrupt,
                              shutdown_asyncgens, RunnerShutsDown
<1>8. CASE UNCHANGED vars
  BY <1>8, ElsewhereKeeps DEF vars, serverVars
<1> QED BY <1>1, <1>2, <1>3, <1>4, <1>5, <1>6, <1>7, <1>8 DEF Next

(* A new server has no clients and no waiters.                             *)
LEMMA InitHolds ==
    ASSUME Init
    PROVE  ServerInv
<1>1. PICK start \in Starts :
        srv = [servers |-> TRUE, serving |-> start, active |-> 0, clients |-> {},
               accepting |-> "armed", late |-> {}, deferred |-> ~start]
  BY DEF Init, ServerInit
<1>2. start \in BOOLEAN
  BY ServerAssumption
<1>3. ServerTypes
  BY <1>1, <1>2 DEF Init, ServerInit, ServerTypes
<1>4. ClientsCounted
  BY <1>1, FS_EmptySet DEF Init, ServerInit, ClientsCounted
<1>5. ServesUntilClosed /\ Quiet
  BY <1>1, <1>2 DEF Init, ServerInit, ServesUntilClosed, Quiet
<1> QED BY <1>3, <1>4, <1>5 DEF ServerInv

(* wait_closed of src/talyn/server.py: in every run of a program under a   *)
(* Runner, whoever it returned to has a closed server without connections  *)
(* (but for those that a closing protocol factory attaches), and           *)
(* _active_count is the number of open connections.                        *)
THEOREM QuietAfterWaitClosed == Spec => []WaitClosedMeansQuiet
<1>1. Init => ServerInv
  BY InitHolds
<1>2. ServerInv /\ [Next]_vars => ServerInv'
  BY NextKeeps
<1>3. ServerInv => WaitClosedMeansQuiet
  BY DEF ServerInv, ClientsCounted, Quiet, WaitClosedMeansQuiet
<1> QED BY <1>1, <1>2, <1>3, PTL DEF Spec

-----------------------------------------------------------------------------
(* The executor: what shutdown_default_executor has waited for.            *)

Callbacks == ({"job"} \X Jobs) \cup ({"shutdown"} \X Nat)

ExecutorTypes ==
    /\ ex \in [default : Nat, pools : Nat, called : BOOLEAN, closed : BOOLEAN]
    /\ job \in [Jobs -> [at : {"new", "running", "posted", "delivered", "dropped"},
                         pool : Nat]]
    /\ down \in [at : {"no", "joining", "joined", "abandoned", "done"},
                 pool : Nat, timed : BOOLEAN]
    /\ soon \in Seq(Callbacks)

(* Pools are numbered: the one that is shut down is not the default any    *)
(* more, and will not be, so it gets no further job.                       *)
PoolsApart ==
    /\ ex.default <= ex.pools
    /\ down.pool <= ex.pools
    /\ down.pool # 0 => ex.default # down.pool
    /\ down.at \in {"joining", "joined"} => down.pool # 0
    /\ \A j \in Jobs : job[j].at = "new" <=> job[j].pool = 0

(* A callback that ends a shutdown is not that of a pool which is still to *)
(* be shut down.                                                           *)
ShutdownsApart ==
    \A k \in 1 .. Len(soon) :
        /\ soon[k][1] = "shutdown" =>
            /\ soon[k][2] # 0
            /\ soon[k][2] <= ex.pools
            /\ soon[k][2] # ex.default
            /\ down.at = "joining" => soon[k][2] # down.pool
        /\ soon[k][1] = "job" => job[soon[k][2]].pool # 0

(* A job that a worker posted is in soon; only a closed loop drops one.    *)
PostedIsQueued ==
    \A j \in Jobs :
        /\ job[j].at = "posted" => \E i \in 1 .. Len(soon) : soon[i] = <<"job", j>>
        /\ job[j].at = "dropped" => ex.closed
        /\ down.at = "joined" /\ job[j].pool = down.pool => job[j].at # "running"

(* The result of a job comes before the end of the shutdown of its pool.   *)
ResultsBeforeEnd ==
    down.at = "joined" =>
        \A k \in 1 .. Len(soon) : soon[k] = <<"shutdown", down.pool>> =>
            \A j \in Jobs : job[j].pool = down.pool =>
                \/ job[j].at = "delivered"
                \/ \E i \in 1 .. (k - 1) : soon[i] = <<"job", j>>

AllDelivered ==
    down.at = "done" /\ down.pool # 0 =>
        \A j \in Jobs : job[j].pool = down.pool => job[j].at = "delivered"

ExecutorInv ==
    /\ ExecutorTypes
    /\ PoolsApart
    /\ ShutdownsApart
    /\ PostedIsQueued
    /\ ResultsBeforeEnd
    /\ AllDelivered

(* A job goes to a pool that is not being shut down.                       *)
LEMMA RunInExecutorKeeps ==
    ASSUME ExecutorInv, NEW j \in Jobs, run_in_executor(j)
    PROVE  ExecutorInv'
<1> DEFINE pool == IF ex.default = 0 THEN ex.pools + 1 ELSE ex.default
<1>1. /\ pool \in Nat /\ pool # 0 /\ pool # down.pool
      /\ \A k \in 1 .. Len(soon) : soon[k][1] = "shutdown" => soon[k][2] # pool
  BY DEF ExecutorInv, ExecutorTypes, PoolsApart, ShutdownsApart, Callbacks
<1>2. /\ ex' = [ex EXCEPT !.default = pool,
                          !.pools = IF ex.default = 0 THEN pool ELSE @]
      /\ job' = [job EXCEPT ![j] = [at |-> "running", pool |-> pool]]
      /\ down' = down /\ soon' = soon
  BY DEF run_in_executor
<1> HIDE DEF pool
<1>3. ExecutorTypes'
  BY <1>1, <1>2 DEF ExecutorInv, ExecutorTypes
<1>4. /\ ex'.default = pool /\ ex'.closed = ex.closed
      /\ pool <= ex'.pools /\ ex.pools <= ex'.pools
  BY <1>1, <1>2 DEF pool, ExecutorInv, ExecutorTypes, PoolsApart
<1>5. /\ job'[j].at = "running" /\ job'[j].pool = pool
      /\ \A i \in Jobs : i # j => job'[i] = job[i]
  BY <1>2 DEF ExecutorInv, ExecutorTypes
<1>6. job[j].at = "new"
  BY DEF run_in_executor
<1>7. PoolsApart'
  BY <1>1, <1>2, <1>3, <1>4, <1>5 DEF ExecutorInv, ExecutorTypes, PoolsApart
<1>8. ShutdownsApart'
  <2>1. \A k \in 1 .. Len(soon) : soon[k] \in Callbacks
    BY DEF ExecutorInv, ExecutorTypes
  <2>2. \A k \in 1 .. Len(soon) : soon[k][1] = "job" => job'[soon[k][2]].pool # 0
    BY <1>1, <1>5, <2>1 DEF Callbacks, ExecutorInv, ShutdownsApart
  <2>3. \A k \in 1 .. Len(soon) : soon[k][1] = "shutdown" => soon[k][2] \in Nat
    BY <2>1 DEF Callbacks
  <2> QED BY <1>1, <1>2, <1>3, <1>4, <2>2, <2>3
          DEF ExecutorInv, ExecutorTypes, ShutdownsApart
<1>9. PostedIsQueued'
  BY <1>1, <1>2, <1>4, <1>5 DEF ExecutorInv, PostedIsQueued
<1>10. ResultsBeforeEnd' /\ AllDelivered'
  BY <1>1, <1>2, <1>5 DEF ExecutorInv, ResultsBeforeEnd, AllDelivered
<1> QED BY <1>3, <1>7, <1>8, <1>9, <1>10 DEF ExecutorInv

(* A pool that replaces the default one is new.                            *)
LEMMA SetDefaultKeeps ==
    ASSUME ExecutorInv, set_default_executor
    PROVE  ExecutorInv'
<1>1. /\ ex' = [ex EXCEPT !.default = ex.pools + 1, !.pools = @ + 1]
      /\ job' = job /\ down' = down /\ soon' = soon
  BY DEF set_default_executor
<1>2. ExecutorTypes'
  <2>1. ex.pools + 1 \in Nat
    BY DEF ExecutorInv, ExecutorTypes
  <2> QED BY <1>1, <2>1 DEF ExecutorInv, ExecutorTypes
<1>3. ex'.default = ex.pools + 1 /\ ex'.pools = ex.pools + 1 /\ ex'.closed = ex.closed
  BY <1>1 DEF ExecutorInv, ExecutorTypes
<1>4. PoolsApart'
  BY <1>1, <1>3 DEF ExecutorInv, ExecutorTypes, PoolsApart
<1>5. ShutdownsApart'
  <2>1. \A k \in 1 .. Len(soon) : soon[k] \in Callbacks
    BY DEF ExecutorInv, ExecutorTypes
  <2>2. \A k \in 1 .. Len(soon) : soon[k][1] = "shutdown" => soon[k][2] \in Nat
    BY <2>1 DEF Callbacks
  <2> QED BY <1>1, <1>3, <2>2 DEF ExecutorInv, ExecutorTypes, ShutdownsApart
<1>6. PostedIsQueued' /\ ResultsBeforeEnd' /\ AllDelivered'
  BY <1>1, <1>3 DEF ExecutorInv, PostedIsQueued, ResultsBeforeEnd, AllDelivered
<1> QED BY <1>2, <1>4, <1>5, <1>6 DEF ExecutorInv

(* A worker posts the result of a job behind what is in soon.              *)
LEMMA JobEndsKeeps ==
    ASSUME ExecutorInv, NEW j \in Jobs, JobEnds(j)
    PROVE  ExecutorInv'
<1> DEFINE to == IF ex.closed THEN "dropped" ELSE "posted"
<1>1. /\ job' = [job EXCEPT ![j].at = to]
      /\ soon' = IF ex.closed THEN soon ELSE Append(soon, <<"job", j>>)
      /\ ex' = ex /\ down' = down /\ job[j].at = "running"
  BY DEF JobEnds
<1>2. <<"job", j>> \in Callbacks
  BY DEF Callbacks
<1>3. ExecutorTypes'
  BY <1>1, <1>2 DEF ExecutorInv, ExecutorTypes
<1>4. /\ \A i \in Jobs : job'[i].pool = job[i].pool
      /\ \A i \in Jobs : i # j => job'[i] = job[i]
      /\ job'[j].at = to
  BY <1>1 DEF ExecutorInv, ExecutorTypes
<1>5. /\ Len(soon) \in Nat
      /\ Len(soon) <= Len(soon')
      /\ \A k \in 1 .. Len(soon) : soon'[k] = soon[k] /\ k \in 1 .. Len(soon')
      /\ \A k \in 1 .. Len(soon') : k \in 1 .. Len(soon) \/ soon'[k] = <<"job", j>>
      /\ ~ex.closed => soon'[Len(soon')] = <<"job", j>> /\ Len(soon') \in 1 .. Len(soon')
  BY <1>1 DEF ExecutorInv, ExecutorTypes
<1>6. PoolsApart'
  BY <1>1, <1>4 DEF ExecutorInv, PoolsApart
<1>7. ShutdownsApart'
  <2>1. \A k \in 1 .. Len(soon) : soon[k][1] = "job" => soon[k][2] \in Jobs
    BY DEF ExecutorInv, ExecutorTypes, Callbacks
  <2>2. job[j].pool # 0
    BY <1>1 DEF ExecutorInv, PoolsApart
  <2> QED BY <1>1, <1>4, <1>5, <2>1, <2>2 DEF ExecutorInv, ShutdownsApart
<1>8. PostedIsQueued'
  <2> SUFFICES ASSUME NEW i \in Jobs
               PROVE  /\ job'[i].at = "posted" =>
                          \E k \in 1 .. Len(soon') : soon'[k] = <<"job", i>>
                      /\ job'[i].at = "dropped" => ex.closed
                      /\ down.at = "joined" /\ job'[i].pool = down.pool =>
                          job'[i].at # "running"
    BY <1>1 DEF PostedIsQueued
  <2>1. CASE i = j
    BY <1>4, <1>5, <2>1
  <2>2. CASE i # j
    BY <1>4, <1>5, <2>2 DEF ExecutorInv, PostedIsQueued
  <2> QED BY <2>1, <2>2
<1>9. ResultsBeforeEnd'
  <2>1. down.at = "joined" => job[j].pool # down.pool
    BY <1>1 DEF ExecutorInv, PostedIsQueued
  <2> SUFFICES ASSUME down.at = "joined",
                      NEW k \in 1 .. Len(soon'), soon'[k] = <<"shutdown", down.pool>>,
                      NEW i \in Jobs, job'[i].pool = down.pool
               PROVE  \/ job'[i].at = "delivered"
                      \/ \E l \in 1 .. (k - 1) : soon'[l] = <<"job", i>>
    BY <1>1 DEF ResultsBeforeEnd
  <2>2. i # j /\ job'[i] = job[i]
    BY <2>1, <1>4
  <2>3. k \in 1 .. Len(soon) /\ soon[k] = <<"shutdown", down.pool>>
    BY <1>5
  <2>4. job[i].at = "delivered" \/ \E l \in 1 .. (k - 1) : soon[l] = <<"job", i>>
    BY <2>2, <2>3 DEF ExecutorInv, ResultsBeforeEnd
  <2> QED BY <1>5, <2>2, <2>3, <2>4
<1>10. AllDelivered'
  BY <1>1, <1>4 DEF ExecutorInv, AllDelivered
<1> QED BY <1>3, <1>6, <1>7, <1>8, <1>9, <1>10 DEF ExecutorInv

(* shutdown_default_executor takes the default pool away.                  *)
LEMMA ShutdownStartsKeeps ==
    ASSUME ExecutorInv, NEW timed \in BOOLEAN, shutdown_default_executor(timed)
    PROVE  ExecutorInv'
<1>1. /\ ex' = [ex EXCEPT !.called = TRUE, !.default = 0]
      /\ down' = [at |-> IF ex.default = 0 THEN "done" ELSE "joining",
                  pool |-> ex.default, timed |-> timed]
      /\ job' = job /\ soon' = soon
  BY DEF shutdown_default_executor
<1>2. ExecutorTypes'
  BY <1>1 DEF ExecutorInv, ExecutorTypes
<1>3. /\ ex'.default = 0 /\ ex'.pools = ex.pools /\ ex'.closed = ex.closed
      /\ down'.pool = ex.default
      /\ down'.at = IF ex.default = 0 THEN "done" ELSE "joining"
  BY <1>1 DEF ExecutorInv, ExecutorTypes
<1>4. PoolsApart'
  BY <1>1, <1>3 DEF ExecutorInv, ExecutorTypes, PoolsApart
<1>5. ShutdownsApart'
  BY <1>1, <1>3 DEF ExecutorInv, ShutdownsApart
<1>6. PostedIsQueued' /\ ResultsBeforeEnd' /\ AllDelivered'
  BY <1>1, <1>3 DEF ExecutorInv, PostedIsQueued, ResultsBeforeEnd, AllDelivered
<1> QED BY <1>2, <1>4, <1>5, <1>6 DEF ExecutorInv

(* The thread of the shutdown ends when no job of the pool runs: their     *)
(* results are in soon already, before its own callback.                   *)
LEMMA DoShutdownKeeps ==
    ASSUME ExecutorInv, _do_shutdown
    PROVE  ExecutorInv'
<1> DEFINE end == <<"shutdown", down.pool>>
<1>1. /\ down.at = "joining"
      /\ \A j \in Jobs : job[j].pool = down.pool => job[j].at # "running"
      /\ down' = [down EXCEPT !.at = "joined"]
      /\ soon' = IF ex.closed THEN soon ELSE Append(soon, end)
      /\ ex' = ex /\ job' = job
  BY DEF _do_shutdown
<1>2. end \in Callbacks
  BY DEF Callbacks, ExecutorInv, ExecutorTypes
<1>3. ExecutorTypes'
  BY <1>1, <1>2 DEF ExecutorInv, ExecutorTypes
<1>4. down'.pool = down.pool /\ down'.at = "joined" /\ down.pool # 0
  BY <1>1 DEF ExecutorInv, ExecutorTypes, PoolsApart
<1>5. /\ Len(soon) \in Nat
      /\ Len(soon) <= Len(soon')
      /\ \A k \in 1 .. Len(soon) : soon'[k] = soon[k] /\ k \in 1 .. Len(soon')
      /\ \A k \in 1 .. Len(soon') :
            k \in 1 .. Len(soon) \/ (k = Len(soon) + 1 /\ soon'[k] = end /\ ~ex.closed)
  BY <1>1 DEF ExecutorInv, ExecutorTypes
<1>6. PoolsApart'
  BY <1>1, <1>4 DEF ExecutorInv, PoolsApart
<1>7. ShutdownsApart'
  <2>1. down.pool <= ex.pools /\ down.pool # ex.default
    BY <1>4 DEF ExecutorInv, PoolsApart
  <2> QED BY <1>1, <1>4, <1>5, <2>1 DEF ExecutorInv, ShutdownsApart
<1>8. PostedIsQueued'
  BY <1>1, <1>4, <1>5 DEF ExecutorInv, PostedIsQueued
<1>9. ResultsBeforeEnd'
  <2> SUFFICES ASSUME NEW k \in 1 .. Len(soon'), soon'[k] = end,
                      NEW j \in Jobs, job[j].pool = down.pool
               PROVE  \/ job[j].at = "delivered"
                      \/ \E i \in 1 .. (k - 1) : soon'[i] = <<"job", j>>
    BY <1>1, <1>4 DEF ResultsBeforeEnd
  <2>1. k \notin 1 .. Len(soon)
    BY <1>1, <1>5 DEF ExecutorInv, ShutdownsApart
  <2>2. k = Len(soon) + 1 /\ ~ex.closed
    BY <1>5, <2>1
  <2>3. job[j].at \in {"posted", "delivered"}
    BY <1>1, <1>4, <2>2 DEF ExecutorInv, ExecutorTypes, PoolsApart, PostedIsQueued
  <2>4. job[j].at = "posted" => \E i \in 1 .. Len(soon) : soon[i] = <<"job", j>>
    BY DEF ExecutorInv, PostedIsQueued
  <2> QED BY <1>5, <2>2, <2>3, <2>4
<1>10. AllDelivered'
  BY <1>4 DEF AllDelivered
<1> QED BY <1>3, <1>6, <1>7, <1>8, <1>9, <1>10 DEF ExecutorInv

(* A shutdown that timed out or was cancelled promises nothing.            *)
LEMMA AbandonKeeps ==
    ASSUME ExecutorInv, down' = [down EXCEPT !.at = "abandoned"],
           UNCHANGED <<ex, job, soon>>
    PROVE  ExecutorInv'
<1>1. ExecutorTypes' /\ down'.at = "abandoned" /\ down'.pool = down.pool
  BY DEF ExecutorInv, ExecutorTypes
<1> QED
  BY <1>1 DEF ExecutorInv, PoolsApart, ShutdownsApart, PostedIsQueued,
              ResultsBeforeEnd, AllDelivered

(* Loop.close forgets the default executor.                                *)
LEMMA ClosedKeeps ==
    ASSUME ExecutorInv, ex' = ex \/ ex' = ClosedExecutor,
           UNCHANGED <<job, down, soon>>
    PROVE  ExecutorInv'
<1>1. /\ ExecutorTypes'
      /\ ex'.default \in {0, ex.default} /\ ex'.pools = ex.pools
      /\ ex.closed => ex'.closed
  <2>1. ex' \in [default : Nat, pools : Nat, called : BOOLEAN, closed : BOOLEAN]
    <3>1. ex \in [default : Nat, pools : Nat, called : BOOLEAN, closed : BOOLEAN]
      BY DEF ExecutorInv, ExecutorTypes
    <3>2. ClosedExecutor \in [default : Nat, pools : Nat, called : BOOLEAN,
                              closed : BOOLEAN]
      BY <3>1 DEF ClosedExecutor
    <3>3. CASE ex' = ex
      BY <3>1, <3>3
    <3>4. CASE ex' = ClosedExecutor
      BY <3>2, <3>4
    <3> QED BY <3>3, <3>4
  <2>2. ExecutorTypes'
    BY <2>1 DEF ExecutorInv, ExecutorTypes
  <2>3. /\ ex'.default \in {0, ex.default} /\ ex'.pools = ex.pools
        /\ ex.closed => ex'.closed
    BY DEF ClosedExecutor, ExecutorInv, ExecutorTypes
  <2> QED BY <2>2, <2>3
<1>2. PoolsApart'
  BY <1>1 DEF ExecutorInv, ExecutorTypes, PoolsApart
<1>3. ShutdownsApart'
  BY <1>1 DEF ExecutorInv, ShutdownsApart
<1>4. PostedIsQueued' /\ ResultsBeforeEnd' /\ AllDelivered'
  BY <1>1 DEF ExecutorInv, PostedIsQueued, ResultsBeforeEnd, AllDelivered
<1> QED BY <1>1, <1>2, <1>3, <1>4 DEF ExecutorInv

(* The loop runs the first callback: the shutdown of a pool ends when the  *)
(* results before it have been delivered.                                  *)
LEMMA RunSoonKeeps ==
    ASSUME ExecutorInv, RunSoon
    PROVE  ExecutorInv'
<1> DEFINE cb == Head(soon)
<1>1. /\ soon \in Seq(Callbacks) /\ soon # <<>>
      /\ soon' = Tail(soon) /\ ex' = ex
  BY DEF RunSoon, ExecutorInv, ExecutorTypes
<1>2. /\ Len(soon) \in Nat /\ 1 \in 1 .. Len(soon)
      /\ cb = soon[1] /\ cb \in Callbacks
      /\ soon' \in Seq(Callbacks)
      /\ Len(soon') = Len(soon) - 1
      /\ \A k \in 1 .. Len(soon') : soon'[k] = soon[k + 1] /\ k + 1 \in 1 .. Len(soon)
  BY <1>1
<1>3. \A k \in 1 .. Len(soon) :
        k = 1 \/ (k - 1 \in 1 .. Len(soon') /\ soon'[k - 1] = soon[k])
  BY <1>2
<1> HIDE DEF cb
<1>4. ASSUME cb[1] = "job", job' = [job EXCEPT ![cb[2]].at = "delivered"], down' = down
      PROVE  ExecutorInv'
  <2>1. PICK j \in Jobs : cb = <<"job", j>>
    BY <1>2, <1>4 DEF Callbacks
  <2>10. soon[1][1] = "job" /\ soon[1][2] = j
    BY <1>2, <2>1
  <2>11. \A i \in Jobs, k \in 1 .. Len(soon) :
            i # j /\ soon[k] = <<"job", i>> => k # 1
    <3>1. \A i \in Jobs, k \in 1 .. Len(soon) :
            soon[k] = <<"job", i>> => soon[k][2] = i
      OBVIOUS
    <3> QED BY <2>10, <3>1
  <2>2. /\ \A i \in Jobs : job'[i].pool = job[i].pool
        /\ \A i \in Jobs : i # j => job'[i] = job[i]
        /\ job'[j].at = "delivered"
    BY <1>4, <2>1 DEF ExecutorInv, ExecutorTypes
  <2>3. ExecutorTypes'
    BY <1>1, <1>2, <1>4, <2>1 DEF ExecutorInv, ExecutorTypes
  <2>4. job[j].pool # 0
    BY <1>2, <2>10 DEF ExecutorInv, ShutdownsApart
  <2>5. PoolsApart'
    BY <1>1, <1>4, <2>2, <2>4 DEF ExecutorInv, PoolsApart
  <2>6. ShutdownsApart'
    <3>1. \A k \in 1 .. Len(soon) : soon[k][1] = "job" => soon[k][2] \in Jobs
      BY <1>1 DEF Callbacks
    <3> QED BY <1>1, <1>2, <1>4, <2>2, <3>1 DEF ExecutorInv, ShutdownsApart
  <2>7. PostedIsQueued'
    <3> SUFFICES ASSUME NEW i \in Jobs
                 PROVE  /\ job'[i].at = "posted" =>
                            \E k \in 1 .. Len(soon') : soon'[k] = <<"job", i>>
                        /\ job'[i].at = "dropped" => ex.closed
                        /\ down.at = "joined" /\ job'[i].pool = down.pool =>
                            job'[i].at # "running"
      BY <1>1, <1>4 DEF PostedIsQueued
    <3>1. CASE i = j
      BY <2>2, <3>1
    <3>2. CASE i # j
      <4> QED BY <1>3, <2>2, <2>11, <3>2, ZenonT(60) DEF ExecutorInv, PostedIsQueued
    <3> QED BY <3>1, <3>2
  <2>8. ResultsBeforeEnd'
    <3> SUFFICES ASSUME down.at = "joined",
                        NEW k \in 1 .. Len(soon'), soon'[k] = <<"shutdown", down.pool>>,
                        NEW i \in Jobs, job'[i].pool = down.pool, i # j
                 PROVE  \/ job'[i].at = "delivered"
                        \/ \E l \in 1 .. (k - 1) : soon'[l] = <<"job", i>>
      BY <1>4, <2>2 DEF ResultsBeforeEnd
    <3>1. job[i].at = "delivered" \/ \E l \in 1 .. k : soon[l] = <<"job", i>>
      <4>1. k + 1 \in 1 .. Len(soon) /\ soon[k + 1] = <<"shutdown", down.pool>>
        BY <1>2
      <4>2. job[i].pool = down.pool /\ (k + 1) - 1 = k
        BY <2>2
      <4> QED BY <4>1, <4>2 DEF ExecutorInv, ResultsBeforeEnd
    <3>2. ASSUME NEW l \in 1 .. k, soon[l] = <<"job", i>>
          PROVE  \E m \in 1 .. (k - 1) : soon'[m] = <<"job", i>>
      <4>1. l # 1
        BY <1>2, <2>11, <3>2
      <4>2. l - 1 \in 1 .. (k - 1) /\ soon'[l - 1] = soon[l]
        BY <1>2, <1>3, <4>1
      <4> QED BY <3>2, <4>2
    <3> QED BY <2>2, <3>1, <3>2
  <2>9. AllDelivered'
    BY <1>4, <2>2 DEF ExecutorInv, AllDelivered
  <2> QED BY <2>3, <2>5, <2>6, <2>7, <2>8, <2>9 DEF ExecutorInv
<1>5. ASSUME cb[1] = "shutdown", job' = job,
             down' = IF down.at = "joined" /\ down.pool = cb[2]
                     THEN [down EXCEPT !.at = "done"] ELSE down
      PROVE  ExecutorInv'
  <2>1. PICK p \in Nat : cb = <<"shutdown", p>>
    BY <1>2, <1>5 DEF Callbacks
  <2>2. /\ down'.pool = down.pool
        /\ down'.at = IF down.at = "joined" /\ down.pool = p THEN "done" ELSE down.at
        /\ ExecutorTypes'
    BY <1>1, <1>2, <1>5, <2>1 DEF ExecutorInv, ExecutorTypes
  <2>3. \A i \in Jobs, k \in 1 .. Len(soon) : soon[k] = <<"job", i>> => k # 1
    <3>1. soon[1][1] = "shutdown"
      BY <1>2, <2>1
    <3>2. \A i \in Jobs, k \in 1 .. Len(soon) :
            soon[k] = <<"job", i>> => soon[k][1] = "job"
      OBVIOUS
    <3> QED BY <3>1, <3>2
  <2>4. PoolsApart'
    BY <1>1, <1>5, <2>2 DEF ExecutorInv, PoolsApart
  <2>5. ShutdownsApart'
    BY <1>1, <1>2, <1>5, <2>2 DEF ExecutorInv, ShutdownsApart
  <2>6. PostedIsQueued'
    <3> SUFFICES ASSUME NEW i \in Jobs
                 PROVE  /\ job[i].at = "posted" =>
                            \E k \in 1 .. Len(soon') : soon'[k] = <<"job", i>>
                        /\ job[i].at = "dropped" => ex.closed
                        /\ down'.at = "joined" /\ job[i].pool = down.pool =>
                            job[i].at # "running"
      BY <1>1, <1>5, <2>2 DEF PostedIsQueued
    <3> QED BY <1>3, <2>2, <2>3 DEF ExecutorInv, PostedIsQueued
  <2>7. ResultsBeforeEnd'
    <3> SUFFICES ASSUME down.at = "joined",
                        NEW k \in 1 .. Len(soon'), soon'[k] = <<"shutdown", down.pool>>,
                        NEW i \in Jobs, job[i].pool = down.pool
                 PROVE  \/ job[i].at = "delivered"
                        \/ \E l \in 1 .. (k - 1) : soon'[l] = <<"job", i>>
      BY <1>5, <2>2 DEF ResultsBeforeEnd
    <3>1. job[i].at = "delivered" \/ \E l \in 1 .. k : soon[l] = <<"job", i>>
      <4>1. k + 1 \in 1 .. Len(soon) /\ soon[k + 1] = <<"shutdown", down.pool>>
        BY <1>2
      <4>2. (k + 1) - 1 = k
        OBVIOUS
      <4> QED BY <4>1, <4>2 DEF ExecutorInv, ResultsBeforeEnd
    <3>2. ASSUME NEW l \in 1 .. k, soon[l] = <<"job", i>>
          PROVE  \E m \in 1 .. (k - 1) : soon'[m] = <<"job", i>>
      <4>1. l # 1
        BY <1>2, <2>3, <3>2
      <4>2. l - 1 \in 1 .. (k - 1) /\ soon'[l - 1] = soon[l]
        BY <1>2, <1>3, <4>1
      <4> QED BY <3>2, <4>2
    <3> QED BY <3>1, <3>2
  <2>8. AllDelivered'
    <3>1. CASE down.at = "joined" /\ down.pool = p
      <4>1. soon[1] = <<"shutdown", down.pool>>
        BY <1>2, <2>1, <3>1
      <4>2. 1 .. (1 - 1) = {}
        OBVIOUS
      <4> QED BY <1>2, <1>5, <2>2, <3>1, <4>1, <4>2
              DEF ExecutorInv, ResultsBeforeEnd, AllDelivered
    <3>2. CASE ~(down.at = "joined" /\ down.pool = p)
      BY <1>5, <2>2, <3>2 DEF ExecutorInv, AllDelivered
    <3> QED BY <3>1, <3>2
  <2> QED BY <2>2, <2>4, <2>5, <2>6, <2>7, <2>8 DEF ExecutorInv
<1> QED BY <1>4, <1>5 DEF RunSoon, cb

-----------------------------------------------------------------------------
(* The Runner: what each stage of the teardown has seen done.              *)

AtStages == {"run", "cancel", "agens", "executor", "closed"}

RunnerRecords ==
    [at : AtStages, main : {"serving", "exiting", "shutting", "done"},
     cancel : SUBSET Closers, gather : SUBSET Closers, agens : BOOLEAN,
     executor : BOOLEAN, stop : BOOLEAN, stale : BOOLEAN, interrupts : Nat,
     failed : BOOLEAN]

(* A task that Runner.close gathers was started, and a main coroutine that *)
(* left its block closed the server.                                       *)
TasksOK ==
    /\ \A w \in h.gather \ {Main} : waits[w] # "idle"
    /\ h.main # "serving" => ~srv.servers

(* Each stage comes after what the ones before it waited for.              *)
StagesOK ==
    /\ h.at = "cancel" => Main \in h.gather \/ h.main = "done"
    /\ h.at \in {"agens", "executor", "closed"} /\ ~h.failed =>
        h.main = "done" /\ h.gather \cap AllTasks = {}
    /\ h.at \in {"executor", "closed"} /\ ~h.failed => h.agens
    /\ h.at = "closed" /\ ~h.failed => h.executor /\ down.at = "done"
    /\ h.failed => h.at = "closed"

(* A done callback in the ready queue is that of a future which is done,   *)
(* or an interrupt left it there.                                          *)
StopsOK ==
    /\ h.stop => Awaited
    /\ h.stale \/ h.failed => h.interrupts > 0

RunnerInv == h \in RunnerRecords /\ TasksOK /\ StagesOK /\ StopsOK

(* What a step may do to the calls of wait_closed of the other tasks.      *)
WaitsMove ==
    \A w \in Closers \ {Main} :
        /\ waits'[w] = "pending" => waits[w] \in {"pending", "idle"}
        /\ waits[w] # "idle" => waits'[w] # "idle"

(* Waking answers pending calls and starts none.                           *)
LEMMA WakeupMoves ==
    ASSUME ServerInv, waits' \in {waits, _wakeup(waits), close_wakes(waits)}
    PROVE  WaitsMove
<1>1. waits' = _wakeup(waits) \/ waits' = waits
  BY DEF close_wakes
<1>2. CASE waits' = waits
  BY <1>2 DEF WaitsMove
<1>3. CASE waits' = _wakeup(waits)
  BY <1>3 DEF WaitsMove, _wakeup
<1> QED BY <1>1, <1>2, <1>3

(* A call of wait_closed, or its cancellation, concerns one task.          *)
LEMMA WaitMoves ==
    ASSUME ServerInv, NEW w \in Closers, WaitClosed(w) \/ WaitCancelled(w)
    PROVE  WaitsMove /\ srv' = srv
BY DEF WaitClosed, WaitCancelled, wait_closed, WaitsMove, ServerInv, ServerTypes

(* Connections that leave do not reopen the server.                        *)
LEMMA DetachMoves ==
    ASSUME ServerInv, NEW cs, _detach_all(cs)
    PROVE  WaitsMove /\ (srv'.servers => srv.servers)
<1>1. srv'.servers = srv.servers
  BY DEF _detach_all, ServerInv, ServerTypes
<1>2. waits' = _wakeup(waits) \/ waits' = waits
  BY DEF _detach_all
<1> QED BY <1>1, <1>2, WakeupMoves

(* No operation of the server reopens it or restarts a call.               *)
LEMMA ServerStepMoves ==
    ASSUME ServerInv, ServerStep
    PROVE  WaitsMove /\ (srv'.servers => srv.servers)
<1>1. ASSUME NEW c \in Conns, NEW closes \in BOOLEAN, accept_callback(c, closes)
      PROVE  WaitsMove /\ (srv'.servers => srv.servers)
  <2>1. waits' = close_wakes(waits) \/ waits' = waits
    BY <1>1 DEF accept_callback
  <2>2. srv.servers
    BY <1>1 DEF accept_callback, ServerInv, ServesUntilClosed
  <2> QED BY <2>1, <2>2, WakeupMoves
<1>2. ASSUME NEW cs, _detach_all(cs)
      PROVE  WaitsMove /\ (srv'.servers => srv.servers)
  BY <1>2, DetachMoves
<1>3. CASE close
  BY <1>3, WakeupMoves DEF close
<1>4. CASE start_serving \/ AcceptFails \/ accept_retry_callback
  <2>1. waits' = waits /\ srv'.servers = srv.servers
    BY <1>4 DEF start_serving, AcceptFails, accept_retry_callback, ServerInv, ServerTypes
  <2> QED BY <2>1 DEF WaitsMove
<1>5. ASSUME NEW w \in Closers, WaitClosed(w) \/ WaitCancelled(w)
      PROVE  WaitsMove /\ (srv'.servers => srv.servers)
  BY <1>5, WaitMoves
<1> QED
  BY <1>1, <1>2, <1>3, <1>4, <1>5 DEF ServerStep, ConnectionCloses, close_clients

(* A step that leaves the stage alone, and the tasks no worse.             *)
LEMMA SameStageKeeps ==
    ASSUME RunnerInv, WaitsMove, h' \in RunnerRecords,
           h'.at = h.at, h'.gather = h.gather, h'.agens = h.agens,
           h'.executor = h.executor, h'.stop = h.stop, h'.stale = h.stale,
           h'.failed = h.failed, h'.interrupts = h.interrupts,
           h.main = "done" => h'.main = "done",
           h'.main # "serving" => ~srv'.servers,
           h.at # "run" /\ down.at = "done" => down'.at = "done"
    PROVE  RunnerInv'
<1>1. h.gather \in SUBSET Closers
  BY DEF RunnerInv, RunnerRecords
<1>2. TasksOK'
  BY <1>1 DEF RunnerInv, TasksOK, WaitsMove
<1>3. h.gather \cap AllTasks = {} => h'.gather \cap AllTasks' = {}
  BY <1>1 DEF RunnerInv, TasksOK, WaitsMove, AllTasks
<1>4. StagesOK'
  BY <1>3 DEF RunnerInv, StagesOK
<1>5. Awaited => Awaited'
  <2>1. h.at \in AtStages
    BY DEF RunnerInv, RunnerRecords
  <2>2. CASE h.at = "run"
    BY <2>2 DEF Awaited
  <2>3. CASE h.at = "cancel"
    BY <1>3, <2>3 DEF Awaited
  <2>4. CASE h.at = "agens"
    BY <2>4 DEF Awaited
  <2>5. CASE h.at = "executor"
    BY <2>5 DEF Awaited
  <2>6. CASE h.at = "closed"
    BY <2>6 DEF Awaited
  <2> QED BY <2>1, <2>2, <2>3, <2>4, <2>5, <2>6 DEF AtStages
<1>6. StopsOK'
  BY <1>5 DEF RunnerInv, StopsOK
<1> QED BY <1>2, <1>4, <1>6 DEF RunnerInv

(* run_until_complete returns or raises, and the next stage begins.        *)
LEMMA TransitionKeeps ==
    ASSUME RunnerInv, NEW x \in RunnerRecords, h.at # "closed",
           x.at = h.at, x.main = h.main, x.gather = h.gather, x.agens = h.agens,
           x.executor = h.executor, x.failed = h.failed, ~x.stop,
           x.stale => x.interrupts > 0,
           \/ Awaited /\ h' = Stage(x)
           \/ x.interrupts > 0 /\ h' = Fail(x),
           UNCHANGED <<srv, waits, down>>
    PROVE  RunnerInv'
<1>1. /\ AllTasks \in SUBSET Closers
      /\ \A w \in AllTasks \ {Main} : waits[w] = "pending"
      /\ Main \in AllTasks <=> h.main # "done"
  BY ServiceAssumption DEF AllTasks
<1>2. ~h.failed
  BY DEF RunnerInv, StagesOK
<1>3. ASSUME h' = Teardown(x), h.at = "run" PROVE RunnerInv'
  <2>1. CASE AllTasks = {}
    <3>1. h' = [x EXCEPT !.at = "agens"]
      BY <1>3, <2>1 DEF Teardown
    <3>2. h' \in RunnerRecords
      BY <3>1 DEF RunnerRecords, AtStages
    <3>3. /\ h'.at = "agens" /\ h'.main = h.main /\ h'.gather = h.gather
          /\ ~h'.stop /\ h'.stale = x.stale /\ h'.interrupts = x.interrupts
          /\ h'.failed = h.failed
      BY <3>1 DEF RunnerRecords
    <3>4. AllTasks' = {} /\ h.main = "done"
      BY <1>1, <2>1, <3>3 DEF AllTasks
    <3> QED BY <1>2, <3>2, <3>3, <3>4 DEF RunnerInv, TasksOK, StagesOK, StopsOK
  <2>2. CASE AllTasks # {}
    <3>1. h' = [x EXCEPT !.at = "cancel", !.cancel = AllTasks, !.gather = AllTasks]
      BY <1>3, <2>2 DEF Teardown
    <3>2. h' \in RunnerRecords
      BY <1>1, <3>1 DEF RunnerRecords, AtStages
    <3>3. /\ h'.at = "cancel" /\ h'.main = h.main /\ h'.gather = AllTasks
          /\ ~h'.stop /\ h'.stale = x.stale /\ h'.interrupts = x.interrupts
          /\ h'.failed = h.failed
      BY <3>1 DEF RunnerRecords
    <3> QED BY <1>1, <1>2, <3>2, <3>3 DEF RunnerInv, TasksOK, StagesOK, StopsOK
  <2> QED BY <2>1, <2>2
<1>4. ASSUME NEW at \in {"agens", "executor", "closed"}, h' = [x EXCEPT !.at = at],
             Awaited, h.at = "cancel" => at = "agens",
             h.at = "agens" => at = "executor", h.at = "executor" => at = "closed",
             h.at # "run"
      PROVE  RunnerInv'
  <2>1. h' \in RunnerRecords
    BY <1>4 DEF RunnerRecords, AtStages
  <2>2. /\ h'.at = at /\ h'.main = h.main /\ h'.gather = h.gather
        /\ ~h'.stop /\ h'.stale = x.stale /\ h'.interrupts = x.interrupts
        /\ h'.failed = h.failed /\ h'.agens = h.agens /\ h'.executor = h.executor
    BY <1>4 DEF RunnerRecords
  <2>3. AllTasks' = AllTasks
    BY <2>2 DEF AllTasks
  <2>4. h.at \in {"cancel", "agens", "executor"}
    BY <1>4 DEF RunnerInv, RunnerRecords, AtStages
  <2>5. h.gather \cap AllTasks = {} /\ h.main = "done"
    <3>1. CASE h.at = "cancel"
      <4>1. h.gather \cap AllTasks = {}
        BY <1>4, <3>1 DEF Awaited
      <4> QED BY <1>1, <3>1, <4>1 DEF RunnerInv, StagesOK
    <3>2. CASE h.at # "cancel"
      BY <1>2, <2>4, <3>2 DEF RunnerInv, StagesOK
    <3> QED BY <3>1, <3>2
  <2>6. h.at = "agens" => h.agens
    BY <1>4 DEF Awaited
  <2>7. h.at = "executor" => h.agens /\ h.executor /\ down.at = "done"
    BY <1>2, <1>4 DEF Awaited, RunnerInv, StagesOK
  <2>8. StagesOK'
    BY <1>2, <1>4, <2>2, <2>3, <2>4, <2>5, <2>6, <2>7 DEF StagesOK
  <2> QED BY <1>2, <2>1, <2>2, <2>8 DEF RunnerInv, TasksOK, StopsOK
<1>5. ASSUME h' = [x EXCEPT !.at = "closed", !.failed = TRUE], x.interrupts > 0
      PROVE  RunnerInv'
  <2>1. h' \in RunnerRecords
    BY <1>5 DEF RunnerRecords, AtStages
  <2>2. /\ h'.at = "closed" /\ h'.main = h.main /\ h'.gather = h.gather
        /\ ~h'.stop /\ h'.interrupts = x.interrupts /\ h'.failed
    BY <1>5 DEF RunnerRecords
  <2> QED BY <1>5, <2>1, <2>2 DEF RunnerInv, TasksOK, StagesOK, StopsOK
<1>6. CASE Awaited /\ h' = Stage(x)
  <2>1. h.at \in {"run", "cancel", "agens", "executor"}
    BY DEF RunnerInv, RunnerRecords, AtStages
  <2>2. CASE h.at = "run"
    BY <1>3, <1>6, <2>2 DEF Stage
  <2>3. CASE h.at = "cancel"
    BY <1>4, <1>6, <2>3 DEF Stage
  <2>4. CASE h.at = "agens"
    BY <1>4, <1>6, <2>4 DEF Stage
  <2>5. CASE h.at = "executor"
    BY <1>4, <1>6, <2>5 DEF Stage
  <2> QED BY <2>1, <2>2, <2>3, <2>4, <2>5
<1>7. CASE x.interrupts > 0 /\ h' = Fail(x)
  BY <1>3, <1>5, <1>7 DEF Fail
<1> QED BY <1>6, <1>7

(* Steps of the executor do not undo the end of a shutdown.                *)
LEMMA DoneStays ==
    ASSUME ExecutorInv, ExecutorStep, down.at = "done"
    PROVE  down'.at = "done"
BY DEF ExecutorStep, run_in_executor, set_default_executor, JobEnds,
       _do_shutdown, ShutdownTimesOut, RunSoon

(* One case for each step of the program.                                  *)
LEMMA RunnerKeeps ==
    ASSUME ServerInv, ExecutorInv, RunnerInv, [Next]_vars
    PROVE  RunnerInv'
<1> USE DEF RunnerInv
<1>1. CASE ServerStep
  <2>1. h' = h /\ down' = down
    BY <1>1 DEF ServerStep, executorVars
  <2>2. WaitsMove /\ (srv'.servers => srv.servers)
    BY <1>1, ServerStepMoves
  <2> QED BY <2>1, <2>2, SameStageKeeps DEF TasksOK
<1>2. CASE ExecutorStep
  <2>1. h' = h /\ waits' = waits /\ srv' = srv
    BY <1>2 DEF ExecutorStep, serverVars
  <2>2. WaitsMove
    BY <2>1 DEF WaitsMove
  <2> QED BY <1>2, <2>1, <2>2, DoneStays, SameStageKeeps DEF TasksOK
<1>3. CASE MainLeaves
  <2>1. h' = [h EXCEPT !.main = "exiting", !.cancel = @ \ {Main}] /\ down' = down
    BY <1>3 DEF MainLeaves, executorVars
  <2>2. ~srv'.servers /\ h.main = "serving"
    BY <1>3 DEF MainLeaves, Closed, ServerInv, ServerTypes
  <2>3. WaitsMove
    <3> DEFINE ws == IF srv.servers THEN close_wakes(waits) ELSE waits
    <3>1. \A w \in Closers :
            /\ ws[w] = "pending" => waits[w] = "pending"
            /\ waits[w] # "idle" => ws[w] # "idle"
      BY DEF close_wakes, _wakeup
    <3>2. waits' = wait_closed(ws, Closed(srv), Main)
      BY <1>3 DEF MainLeaves
    <3>3. ws \in [Closers -> {"idle", "pending", "done", "cancelled"}]
      BY WakeupKeepsTypes DEF ServerInv, ServerTypes
    <3>4. \A w \in Closers \ {Main} : waits'[w] = ws[w]
      BY <3>2, <3>3 DEF wait_closed
    <3> HIDE DEF ws
    <3> QED BY <3>1, <3>4 DEF WaitsMove
  <2> QED BY <2>1, <2>2, <2>3, SameStageKeeps DEF RunnerRecords
<1>4. CASE MainEnds
  <2>1. /\ h' = [h EXCEPT !.main = "done", !.cancel = @ \ {Main}]
        /\ UNCHANGED <<waits, srv, down>> /\ h.main # "serving"
    BY <1>4 DEF MainEnds, serverVars, executorVars
  <2>2. WaitsMove
    BY <2>1 DEF WaitsMove
  <2> QED BY <2>1, <2>2, SameStageKeeps DEF RunnerRecords, TasksOK
<1>5. ASSUME NEW timed \in BOOLEAN, MainShutsDown(timed) PROVE RunnerInv'
  <2>1. /\ h' = [h EXCEPT !.main = "shutting"] /\ h.at = "run" /\ h.main = "exiting"
        /\ UNCHANGED <<waits, srv>>
    BY <1>5 DEF MainShutsDown, serverVars
  <2>2. WaitsMove
    BY <2>1 DEF WaitsMove
  <2> QED BY <2>1, <2>2, SameStageKeeps DEF RunnerRecords, TasksOK
<1>6. CASE MainCancelled
  <2>1. /\ h' = [h EXCEPT !.main = "done", !.cancel = @ \ {Main}]
        /\ h.main # "serving" /\ srv' = srv
        /\ down.at = "done" => down'.at = "done"
    BY <1>6 DEF MainCancelled
  <2>2. WaitsMove
    BY <1>6 DEF WaitsMove, MainCancelled, ServerInv, ServerTypes
  <2> QED BY <2>1, <2>2, SameStageKeeps DEF RunnerRecords, TasksOK
<1>7. ASSUME NEW w \in Closers, TaskCancelled(w) PROVE RunnerInv'
  <2>1. h' = [h EXCEPT !.cancel = @ \ {w}] /\ down' = down
    BY <1>7 DEF TaskCancelled, executorVars
  <2>2. WaitsMove /\ srv' = srv
    BY <1>7, WaitMoves DEF TaskCancelled
  <2> QED BY <2>1, <2>2, SameStageKeeps DEF RunnerRecords, TasksOK
<1>8. CASE DoneCallback
  <2>1. /\ h' = [h EXCEPT !.stop = TRUE] /\ Awaited
        /\ UNCHANGED <<waits, srv, down>>
    BY <1>8 DEF DoneCallback, serverVars, executorVars
  <2>2. /\ h' \in RunnerRecords
        /\ h'.at = h.at /\ h'.main = h.main /\ h'.gather = h.gather
        /\ h'.agens = h.agens /\ h'.executor = h.executor /\ h'.failed = h.failed
        /\ h'.stale = h.stale /\ h'.interrupts = h.interrupts
    BY <2>1 DEF RunnerRecords
  <2>3. AllTasks' = AllTasks
    BY <2>1, <2>2 DEF AllTasks
  <2>4. Awaited'
    BY <2>1, <2>2, <2>3 DEF Awaited
  <2>5. TasksOK' /\ StagesOK' /\ StopsOK'
    BY <2>1, <2>2, <2>3, <2>4 DEF TasksOK, StagesOK, StopsOK
  <2> QED BY <2>2, <2>5
<1>9. ASSUME NEW stale \in BOOLEAN, StopRuns(stale) PROVE RunnerInv'
  <2> DEFINE x == IF stale THEN [h EXCEPT !.stale = FALSE] ELSE [h EXCEPT !.stop = FALSE]
             left == [x EXCEPT !.stop = FALSE, !.stale = @ \/ x.stop]
  <2>1. /\ h.at # "closed" /\ (IF stale THEN h.stale ELSE h.stop)
        /\ h' = (IF Awaited THEN Stage(left) ELSE Fail(left))
        /\ UNCHANGED <<srv, waits, down>>
    BY <1>9 DEF StopRuns, Finish, Running, serverVars
  <2>2. /\ x \in RunnerRecords
        /\ x.at = h.at /\ x.main = h.main /\ x.gather = h.gather
        /\ x.agens = h.agens /\ x.executor = h.executor /\ x.failed = h.failed
        /\ x.interrupts = h.interrupts
        /\ stale => ~x.stale
        /\ ~stale => ~x.stop /\ x.stale = h.stale
    BY DEF RunnerRecords
  <2> HIDE DEF x
  <2>3. /\ left \in RunnerRecords
        /\ left.at = h.at /\ left.main = h.main /\ left.gather = h.gather
        /\ left.agens = h.agens /\ left.executor = h.executor
        /\ left.failed = h.failed /\ ~left.stop
        /\ left.interrupts = h.interrupts /\ left.stale = (x.stale \/ x.stop)
    BY <2>2 DEF RunnerRecords
  <2> HIDE DEF left
  <2>4. stale \/ h.stale => h.interrupts > 0
    BY <2>1 DEF StopsOK
  <2>5. left.stale => left.interrupts > 0
    BY <2>2, <2>3, <2>4
  <2>6. ~Awaited => left.interrupts > 0
    BY <2>1, <2>3, <2>4 DEF StopsOK
  <2>7. \/ Awaited /\ h' = Stage(left)
        \/ left.interrupts > 0 /\ h' = Fail(left)
    BY <2>1, <2>6
  <2> QED BY <2>1, <2>3, <2>5, <2>7, TransitionKeeps
<1>10. CASE Interrupt
  <2> DEFINE x == [h EXCEPT !.interrupts = @ + 1, !.stop = FALSE, !.stale = @ \/ h.stop]
  <2>1. h.at # "closed" /\ h' = Fail(x) /\ UNCHANGED <<srv, waits, down>>
    BY <1>10 DEF Interrupt, Finish, Running, serverVars
  <2>2. /\ x \in RunnerRecords
        /\ x.at = h.at /\ x.main = h.main /\ x.gather = h.gather
        /\ x.agens = h.agens /\ x.executor = h.executor /\ x.failed = h.failed
        /\ ~x.stop /\ x.interrupts > 0
    <3>1. h.interrupts + 1 \in Nat /\ h.interrupts + 1 > 0
      BY DEF RunnerRecords
    <3> QED BY <3>1 DEF RunnerRecords
  <2> HIDE DEF x
  <2> QED BY <2>1, <2>2, TransitionKeeps
<1>11. CASE shutdown_asyncgens \/ RunnerShutsDown
  <2>1. /\ \/ h' = [h EXCEPT !.agens = TRUE]
           \/ h' = [h EXCEPT !.executor = TRUE] /\ ~h.executor
        /\ h.at = "agens" \/ (h.at = "executor" /\ ~h.executor)
        /\ h.at = "agens" => h' = [h EXCEPT !.agens = TRUE] /\ ~h.agens
        /\ UNCHANGED <<waits, srv>>
    BY <1>11 DEF shutdown_asyncgens, RunnerShutsDown, serverVars
  <2>2. /\ h' \in RunnerRecords
        /\ h'.at = h.at /\ h'.main = h.main /\ h'.gather = h.gather
        /\ h.agens => h'.agens
        /\ h'.failed = h.failed
        /\ h'.stop = h.stop /\ h'.stale = h.stale /\ h'.interrupts = h.interrupts
    BY <2>1 DEF RunnerRecords
  <2>3. AllTasks' = AllTasks
    BY <2>1, <2>2 DEF AllTasks
  <2>4. ~h.stop
    BY <2>1 DEF StopsOK, Awaited
  <2>5. TasksOK' /\ StagesOK' /\ StopsOK'
    BY <2>1, <2>2, <2>3, <2>4 DEF TasksOK, StagesOK, StopsOK
  <2> QED BY <2>2, <2>5
<1>12. CASE UNCHANGED vars
  <2>1. h' = h /\ UNCHANGED <<waits, srv, down>>
    BY <1>12 DEF vars
  <2>2. WaitsMove
    BY <2>1 DEF WaitsMove
  <2> QED BY <2>1, <2>2, SameStageKeeps DEF TasksOK
<1> QED
  BY <1>1, <1>2, <1>3, <1>4, <1>5, <1>6, <1>7, <1>8, <1>9, <1>10, <1>11, <1>12 DEF Next

(* Every step of the program keeps the invariant of the executor.          *)
LEMMA ExecutorKeeps ==
    ASSUME ExecutorInv, [Next]_vars
    PROVE  ExecutorInv'
<1>1. ASSUME UNCHANGED <<ex, job, down, soon>> PROVE ExecutorInv'
  BY <1>1, ClosedKeeps
<1>2. CASE ServerStep \/ MainLeaves \/ MainEnds \/ (\E w \in Closers : TaskCancelled(w))
           \/ DoneCallback \/ shutdown_asyncgens \/ UNCHANGED vars
  BY <1>1, <1>2 DEF ServerStep, MainLeaves, MainEnds, TaskCancelled, DoneCallback,
                    shutdown_asyncgens, vars, executorVars
<1>3. CASE ExecutorStep
  BY <1>3, RunInExecutorKeeps, SetDefaultKeeps, JobEndsKeeps, DoShutdownKeeps,
     AbandonKeeps, RunSoonKeeps DEF ExecutorStep, ShutdownTimesOut
<1>4. CASE (\E timed \in BOOLEAN : MainShutsDown(timed)) \/ RunnerShutsDown
  BY <1>4, ShutdownStartsKeeps DEF MainShutsDown, RunnerShutsDown
<1>5. CASE MainCancelled
  BY <1>1, <1>5, AbandonKeeps DEF MainCancelled
<1>6. CASE (\E stale \in BOOLEAN : StopRuns(stale)) \/ Interrupt
  BY <1>6, ClosedKeeps DEF StopRuns, Interrupt, Finish
<1> QED BY <1>2, <1>3, <1>4, <1>5, <1>6 DEF Next

(* A new program has no pool, no job and nothing to tear down.             *)
LEMMA ExecutorInitHolds ==
    ASSUME Init
    PROVE  ExecutorInv /\ RunnerInv
<1>1. ExecutorInv
  <2>1. ExecutorTypes
    BY DEF Init, ExecutorInit, NoShutdown, ExecutorTypes
  <2> QED
    BY <2>1 DEF Init, ExecutorInit, NoShutdown, ExecutorInv, PoolsApart,
                ShutdownsApart, PostedIsQueued, ResultsBeforeEnd, AllDelivered
<1>2. RunnerInv
  BY DEF Init, RunnerInv, RunnerRecords, AtStages, TasksOK, StagesOK, StopsOK
<1> QED BY <1>1, <1>2

(* Runner.close of src/talyn/runner.py and shutdown_default_executor: the  *)
(* executor's shutdown returns only when every job of the pool has been    *)
(* delivered, and a loop that is closed without an interrupt has no task   *)
(* left that was cancelled, no open server and no executor at work.        *)
THEOREM TeardownSafety == Spec => []TeardownComplete
<1> DEFINE Inv == ServerInv /\ ExecutorInv /\ RunnerInv
<1>1. Init => Inv
  BY InitHolds, ExecutorInitHolds
<1>2. Inv /\ [Next]_vars => Inv'
  BY NextKeeps, ExecutorKeeps, RunnerKeeps
<1>3. Inv => TeardownComplete
  BY DEF ExecutorInv, AllDelivered, RunnerInv, TasksOK, StagesOK, StopsOK,
         TeardownComplete
<1> QED BY <1>1, <1>2, <1>3, PTL DEF Spec
=============================================================================
