------------------------------ MODULE Executor ------------------------------
(***************************************************************************)
(* The default executor of a Loop (src/talyn/loop.py): run_in_executor,    *)
(* set_default_executor, shutdown_default_executor with the thread that it *)
(* starts, and close.  Worker threads and that thread reach the loop only  *)
(* through call_soon_threadsafe, whose callbacks run in order: soon holds  *)
(* them.  Pools are numbered in the order of their creation.               *)
(***************************************************************************)
EXTENDS Integers, Sequences

CONSTANTS
    Jobs,     \* calls of run_in_executor
    MaxPools  \* bound: pools that are made or set

ASSUME ExecutorAssumption == MaxPools \in Nat

VARIABLES
    ex,   \* _default_executor, _shutdown_executor_called, is_closed
    job,  \* the jobs
    down, \* the call of shutdown_default_executor that is under way
    soon  \* callbacks of call_soon_threadsafe

executorVars == <<ex, job, down, soon>>

NoShutdown == [at |-> "no", pool |-> 0, timed |-> FALSE]

ExecutorInit ==
    /\ ex = [default |-> 0, pools |-> 0, called |-> FALSE, closed |-> FALSE]
    /\ job = [j \in Jobs |-> [at |-> "new", pool |-> 0]]
    /\ down = NoShutdown
    /\ soon = <<>>

run_in_executor(j) ==
    /\ job[j].at = "new"
    /\ ex.default = 0 => ~ex.called /\ ex.pools < MaxPools
    /\ LET pool == IF ex.default = 0 THEN ex.pools + 1 ELSE ex.default
       IN  /\ ex' = [ex EXCEPT !.default = pool,
                               !.pools = IF ex.default = 0 THEN pool ELSE @]
           /\ job' = [job EXCEPT ![j] = [at |-> "running", pool |-> pool]]
    /\ UNCHANGED <<down, soon>>

set_default_executor ==
    /\ ex.pools < MaxPools
    /\ ex' = [ex EXCEPT !.default = ex.pools + 1, !.pools = @ + 1]
    /\ UNCHANGED <<job, down, soon>>

(* A worker thread ends a job and hands the result to the loop, if that is *)
(* not closed.                                                             *)
JobEnds(j) ==
    /\ job[j].at = "running"
    /\ job' = [job EXCEPT ![j].at = IF ex.closed THEN "dropped" ELSE "posted"]
    /\ soon' = IF ex.closed THEN soon ELSE Append(soon, <<"job", j>>)
    /\ UNCHANGED <<ex, down>>

(* shutdown_default_executor, up to the await.  Without an executor there  *)
(* is nothing to wait for.                                                 *)
shutdown_default_executor(timed) ==
    /\ ex' = [ex EXCEPT !.called = TRUE, !.default = 0]
    /\ down' = [at |-> IF ex.default = 0 THEN "done" ELSE "joining",
                pool |-> ex.default, timed |-> timed]
    /\ UNCHANGED <<job, soon>>

(* Mutated form: the thread does not wait for the jobs. *)
_do_shutdown_at_once ==
    /\ down.at = "joining"
    /\ down' = [down EXCEPT !.at = "joined"]
    /\ soon' = IF ex.closed THEN soon ELSE Append(soon, <<"shutdown", down.pool>>)
    /\ UNCHANGED <<ex, job>>

(* _do_shutdown, in its thread: all jobs of the pool end first.            *)
_do_shutdown ==
    /\ down.at = "joining"
    /\ \A j \in Jobs : job[j].pool = down.pool => job[j].at # "running"
    /\ down' = [down EXCEPT !.at = "joined"]
    /\ soon' = IF ex.closed THEN soon ELSE Append(soon, <<"shutdown", down.pool>>)
    /\ UNCHANGED <<ex, job>>

(* The timeout: the thread is joined for a while, and then left alone.     *)
ShutdownTimesOut ==
    /\ down.timed
    /\ down.at \in {"joining", "joined"}
    /\ down' = [down EXCEPT !.at = "abandoned"]
    /\ UNCHANGED <<ex, job, soon>>

(* The loop runs the first callback of soon.                               *)
RunSoon ==
    /\ soon # <<>>
    /\ soon' = Tail(soon)
    /\ LET cb == Head(soon) IN
       \/ /\ cb[1] = "job"
          /\ job' = [job EXCEPT ![cb[2]].at = "delivered"]
          /\ UNCHANGED down
       \/ /\ cb[1] = "shutdown"
          /\ down' = IF down.at = "joined" /\ down.pool = cb[2]
                     THEN [down EXCEPT !.at = "done"] ELSE down
          /\ UNCHANGED job
    /\ UNCHANGED ex

(* Loop.close: a pool that is left is told to end, and not waited for.     *)
ClosedExecutor == [ex EXCEPT !.default = 0, !.called = TRUE, !.closed = TRUE]
=============================================================================
