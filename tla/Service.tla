------------------------------ MODULE Service -------------------------------
(***************************************************************************)
(* A program under a Runner (src/talyn/runner.py): Runner.run of a main    *)
(* coroutine that serves and uses the default executor, and Runner.close,  *)
(* which calls run_until_complete (src/talyn/loop.py) three times more.    *)
(* It composes Server and Executor: their steps on the loop thread happen  *)
(* while one of these calls runs the loop.                                 *)
(*                                                                         *)
(* The main coroutine is "async with server:" around a body, such as       *)
(* serve_forever, that ends when it is cancelled if not before, possibly   *)
(* followed by a shutdown_default_executor of its own.  Other tasks call   *)
(* wait_closed.                                                            *)
(***************************************************************************)
EXTENDS Server, Executor

CONSTANTS
    Main,           \* the main coroutine's call of wait_closed
    MaxInterrupts   \* bound: KeyboardInterrupts, and calls of stop

ASSUME ServiceAssumption == Main \in Closers /\ MaxInterrupts \in Nat

VARIABLE h  \* the Runner, and what run_until_complete waits for

vars == <<srv, conn, waits, ex, job, down, soon, h>>

Init ==
    /\ ServerInit
    /\ ExecutorInit
    /\ h = [at |-> "run", main |-> "serving", cancel |-> {}, gather |-> {},
            agens |-> FALSE, executor |-> FALSE, stop |-> FALSE,
            stale |-> FALSE, interrupts |-> 0, failed |-> FALSE]

Running == h.at # "closed"

(* The tasks that are not done.                                            *)
AllTasks == {w \in Closers \ {Main} : waits[w] = "pending"}
                \cup (IF h.main = "done" THEN {} ELSE {Main})

(* The future that run_until_complete was given is done.                   *)
Awaited ==
    CASE h.at = "run" -> h.main = "done"
      [] h.at = "cancel" -> h.gather \cap AllTasks = {}
      [] h.at = "agens" -> h.agens
      [] h.at = "executor" -> h.executor /\ down.at = "done"
      [] OTHER -> FALSE

-----------------------------------------------------------------------------
(* The tasks.  Leaving its block, main closes the server and waits for it. *)

MainLeaves ==
    /\ Running
    /\ h.main = "serving"
    /\ h' = [h EXCEPT !.main = "exiting", !.cancel = @ \ {Main}]
    /\ srv' = Closed(srv)
    /\ waits' = wait_closed(IF srv.servers THEN close_wakes(waits) ELSE waits,
                            Closed(srv), Main)
    /\ UNCHANGED <<conn, executorVars>>

MainEnds ==
    /\ Running
    /\ \/ h.main = "exiting" /\ waits[Main] = "done"
       \/ h.main = "shutting" /\ down.at \in {"done", "abandoned"}
    /\ h' = [h EXCEPT !.main = "done", !.cancel = @ \ {Main}]
    /\ UNCHANGED <<serverVars, executorVars>>

MainShutsDown(timed) ==
    /\ h.at = "run"
    /\ h.main = "exiting" /\ waits[Main] = "done"
    /\ h' = [h EXCEPT !.main = "shutting"]
    /\ shutdown_default_executor(timed)
    /\ UNCHANGED serverVars

(* A cancellation of what main awaits after its body ends it.              *)
MainCancelled ==
    /\ Running
    /\ Main \in h.cancel
    /\ h' = [h EXCEPT !.main = "done", !.cancel = @ \ {Main}]
    /\ \/ /\ h.main = "exiting" /\ waits[Main] = "pending"
          /\ waits' = [waits EXCEPT ![Main] = "cancelled"]
          /\ UNCHANGED down
       \/ /\ h.main = "shutting" /\ down.at \in {"joining", "joined"}
          /\ down' = [down EXCEPT !.at = "abandoned"]
          /\ UNCHANGED waits
    /\ UNCHANGED <<srv, conn, ex, job, soon>>

TaskCancelled(w) ==
    /\ Running
    /\ w \in h.cancel \ {Main}
    /\ WaitCancelled(w)
    /\ h' = [h EXCEPT !.cancel = @ \ {w}]
    /\ UNCHANGED executorVars

-----------------------------------------------------------------------------
(* run_until_complete, Runner.run and Runner.close.                        *)

(* The done callback of the awaited future is put into the ready queue.    *)
DoneCallback ==
    /\ Running
    /\ Awaited
    /\ ~h.stop
    /\ h' = [h EXCEPT !.stop = TRUE]
    /\ UNCHANGED <<serverVars, executorVars>>

(* Runner.close starts: all tasks are cancelled and waited for, if there   *)
(* are any.                                                                *)
Teardown(x) ==
    IF AllTasks = {} THEN [x EXCEPT !.at = "agens"]
    ELSE [x EXCEPT !.at = "cancel", !.cancel = AllTasks, !.gather = AllTasks]

(* The next step of Runner.close.                                          *)
Stage(x) ==
    CASE x.at = "run" -> Teardown(x)
      [] x.at = "cancel" -> [x EXCEPT !.at = "agens"]
      [] x.at = "agens" -> [x EXCEPT !.at = "executor"]
      [] x.at = "executor" -> [x EXCEPT !.at = "closed"]

(* run_until_complete raises: from Runner.run the program goes on to       *)
(* Runner.close, in which the rest of the teardown is skipped.             *)
Fail(x) ==
    IF x.at = "run" THEN Teardown(x)
    ELSE [x EXCEPT !.at = "closed", !.failed = TRUE]

(* Loop.close is the last step, whatever happened before.                  *)
Finish(x) ==
    /\ h' = x
    /\ ex' = IF x.at = "closed" THEN ClosedExecutor ELSE ex

(* __run_until_complete_cb stops the loop.  A callback that an interrupted *)
(* call left in the ready queue stops the call after it.                   *)
StopRuns(stale) ==
    /\ Running
    /\ IF stale THEN h.stale ELSE h.stop
    /\ LET x == IF stale THEN [h EXCEPT !.stale = FALSE]
                ELSE [h EXCEPT !.stop = FALSE]
           left == [x EXCEPT !.stop = FALSE, !.stale = @ \/ x.stop]
       IN  Finish(IF Awaited THEN Stage(left) ELSE Fail(left))
    /\ UNCHANGED <<serverVars, job, down, soon>>

(* KeyboardInterrupt from a callback, or a call of stop.  The done         *)
(* callback is removed from the future, not from the ready queue.          *)
Interrupt ==
    /\ Running
    /\ h.interrupts < MaxInterrupts
    /\ Finish(Fail([h EXCEPT !.interrupts = @ + 1, !.stop = FALSE,
                             !.stale = @ \/ h.stop]))
    /\ UNCHANGED <<serverVars, job, down, soon>>

shutdown_asyncgens ==
    /\ h.at = "agens"
    /\ ~h.agens
    /\ h' = [h EXCEPT !.agens = TRUE]
    /\ UNCHANGED <<serverVars, executorVars>>

RunnerShutsDown ==
    /\ h.at = "executor"
    /\ ~h.executor
    /\ shutdown_default_executor(FALSE)
    /\ h' = [h EXCEPT !.executor = TRUE]
    /\ UNCHANGED serverVars

-----------------------------------------------------------------------------
ServerStep ==
    /\ Running
    /\ \/ \E c \in Conns, closes \in BOOLEAN : accept_callback(c, closes)
       \/ \E c \in Conns : ConnectionCloses(c)
       \/ close_clients
       \/ close
       \/ start_serving
       \/ AcceptFails
       \/ accept_retry_callback
       \/ \E w \in Closers \ {Main} : WaitClosed(w) \/ WaitCancelled(w)
    /\ UNCHANGED <<executorVars, h>>

ExecutorStep ==
    /\ \/ Running /\ \E j \in Jobs : run_in_executor(j)
       \/ h.at = "run" /\ set_default_executor
       \/ \E j \in Jobs : JobEnds(j)
       \/ _do_shutdown
       \/ Running /\ ShutdownTimesOut
       \/ Running /\ RunSoon
    /\ UNCHANGED <<serverVars, h>>

Next ==
    \/ ServerStep
    \/ ExecutorStep
    \/ MainLeaves
    \/ MainEnds
    \/ \E timed \in BOOLEAN : MainShutsDown(timed)
    \/ MainCancelled
    \/ \E w \in Closers : TaskCancelled(w)
    \/ DoneCallback
    \/ \E stale \in BOOLEAN : StopRuns(stale)
    \/ Interrupt
    \/ shutdown_asyncgens
    \/ RunnerShutsDown

(* The loop runs what is ready, threads make progress, clients leave and   *)
(* jobs end.  Nothing says that main leaves its body without a             *)
(* cancellation, that a client comes or that anybody interrupts.           *)
Fairness ==
    /\ WF_vars(MainLeaves /\ Main \in h.cancel)
    /\ WF_vars(MainEnds)
    /\ WF_vars(MainCancelled)
    /\ \A w \in Closers : WF_vars(TaskCancelled(w))
    /\ WF_vars(DoneCallback)
    /\ WF_vars(StopRuns(FALSE))
    /\ WF_vars(shutdown_asyncgens)
    /\ WF_vars(RunnerShutsDown)
    /\ \A c \in Conns : WF_vars(Running /\ ConnectionCloses(c)
                                   /\ UNCHANGED <<executorVars, h>>)
    /\ \A j \in Jobs : WF_vars(JobEnds(j) /\ UNCHANGED <<serverVars, h>>)
    /\ WF_vars(_do_shutdown /\ UNCHANGED <<serverVars, h>>)
    /\ WF_vars(Running /\ RunSoon /\ UNCHANGED <<serverVars, h>>)

Spec == Init /\ [][Next]_vars /\ Fairness

-----------------------------------------------------------------------------
(* shutdown_default_executor returns when all jobs of the pool have been   *)
(* delivered to the loop, not only run; and when Runner.close closes the   *)
(* loop, no task it cancelled is left, the server is closed, and the       *)
(* executor was waited for, unless an interrupt cut the teardown short.    *)
TeardownComplete ==
    /\ down.at = "done" =>
        \A j \in Jobs : job[j].pool = down.pool /\ down.pool # 0 =>
                          job[j].at = "delivered"
    /\ h.at = "closed" /\ ~h.failed =>
        /\ h.gather \cap AllTasks = {} /\ ~srv.servers
        /\ h.agens /\ h.executor /\ down.at = "done"
    /\ h.failed => h.interrupts > 0

(* Once the program is in Runner.close it gets to Loop.close, provided     *)
(* that clients leave: what wait_closed, the cancelled tasks, the thread   *)
(* of shutdown_default_executor and run_until_complete wait for comes.     *)
CloseEnds == h.at # "run" ~> h.at = "closed"
=============================================================================
