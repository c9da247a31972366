--------------------------------- MODULE Task ---------------------------------
(***************************************************************************)
(* Tasks and futures, src/src/task/ and src/src/future/: how a coroutine   *)
(* is stepped, how it waits for a future and is woken, and how             *)
(* cancellation reaches it.                                                *)
(*                                                                         *)
(* Everything here runs on the loop thread.  A task is a future (the       *)
(* result of its coroutine) with a coroutine.  The loop executes the       *)
(* callbacks of a ready queue (module Runner) one by one; a callback steps *)
(* a coroutine, or runs the done callbacks of a future, and some of those  *)
(* step coroutines in turn.  What a coroutine or any other Python code     *)
(* does is not known: between two steps of the machinery it may call any   *)
(* operation of any object.                                                *)
(***************************************************************************)
EXTENDS Integers, Sequences, FiniteSets, Functions

CONSTANTS
    Tasks,
    Futures,     \* futures that are not tasks
    Listeners,   \* Python functions given to add_done_callback
    None,
    MaxCancels,  \* bound: cancellations requested of one task
    Fatal        \* whether Python code raises SystemExit or KeyboardInterrupt

ASSUME TaskAssumption ==
    /\ Tasks \cap Futures = {}
    /\ Tasks \cap Listeners = {}
    /\ None \notin Tasks \cup Futures \cup Listeners
    /\ MaxCancels \in Nat
    /\ Fatal \in BOOLEAN

Objects == Tasks \cup Futures

Exceptions == {"error", "cancelled", "fatal"}

VARIABLES
    status,           \* Future.status; "new" before the object exists
    exception,        \* FutureObject.exception
    callbacks,        \* Future.callbacks_queue
    fut_waiter,       \* PythonTaskObject.fut_waiter
    must_cancel,
    cancel_requests,
    coro,             \* the coroutine: "suspended", "running" or "done"
    awaiting,         \* the future of the await in which the coroutine is
    ready,            \* callbacks waiting in the ready queue
    pc,               \* "off", "idle", "callbacks" or "running"
    current,          \* the task whose coroutine runs
    resolving,        \* the future whose done callbacks are being run
    at,               \* index of the next one
    raised,           \* what they raised, Future.exceptions_queue
    owed,             \* history: the task has a CancelledError to come
    received,         \* history: what a step gave its coroutine
    fatal             \* history: a fatal exception left a coroutine in this run

futvars == <<status, exception, callbacks>>
taskvars == <<fut_waiter, must_cancel, cancel_requests, coro, awaiting>>
runvars == <<ready, pc, current, resolving, at, raised>>
history == <<owed, received, fatal>>
vars == <<futvars, taskvars, runvars, history>>

Init ==
    /\ status = [f \in Objects |-> "new"]
    /\ exception = [f \in Objects |-> "none"]
    /\ callbacks = [f \in Objects |-> <<>>]
    /\ fut_waiter = [t \in Tasks |-> None]
    /\ must_cancel = [t \in Tasks |-> FALSE]
    /\ cancel_requests = [t \in Tasks |-> 0]
    /\ coro = [t \in Tasks |-> "suspended"]
    /\ awaiting = [t \in Tasks |-> None]
    /\ ready = <<>>
    /\ pc = "off"
    /\ current = None
    /\ resolving = None
    /\ at = 1
    /\ raised = {}
    /\ owed = [t \in Tasks |-> FALSE]
    /\ received = [t \in Tasks |-> "none"]
    /\ fatal = FALSE

Pending(f) == status[f] = "pending"
Done(f) == status[f] \in {"finished", "canceled"}

Waiter(c) == [cb |-> c, cancelled |-> FALSE, executed |-> FALSE]

-----------------------------------------------------------------------------
(***************************************************************************)
(* Futures.                                                                *)
(***************************************************************************)

(* Mutated form: only a result is announced, a cancellation is not. *)
call_done_callbacks_result(f, s, queue) ==
    /\ status' = [status EXCEPT ![f] = s]
    /\ ready' = IF queue = <<>> \/ s = "canceled" THEN ready ELSE Append(ready, <<"set", f>>)

(* A pending future gets its final status; its done callbacks, if it has   *)
(* any, will be run by one callback of the ready queue.                    *)
call_done_callbacks(f, s, queue) ==
    /\ status' = [status EXCEPT ![f] = s]
    /\ ready' = IF queue = <<>> THEN ready ELSE Append(ready, <<"set", f>>)

set_result(f) ==
    /\ call_done_callbacks(f, "finished", callbacks[f])
    /\ UNCHANGED exception

set_exception(f, e) ==
    /\ call_done_callbacks(f, "finished", callbacks[f])
    /\ exception' = [exception EXCEPT ![f] = e]

future_cancel(f) ==
    /\ call_done_callbacks(f, "canceled", callbacks[f])
    /\ UNCHANGED exception

(* What Python code can do: between callbacks, inside a coroutine, and     *)
(* inside a done callback.                                                 *)
PythonRuns == pc # "off"

create_future(f) ==
    /\ status[f] = "new"
    /\ status' = [status EXCEPT ![f] = "pending"]
    /\ UNCHANGED <<exception, callbacks, taskvars, runvars, history>>

(* set_result, set_exception and cancel of a future that is not a task;    *)
(* for one that is done they only raise, or return False.                  *)
resolve(f) ==
    /\ PythonRuns
    /\ Pending(f)
    /\ set_result(f) \/ set_exception(f, "error") \/ future_cancel(f)
    /\ UNCHANGED <<callbacks, taskvars, pc, current, resolving, at, raised, history>>

(* Python's add_done_callback: a done future calls back through the ready  *)
(* queue.  Each listener is given to one future, once.                     *)
add_done_callback(f, l) ==
    /\ PythonRuns
    /\ status[f] # "new"
    /\ <<"call", l>> \notin Range(ready)
    /\ \A g \in Objects : \A i \in DOMAIN callbacks[g] : callbacks[g][i].cb # l
    /\ IF Pending(f)
       THEN callbacks' = [callbacks EXCEPT ![f] = Append(@, Waiter(l))] /\ UNCHANGED ready
       ELSE ready' = Append(ready, <<"call", l>>) /\ UNCHANGED callbacks
    /\ UNCHANGED <<status, exception, taskvars, pc, current, resolving, at, raised, history>>

(* The entry stays in the queue, marked. *)
remove_done_callback(f, l) ==
    /\ PythonRuns
    /\ Pending(f)
    /\ \E i \in DOMAIN callbacks[f] :
        /\ callbacks[f][i].cb = l
        /\ ~callbacks[f][i].cancelled
        /\ callbacks' = [callbacks EXCEPT ![f][i].cancelled = TRUE]
    /\ UNCHANGED <<status, exception, taskvars, runvars, history>>

-----------------------------------------------------------------------------
(***************************************************************************)
(* Creating and cancelling tasks.                                          *)
(***************************************************************************)

(* fast_new_task: the first step is scheduled. *)
create_task(t) ==
    /\ status[t] = "new"
    /\ status' = [status EXCEPT ![t] = "pending"]
    /\ ready' = Append(ready, <<"send", t>>)
    /\ UNCHANGED <<exception, callbacks, taskvars, pc, current, resolving, at, raised, history>>

(* The tasks that a cancellation of t goes through: t waits for a task     *)
(* that waits for a task and so on.                                        *)
AwaitPath(t) ==
    LET hop[n \in 0 .. Cardinality(Tasks)] ==
            IF n = 0 THEN t
            ELSE LET p == hop[n - 1]
                 IN  IF fut_waiter[p] \in {q \in Tasks : Pending(q)} THEN fut_waiter[p] ELSE p
    IN  Range(hop)

(* The last task of the path: what it waits for is no pending task. *)
EndOfPath(t) == CHOOSE p \in AwaitPath(t) : fut_waiter[p] \notin AwaitPath(t)

(* Mutated form: a waiter that is done already swallows the request. *)
task_cancel_dropped(t) ==
    /\ PythonRuns
    /\ Pending(t)
    /\ \A p \in AwaitPath(t) : cancel_requests[p] < MaxCancels
    /\ LET last == EndOfPath(t)
           w == fut_waiter[last]
       IN  /\ cancel_requests' = [p \in Tasks |-> cancel_requests[p]
                                     + (IF p \in AwaitPath(t) THEN 1 ELSE 0)]
           /\ owed' = [owed EXCEPT ![last] = TRUE]
           /\ IF w # None
              THEN /\ IF Pending(w) THEN future_cancel(w) ELSE UNCHANGED <<status, exception, ready>>
                   /\ UNCHANGED must_cancel
              ELSE /\ must_cancel' = [must_cancel EXCEPT ![last] = TRUE]
                   /\ UNCHANGED <<status, exception, ready>>
    /\ UNCHANGED <<callbacks, fut_waiter, coro, awaiting, pc, current, resolving, at, raised,
                   received, fatal>>

(* cancel() goes down the path; at its end it cancels the future that the  *)
(* last task waits for or, if there is none or it is done, leaves a mark.  *)
task_cancel(t) ==
    /\ PythonRuns
    /\ Pending(t)
    /\ \A p \in AwaitPath(t) : cancel_requests[p] < MaxCancels
    /\ LET last == EndOfPath(t)
           w == fut_waiter[last]
       IN  /\ cancel_requests' = [p \in Tasks |-> cancel_requests[p]
                                     + (IF p \in AwaitPath(t) THEN 1 ELSE 0)]
           /\ owed' = [owed EXCEPT ![last] = TRUE]
           /\ IF w \in Futures /\ status[w] = "pending"
              THEN future_cancel(w) /\ UNCHANGED must_cancel
              ELSE /\ must_cancel' = [must_cancel EXCEPT ![last] = TRUE]
                   /\ UNCHANGED <<status, exception, ready>>
    /\ UNCHANGED <<callbacks, fut_waiter, coro, awaiting, pc, current, resolving, at, raised,
                   received, fatal>>

(* The last request taken back also takes back the mark. *)
task_uncancel(t) ==
    /\ PythonRuns
    /\ status[t] # "new"
    /\ cancel_requests' = [cancel_requests EXCEPT ![t] = IF @ = 0 THEN 0 ELSE @ - 1]
    /\ must_cancel' = [must_cancel EXCEPT ![t] = @ /\ cancel_requests[t] > 1]
    /\ owed' = [owed EXCEPT ![t] = @ /\ cancel_requests[t] > 1]
    /\ UNCHANGED <<futvars, fut_waiter, coro, awaiting, runvars, received, fatal>>

-----------------------------------------------------------------------------
(***************************************************************************)
(* Executing the ready queue.                                              *)
(***************************************************************************)

(* The callback under way is over, with an exception e or "none": back in  *)
(* the run of a future's done callbacks the exception is kept for later;   *)
(* otherwise the loop reports it, or is left if it is fatal.               *)
Return(e) ==
    IF resolving # None
    THEN /\ pc' = "callbacks"
         /\ raised' = raised \cup ({e} \ {"none"})
    ELSE /\ pc' = IF e = "fatal" THEN "off" ELSE "idle"
         /\ UNCHANGED raised

(* What await gives the coroutine when it is resumed without an exception. *)
Awaited(t) ==
    CASE awaiting[t] = None -> "none"
      [] awaiting[t] # None /\ status[awaiting[t]] = "canceled" -> "cancelled"
      [] OTHER -> exception[awaiting[t]]

(* Mutated form: the mark outlives the CancelledError that it caused. *)
Enter_still_marked(t, e) ==
    LET thrown == IF must_cancel[t] THEN "cancelled" ELSE e IN
    /\ UNCHANGED must_cancel
    /\ IF Pending(t)
       THEN /\ pc' = "running"
            /\ current' = t
            /\ coro' = [coro EXCEPT ![t] = "running"]
            /\ received' = [received EXCEPT ![t] = IF thrown # "none" THEN thrown ELSE Awaited(t)]
            /\ owed' = [owed EXCEPT ![t] = @ /\ received'[t] # "cancelled"]
            /\ UNCHANGED raised
       ELSE Return("error") /\ UNCHANGED <<coro, current, received, owed>>

(* _execute_task_send and _execute_task_throw: resume the coroutine, with  *)
(* an exception if e is one; a marked task gets a CancelledError instead.  *)
(* A task that is done already raises.                                     *)
Enter(t, e) ==
    LET thrown == IF must_cancel[t] THEN "cancelled" ELSE e IN
    /\ must_cancel' = [must_cancel EXCEPT ![t] = FALSE]
    /\ IF Pending(t)
       THEN /\ pc' = "running"
            /\ current' = t
            /\ coro' = [coro EXCEPT ![t] = "running"]
            /\ received' = [received EXCEPT ![t] = IF thrown # "none" THEN thrown ELSE Awaited(t)]
            /\ owed' = [owed EXCEPT ![t] = @ /\ received'[t] # "cancelled"]
            /\ UNCHANGED raised
       ELSE Return("error") /\ UNCHANGED <<coro, current, received, owed>>

(* The next callback of the ready queue. *)
Take(kind, x) ==
    /\ pc = "idle"
    /\ ready # <<>>
    /\ Head(ready) = <<kind, x>>
    /\ ready' = Tail(ready)

execute_task_send(t) ==
    /\ Take("send", t)
    /\ Enter(t, "none")
    /\ UNCHANGED <<futvars, fut_waiter, cancel_requests, awaiting, resolving, at, fatal>>

(* Throws the RuntimeError that a bad yield left in the task. *)
execute_task_throw(t) ==
    /\ Take("throw", t)
    /\ Enter(t, "error")
    /\ UNCHANGED <<futvars, fut_waiter, cancel_requests, awaiting, resolving, at, fatal>>

(* A handle made by add_done_callback of a done future. *)
execute_handle(l) ==
    /\ Take("call", l)
    /\ \/ Return("none")
       \/ Return("error")
       \/ Fatal /\ Return("fatal")
    /\ UNCHANGED <<futvars, taskvars, current, resolving, at, history>>

run_set_callbacks(f) ==
    /\ Take("set", f)
    /\ pc' = "callbacks"
    /\ resolving' = f
    /\ at' = 1
    /\ raised' = {}
    /\ UNCHANGED <<futvars, taskvars, current, history>>

Entry == callbacks[resolving][at]

NextEntry ==
    /\ pc = "callbacks"
    /\ at <= Len(callbacks[resolving])
    /\ at' = at + 1

(* A removed callback is passed over. *)
skip_callback ==
    /\ NextEntry
    /\ Entry.cancelled
    /\ UNCHANGED <<futvars, taskvars, ready, pc, current, resolving, raised, history>>

(* A Python function: it returns or raises. *)
call_listener ==
    /\ NextEntry
    /\ ~Entry.cancelled
    /\ Entry.cb \in Listeners
    /\ callbacks' = [callbacks EXCEPT ![resolving][at].executed = TRUE]
    /\ \/ Return("none")
       \/ Return("error")
       \/ Fatal /\ Return("fatal")
    /\ UNCHANGED <<status, exception, taskvars, ready, current, resolving, history>>

(* wakeup_task steps the task that waited: with the exception of the       *)
(* future if it has one; a canceled future has none, its await raises.     *)
wakeup_task ==
    /\ NextEntry
    /\ ~Entry.cancelled
    /\ Entry.cb \in Tasks
    /\ callbacks' = [callbacks EXCEPT ![resolving][at].executed = TRUE]
    /\ fut_waiter' = [fut_waiter EXCEPT ![Entry.cb] = None]
    /\ Enter(Entry.cb, exception[resolving])
    /\ UNCHANGED <<status, exception, cancel_requests, awaiting, ready, resolving, fatal>>

(* Mutated form: the last callback is forgotten. *)
callbacks_done_early ==
    /\ pc = "callbacks"
    /\ at >= Len(callbacks[resolving])
    /\ pc' = "idle"
    /\ resolving' = None
    /\ at' = 1
    /\ raised' = {}
    /\ UNCHANGED <<futvars, taskvars, ready, current, history>>

(* All done callbacks ran.  What they raised goes up as one group, which   *)
(* matches neither KeyboardInterrupt nor SystemExit: the loop goes on.     *)
callbacks_done ==
    /\ pc = "callbacks"
    /\ at > Len(callbacks[resolving])
    /\ pc' = "idle"
    /\ resolving' = None
    /\ at' = 1
    /\ raised' = {}
    /\ UNCHANGED <<futvars, taskvars, ready, current, history>>

-----------------------------------------------------------------------------
(***************************************************************************)
(* How a step ends.                                                        *)
(***************************************************************************)

Leave(t, c) ==
    /\ pc = "running"
    /\ current = t
    /\ current' = None
    /\ coro' = [coro EXCEPT ![t] = c]
    /\ received' = [received EXCEPT ![t] = "none"]

(* The coroutine is over, and nothing is owed any more. *)
Finish(t) ==
    /\ Leave(t, "done")
    /\ fut_waiter' = [fut_waiter EXCEPT ![t] = None]
    /\ awaiting' = [awaiting EXCEPT ![t] = None]
    /\ owed' = [owed EXCEPT ![t] = FALSE]
    /\ UNCHANGED <<callbacks, must_cancel, cancel_requests, resolving, at>>

(* A task that is marked ends cancelled, even if its coroutine returns. *)
coro_returns(t) ==
    /\ Finish(t)
    /\ IF must_cancel[t] THEN future_cancel(t) ELSE set_result(t)
    /\ Return("none")
    /\ UNCHANGED fatal

(* failed_execution: CancelledError cancels the task, anything else is its *)
(* exception; a fatal one is raised again.                                 *)
coro_raises(t, e) ==
    /\ Finish(t)
    /\ IF e = "cancelled" THEN future_cancel(t) ELSE set_exception(t, e)
    /\ Return(IF e = "fatal" THEN "fatal" ELSE "none")
    /\ fatal' = (fatal \/ e = "fatal")

(* The coroutine yields None: it is stepped again through the ready queue. *)
coro_yields(t) ==
    /\ Leave(t, "suspended")
    /\ awaiting' = [awaiting EXCEPT ![t] = None]
    /\ ready' = Append(ready, <<"send", t>>)
    /\ Return("none")
    /\ UNCHANGED <<futvars, fut_waiter, must_cancel, cancel_requests, resolving, at, owed, fatal>>

(* It awaits itself, or yields an object that claims to be a future and is *)
(* none: a RuntimeError will be thrown into it.                            *)
coro_yields_badly(t) ==
    /\ Leave(t, "suspended")
    /\ awaiting' = [awaiting EXCEPT ![t] = None]
    /\ ready' = Append(ready, <<"throw", t>>)
    /\ Return("none")
    /\ UNCHANGED <<futvars, fut_waiter, must_cancel, cancel_requests, resolving, at, owed, fatal>>

(* handle_talyn_future_object: the coroutine awaits a pending future, of   *)
(* any kind; a done one would not have made it stop.  A marked task        *)
(* cancels what it is about to wait for, and stays marked.  Tasks that     *)
(* wait for each other in a circle are left out.                           *)
coro_awaits(t, f) ==
    /\ Pending(f)
    /\ f # t
    /\ f \in Tasks => t \notin AwaitPath(f)
    /\ Leave(t, "suspended")
    /\ awaiting' = [awaiting EXCEPT ![t] = f]
    /\ callbacks' = [callbacks EXCEPT ![f] = Append(@, Waiter(t))]
    /\ fut_waiter' = [fut_waiter EXCEPT ![t] = f]
    /\ IF must_cancel[t]
       THEN call_done_callbacks(f, "canceled", callbacks'[f])
       ELSE UNCHANGED <<status, ready>>
    /\ Return("none")
    /\ UNCHANGED <<exception, must_cancel, cancel_requests, resolving, at, owed, fatal>>

(* It yields an object that is no future at all: looking for the           *)
(* attributes of a future fails, and the failure ends the task while its   *)
(* coroutine is still suspended.                                           *)
coro_yields_object(t) ==
    /\ Leave(t, "suspended")
    /\ set_exception(t, "error")
    /\ owed' = [owed EXCEPT ![t] = FALSE]
    /\ Return("none")
    /\ UNCHANGED <<callbacks, fut_waiter, must_cancel, cancel_requests, awaiting, resolving, at,
                   fatal>>

-----------------------------------------------------------------------------

(* The loop is run, again if a fatal exception ended it. *)
start ==
    /\ pc = "off"
    /\ pc' = "idle"
    /\ fatal' = FALSE
    /\ UNCHANGED <<futvars, taskvars, ready, current, resolving, at, raised, owed, received>>

Step(t) ==
    \/ coro_returns(t)
    \/ \E e \in IF Fatal THEN Exceptions ELSE Exceptions \ {"fatal"} : coro_raises(t, e)
    \/ coro_yields(t)
    \/ coro_yields_badly(t)
    \/ coro_yields_object(t)
    \/ \E f \in Objects : coro_awaits(t, f)

LoopStep ==
    \/ \E t \in Tasks : execute_task_send(t) \/ execute_task_throw(t) \/ Step(t)
    \/ \E f \in Objects : run_set_callbacks(f)
    \/ \E l \in Listeners : execute_handle(l)
    \/ skip_callback \/ call_listener \/ wakeup_task \/ callbacks_done

PythonStep ==
    \/ \E f \in Futures : create_future(f) \/ resolve(f)
    \/ \E t \in Tasks : create_task(t) \/ task_cancel(t) \/ task_uncancel(t)
    \/ \E f \in Objects, l \in Listeners : add_done_callback(f, l) \/ remove_done_callback(f, l)

Next == start \/ LoopStep \/ PythonStep

Spec == Init /\ [][Next]_vars

(* Coroutines and callbacks return to the loop, and the loop goes on. *)
FairSpec == Spec /\ WF_vars(LoopStep)

-----------------------------------------------------------------------------
(***************************************************************************)
(* Properties.                                                             *)
(***************************************************************************)

(* The done callbacks of f that are still to be run. *)
ToRun(f) ==
    LET from == IF f = resolving THEN at ELSE 1 IN
    {i \in DOMAIN callbacks[f] :
        /\ ~callbacks[f][i].cancelled
        /\ i >= from
        /\ Pending(f) \/ f = resolving \/ <<"set", f>> \in Range(ready)}

(* The ways in which t is going to be stepped. *)
Wakes(t) ==
    {<<"ready", i>> : i \in {j \in DOMAIN ready :
                                ready[j] \in {<<"send", t>>, <<"throw", t>>}}}
    \cup UNION {{<<f, i>> : i \in {j \in ToRun(f) : callbacks[f][j].cb = t}} :
                    f \in Objects}

(* A suspended task is stepped again exactly once: its wake-up can neither *)
(* be lost nor doubled, by cancellation, by a future that resolves in the  *)
(* same tick, or by a bad yield.  If it waits for a future it is that      *)
(* future that wakes it.                                                   *)
OneWakeUp ==
    \A t \in Tasks :
        /\ Pending(t) /\ coro[t] = "suspended" => Cardinality(Wakes(t)) = 1
        /\ coro[t] # "suspended" => Wakes(t) = {}
        /\ fut_waiter[t] # None =>
            \E i \in ToRun(fut_waiter[t]) : callbacks[fut_waiter[t]][i].cb = t

(* BUG-371: a cancellation is not dropped.  The next thing that the task   *)
(* at the end of the path sees is the CancelledError, whatever else        *)
(* happened in the meantime, and it does not end with a result.            *)
CancellationNotLost ==
    [][\A t \in Tasks : owed[t] =>
        /\ coro[t] = "suspended" /\ coro'[t] = "running" => received'[t] = "cancelled"
        /\ Pending(t) /\ status'[t] = "finished" => exception'[t] # "none"]_vars

(* BUG-371: no CancelledError comes out of nothing.  A coroutine gets one  *)
(* only on request, or because the future that it awaits was canceled.     *)
NoUnrequestedCancellation ==
    [][\A t \in Tasks : coro[t] = "suspended" /\ coro'[t] = "running" /\ received'[t] = "cancelled"
        => owed[t] \/ (awaiting[t] # None /\ status[awaiting[t]] = "canceled")]_vars

(* A task that waits for a future which is done gets to run, unless a      *)
(* fatal exception ends the loop or the task itself is ended before.       *)
WaiterIsWoken ==
    \A t \in Tasks, f \in Objects :
        (Pending(t) /\ fut_waiter[t] = f /\ Done(f)) ~> (coro[t] = "running" \/ Done(t) \/ pc = "off")

(* A done callback that was not removed is called once its future is done. *)
ListenersAreCalled ==
    \A f \in Objects, l \in Listeners :
        (Done(f) /\ \E i \in DOMAIN callbacks[f] :
                        callbacks[f][i].cb = l /\ ~callbacks[f][i].cancelled)
            ~> (pc = "off" \/ \E i \in DOMAIN callbacks[f] :
                    callbacks[f][i].cb = l /\ callbacks[f][i].executed)

(* BUG-372: a task that raises SystemExit or KeyboardInterrupt stops the   *)
(* loop: the loop does not go on to another callback.                      *)
FatalStopsTheLoop ==
    fatal => pc # "idle"
=============================================================================
