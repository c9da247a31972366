-------------------------------- MODULE Runner --------------------------------
(***************************************************************************)
(* The tick of the event loop, src/src/loop/runner.zig: polling io_uring,  *)
(* parking, harvesting completions, dispatching the completion batch and   *)
(* executing a ready queue, while other threads schedule callbacks and     *)
(* queue operations under the loop mutex.                                  *)
(*                                                                         *)
(* There are two ready queues.  Producers push to the one named by         *)
(* ready_tasks_queue_index; each tick flips the index and executes the     *)
(* other one without the mutex.  A parked loop is woken through a          *)
(* persistent read of an eventfd, whose completion callback re-arms it.    *)
(* The rings behind the queues are module ReadyRing, the slots behind the  *)
(* operations are module TaskSlots.                                        *)
(***************************************************************************)
EXTENDS Integers, Sequences, FiniteSets, Functions

CONSTANTS
    Threads,     \* foreign threads
    Soon,        \* callbacks that call_soon and call_soon_threadsafe schedule
    Ops,         \* io_uring operations
    Streams,     \* those that are stream reads, delivered through the batch
    Wake,        \* the eventfd read, and its callback
    Expired,     \* CQE of a watchdog that ran out
    Removed,     \* CQE of a removed watchdog, and of its removal
    Nobody,      \* the mutex is free
    Loop,        \* the loop thread
    None,        \* no callback
    BufLen,      \* blocking_ready_tasks.len
    MaxRecords,  \* CompletionBatch.MaxRecords
    Faults,      \* which of FaultKinds occur
    MaxFaults    \* bound: how many faults occur

(* io_uring_enter refuses a submission; the SQ has no room for the         *)
(* watchdog; copying CQEs fails; the ready ring cannot grow; a Python      *)
(* signal handler raises; KeyboardInterrupt or SystemExit leaves a         *)
(* callback.                                                               *)
FaultKinds == {"submit", "sq_full", "copy", "grow", "signal", "interrupt"}

ASSUME RunnerAssumption ==
    /\ Streams \subseteq Ops
    /\ Soon \cap (Ops \cup {Wake}) = {}
    /\ Wake \notin Ops
    /\ {Expired, Removed} \cap (Soon \cup Ops \cup {Wake}) = {}
    /\ Expired # Removed
    /\ {Nobody, Loop} \cap Threads = {}
    /\ Nobody # Loop
    /\ BufLen \in Nat \ {0}
    /\ MaxRecords \in Nat
    /\ MaxFaults \in Nat
    /\ Faults \subseteq FaultKinds

VARIABLES
    pc,            \* where the loop thread is
    mutex,         \* who holds Loop.mutex
    stopping,      \* Loop.stopping
    queues,        \* Loop.ready_tasks_queues
    index,         \* Loop.ready_tasks_queue_index
    ring_blocked,  \* IO.ring_blocked
    wait,          \* wait_for_blocking_events
    executed,      \* callbacks_executed # 0
    handed,        \* the callback executed last
    batch,         \* Loop.completion_batch
    flagged,       \* reads flagged batch_dispatched, not delivered yet
    dropped,       \* history: those whose record an interrupt dropped
    idle_hooks,    \* Loop.idle_hooks.len # 0
    sq,            \* SQEs staged in the submission queue
    kernel,        \* operations in flight
    watchdogs,     \* watchdog timeouts in flight
    cq,            \* the completion queue
    eventfd,       \* the eventfd counter is not zero
    buf,           \* blocking_ready_tasks[0 .. nevents], what is left of it
    full,          \* the last copy filled blocking_ready_tasks
    park_err,      \* the wait failed
    pushing,       \* the foreign thread that pushed and has to check ring_blocked
    lost,          \* completions taken from the ring and never accounted
    faults_left

pyvars == <<queues, index, batch, flagged, executed, handed, idle_hooks, dropped>>
iovars == <<sq, kernel, watchdogs, cq, eventfd>>
vars == <<pc, mutex, stopping, pyvars, ring_blocked, wait, iovars, buf, full,
          park_err, pushing, lost, faults_left>>

Init ==
    /\ pc = "off"
    /\ mutex = Nobody
    /\ stopping = FALSE
    /\ queues = [i \in 0 .. 1 |-> <<>>]
    /\ index = 0
    /\ ring_blocked = FALSE
    /\ wait = FALSE
    /\ executed = FALSE
    /\ handed = None
    /\ batch = <<>>
    /\ flagged = {}
    /\ dropped = {}
    /\ idle_hooks = FALSE
    /\ sq = <<Wake>>
    /\ kernel = {}
    /\ watchdogs = 0
    /\ cq = <<>>
    /\ eventfd = FALSE
    /\ buf = <<>>
    /\ full = FALSE
    /\ park_err = FALSE
    /\ pushing = Nobody
    /\ lost = {}
    /\ faults_left = MaxFaults

Min(a, b) == IF a < b THEN a ELSE b

Queued == Range(queues[0]) \cup Range(queues[1])

Fault(f) ==
    /\ f \in Faults
    /\ faults_left > 0
    /\ faults_left' = faults_left - 1

NoFault == UNCHANGED faults_left

(* The operations among SQEs or CQEs: all but watchdogs.    *)
Real(s) == Range(s) \ {Expired, Removed}

Count(x, s) == Cardinality({i \in DOMAIN s : s[i] = x})

(* ring.submit: the kernel takes every staged SQE.  A timeout_remove       *)
(* completes at once, and so does the watchdog that it finds running; one  *)
(* that a failed submission left in the SQ comes before newer watchdogs.   *)
Submit(staged) ==
    LET removals == Count(Removed, staged)
        hits == Min(watchdogs, removals)
    IN  /\ sq' = <<>>
        /\ kernel' = kernel \cup Real(staged)
        /\ watchdogs' = watchdogs - hits + Count(Expired, staged)
        /\ cq' = cq \o [i \in 1 .. removals + hits |-> Removed]

(* copy_cqes: the oldest CQEs, as many as the buffer holds. *)
Copy ==
    LET n == Min(Len(cq), BufLen) IN
    /\ buf' = SubSeq(cq, 1, n)
    /\ full' = (n = BufLen)
    /\ cq' = SubSeq(cq, n + 1, Len(cq))

-----------------------------------------------------------------------------
(***************************************************************************)
(* start, and the ways out of it.                                          *)
(***************************************************************************)

(* The checks of start: the loop is neither running nor told to stop. *)
start ==
    /\ pc = "off"
    /\ mutex = Nobody
    /\ ~stopping
    /\ pc' = "top"
    /\ mutex' = Loop
    /\ wait' = FALSE
    /\ UNCHANGED <<stopping, pyvars, ring_blocked, iovars, buf, full, pushing,
                   park_err, lost, faults_left>>

(* start returns, normally or with an error.                               *)
Exit ==
    /\ pc' = "off"
    /\ mutex' = Nobody
    /\ stopping' = FALSE
    /\ buf' = <<>>
    /\ full' = FALSE

(* The `while (!self.stopping)' of start is left. *)
leave ==
    /\ pc = "top"
    /\ stopping
    /\ Exit
    /\ UNCHANGED <<queues, index, batch, flagged, executed, handed, idle_hooks, dropped,
                   ring_blocked, wait, iovars, pushing, park_err, lost, faults_left>>

-----------------------------------------------------------------------------
(***************************************************************************)
(* poll_blocking_events.                                                   *)
(***************************************************************************)

(* Whether the poll may block. *)
MayPark == wait /\ queues[index] = <<>>

(* The non-blocking branch: flush_pending_sqes, then a peek at the CQEs. *)
poll_flush ==
    /\ pc = "top"
    /\ ~stopping
    /\ ~MayPark
    /\ \/ /\ Submit(sq)
          /\ pc' = "peek"
          /\ NoFault
          /\ UNCHANGED <<mutex, stopping, buf, full>>
       \/ /\ sq # <<>>
          /\ Fault("submit")
          /\ Exit
          /\ UNCHANGED <<sq, kernel, watchdogs, cq>>
    /\ UNCHANGED <<queues, index, batch, flagged, executed, handed, idle_hooks, dropped,
                   ring_blocked, wait, eventfd, pushing, park_err, lost>>

poll_peek ==
    /\ pc = "peek"
    /\ Copy
    /\ pc' = "fetch"
    /\ UNCHANGED <<mutex, stopping, pyvars, ring_blocked, wait, sq, kernel, watchdogs,
                   eventfd, pushing, park_err, lost, faults_left>>

(* Mutated form of poll_park: the mutex is released without the flag. *)
poll_park_unflagged ==
    /\ pc = "top"
    /\ ~stopping
    /\ MayPark
    /\ mutex' = Nobody
    /\ pc' = "drain"
    /\ UNCHANGED <<stopping, pyvars, ring_blocked, wait, iovars, buf, full, pushing,
                   park_err, lost, faults_left>>

(* Mutated form of poll_park: the wait is entered without draining. *)
poll_park_undrained ==
    /\ pc = "top"
    /\ ~stopping
    /\ MayPark
    /\ ring_blocked' = TRUE
    /\ mutex' = Nobody
    /\ pc' = "arm"
    /\ UNCHANGED <<stopping, pyvars, wait, iovars, buf, full, pushing, park_err, lost,
                   faults_left>>

(* The blocking branch: flag the ring as blocked, then release the mutex   *)
(* (and the GIL).                                                          *)
poll_park ==
    /\ pc = "top"
    /\ ~stopping
    /\ MayPark
    /\ ring_blocked' = TRUE
    /\ mutex' = Nobody
    /\ pc' = "drain"
    /\ UNCHANGED <<stopping, pyvars, wait, iovars, buf, full, pushing, park_err, lost,
                   faults_left>>

(* The first copy of the drain. *)
drain ==
    /\ pc = "drain"
    /\ Copy
    /\ pc' = IF cq = <<>> THEN "arm" ELSE IF full' THEN "drain_more" ELSE "restore"
    /\ UNCHANGED <<mutex, stopping, pyvars, ring_blocked, wait, sq, kernel, watchdogs,
                   eventfd, pushing, park_err, lost, faults_left>>

(* The copies that follow a full one.  They write to the same buffer: what *)
(* the previous copy left there is overwritten before anyone looked at it. *)
drain_more ==
    /\ pc = "drain_more"
    /\ IF cq = <<>>
       THEN pc' = "restore" /\ UNCHANGED <<cq, buf, full, lost>>
       ELSE /\ Copy
            /\ lost' = lost \cup Real(buf)
            /\ pc' = IF full' THEN "drain_more" ELSE "restore"
    /\ UNCHANGED <<mutex, stopping, pyvars, ring_blocked, wait, sq, kernel, watchdogs,
                   eventfd, pushing, park_err, faults_left>>

(* A copy of the drain fails: the error is returned once the GIL is back,  *)
(* and the wait is skipped.                                                *)
drain_error ==
    /\ pc \in {"drain", "drain_more"}
    /\ Fault("copy")
    /\ park_err' = TRUE
    /\ pc' = "restore"
    /\ UNCHANGED <<mutex, stopping, pyvars, ring_blocked, wait, iovars, buf, full, pushing,
                   lost>>

(* Mutated form of arm: the wait is not bounded. *)
arm_unwatched ==
    /\ pc = "arm"
    /\ Submit(sq)
    /\ pc' = "park"
    /\ UNCHANGED <<mutex, stopping, pyvars, ring_blocked, wait, eventfd, buf, full,
                   pushing, park_err, lost, faults_left>>

(* The ring is empty: arm the watchdog, submit, and wait for one CQE.  If  *)
(* the submission fails the watchdog stays in the SQ, if the SQ is full    *)
(* there is none; the wait is then a bounded sleep and a peek.             *)
arm ==
    /\ pc = "arm"
    /\ \/ /\ Submit(Append(sq, Expired))
          /\ pc' = "park"
          /\ NoFault
       \/ /\ Fault("submit")
          /\ sq' = Append(sq, Expired)
          /\ pc' = "doze"
          /\ UNCHANGED <<kernel, watchdogs, cq>>
       \/ /\ Fault("sq_full")
          /\ Submit(sq)
          /\ pc' = "doze"
    /\ UNCHANGED <<mutex, stopping, pyvars, ring_blocked, wait, eventfd, buf, full,
                   pushing, park_err, lost>>

doze ==
    /\ pc = "doze"
    /\ \/ Copy /\ NoFault /\ UNCHANGED park_err
       \/ Fault("copy") /\ park_err' = TRUE /\ UNCHANGED <<cq, buf, full>>
    /\ pc' = "restore"
    /\ UNCHANGED <<mutex, stopping, pyvars, ring_blocked, wait, sq, kernel, watchdogs,
                   eventfd, pushing, lost>>

(* copy_cqes(.., 1) returns, with the CQEs there are or with an error. *)
unpark ==
    /\ pc = "park"
    /\ \/ cq # <<>> /\ Copy /\ NoFault /\ UNCHANGED park_err
       \/ Fault("copy") /\ park_err' = TRUE /\ UNCHANGED <<cq, buf, full>>
    /\ pc' = "disarm"
    /\ UNCHANGED <<mutex, stopping, pyvars, ring_blocked, wait, sq, kernel, watchdogs,
                   eventfd, pushing, lost>>

(* The GIL is taken back and the watchdog removed, only after the wait.    *)
disarm ==
    /\ pc = "disarm"
    /\ \/ Submit(Append(sq, Removed)) /\ NoFault
       \/ Fault("submit") /\ sq' = Append(sq, Removed) /\ UNCHANGED <<kernel, watchdogs, cq>>
    /\ pc' = "restore"
    /\ UNCHANGED <<mutex, stopping, pyvars, ring_blocked, wait, eventfd, buf, full,
                   pushing, park_err, lost>>

(* The mutex is taken back and the flag cleared.  An error of the wait, or *)
(* a signal handler that raises, ends the run: what was copied is dropped. *)
restore ==
    /\ pc = "restore"
    /\ mutex = Nobody
    /\ ring_blocked' = FALSE
    /\ park_err' = FALSE
    /\ \/ /\ ~park_err
          /\ mutex' = Loop
          /\ pc' = "fetch"
          /\ NoFault
          /\ UNCHANGED <<stopping, buf, full, lost>>
       \/ /\ (park_err /\ NoFault) \/ Fault("signal")
          /\ lost' = lost \cup Real(buf)
          /\ Exit
    /\ UNCHANGED <<queues, index, batch, flagged, executed, handed, idle_hooks, dropped,
                   wait, iovars, pushing>>

-----------------------------------------------------------------------------
(***************************************************************************)
(* fetch_completed_tasks, with the mutex held.                             *)
(***************************************************************************)

(* Mutated form of fetch: a watchdog CQE ends the pass, not its iteration. *)
fetch_stop_at_watchdog ==
    /\ pc = "fetch"
    /\ buf # <<>>
    /\ IF Head(buf) \in {Expired, Removed}
       THEN /\ buf' = <<>>
            /\ lost' = lost \cup Real(buf)
            /\ UNCHANGED queues
       ELSE /\ buf' = Tail(buf)
            /\ queues' = [queues EXCEPT ![index] = Append(@, Head(buf))]
            /\ UNCHANGED lost
    /\ UNCHANGED <<pc, mutex, stopping, index, batch, flagged, executed, handed, idle_hooks,
                   dropped, ring_blocked, wait, iovars, full, pushing, park_err,
                   faults_left>>

(* One CQE: a stream read with data also gets a record in the batch, when  *)
(* there is room, and its callback is flagged so that it will not deliver  *)
(* the data a second time.  A watchdog CQE is skipped.                     *)
fetch ==
    /\ pc = "fetch"
    /\ buf # <<>>
    /\ buf' = Tail(buf)
    /\ LET e == Head(buf)
           batched == e \in Streams /\ Len(batch) < MaxRecords
       IN \/ /\ e \in {Expired, Removed}
             /\ UNCHANGED <<queues, batch, flagged>>
          \/ /\ e \notin {Expired, Removed}
             /\ queues' = [queues EXCEPT ![index] = Append(@, e)]
             /\ batch' = IF batched THEN Append(batch, e) ELSE batch
             /\ flagged' = IF batched THEN flagged \cup {e} ELSE flagged
    /\ UNCHANGED <<pc, mutex, stopping, index, executed, handed, idle_hooks, dropped,
                   ring_blocked, wait, iovars, full, pushing, park_err, lost, faults_left>>

(* The ready ring cannot grow: the run ends, the rest of the CQEs is gone. *)
fetch_error ==
    /\ pc = "fetch"
    /\ Real(buf) # {}
    /\ Fault("grow")
    /\ lost' = lost \cup Real(buf)
    /\ Exit
    /\ UNCHANGED <<queues, index, batch, flagged, executed, handed, idle_hooks, dropped,
                   ring_blocked, wait, iovars, pushing, park_err>>

(* A full batch was accounted: copy the next one. *)
fetch_more ==
    /\ pc = "fetch"
    /\ buf = <<>>
    /\ full
    /\ Copy
    /\ UNCHANGED <<pc, mutex, stopping, pyvars, ring_blocked, wait, sq, kernel, watchdogs,
                   eventfd, pushing, park_err, lost, faults_left>>

(* Mutated form of flip: producers keep pushing to the queue executed.     *)
flip_forgotten ==
    /\ pc = "fetch"
    /\ buf = <<>>
    /\ ~full
    /\ mutex' = Nobody
    /\ pc' = "dispatch"
    /\ executed' = FALSE
    /\ UNCHANGED <<stopping, queues, index, batch, flagged, handed, idle_hooks, dropped,
                   ring_blocked, wait, iovars, buf, full, pushing, park_err, lost,
                   faults_left>>

(* The poll is over: from here producers push to the other queue. *)
flip ==
    /\ pc = "fetch"
    /\ buf = <<>>
    /\ ~full
    /\ index' = 1 - index
    /\ mutex' = Nobody
    /\ pc' = "dispatch"
    /\ executed' = FALSE
    /\ UNCHANGED <<stopping, queues, batch, flagged, handed, idle_hooks, dropped,
                   ring_blocked, wait, iovars, buf, full, pushing, park_err, lost,
                   faults_left>>
-----------------------------------------------------------------------------
(***************************************************************************)
(* The rest of the tick runs without the mutex.                            *)
(***************************************************************************)

Executing_current == index   \* mutated form

(* The queue this tick executes. *)
Executing == 1 - index

(* dispatch_completion_batch hands the next record to its protocol; its    *)
(* data_received or buffer_updated is running.                             *)
dispatch ==
    /\ pc = "dispatch"
    /\ IF batch = <<>>
       THEN pc' = "check" /\ UNCHANGED <<batch, flagged>>
       ELSE /\ pc' = "deliver"
            /\ batch' = Tail(batch)
            /\ flagged' = flagged \ {Head(batch)}
    /\ UNCHANGED <<mutex, stopping, queues, index, executed, handed, idle_hooks, dropped,
                   ring_blocked, wait, iovars, buf, full, pushing, park_err, lost,
                   faults_left>>

(* Mutated form of delivered: an ordinary exception ends the batch too.    *)
delivered_stops ==
    /\ pc = "deliver"
    /\ pc' \in {"dispatch", "check"}
    /\ batch' = IF pc' = "check" THEN <<>> ELSE batch
    /\ UNCHANGED <<mutex, stopping, queues, index, executed, handed, idle_hooks, dropped,
                   flagged, ring_blocked, wait, iovars, buf, full, pushing, park_err, lost,
                   faults_left>>

(* The protocol callback returns; an ordinary exception is reported and    *)
(* the batch goes on.                                                      *)
delivered ==
    /\ pc = "deliver"
    /\ pc' = "dispatch"
    /\ UNCHANGED <<mutex, stopping, pyvars, ring_blocked, wait, iovars, buf, full, pushing,
                   park_err, lost, faults_left>>

(* The check hooks have run. *)
check_hooks ==
    /\ pc = "check"
    /\ pc' = "exec"
    /\ UNCHANGED <<mutex, stopping, pyvars, ring_blocked, wait, iovars, buf, full, pushing,
                   park_err, lost, faults_left>>

(* execute_dynamic_ring_buffer takes the next callback of the queue.  The  *)
(* callback of a read that was batched clears batch_dispatched.            *)
consume ==
    /\ pc = "exec"
    /\ queues[Executing] # <<>>
    /\ handed' = Head(queues[Executing])
    /\ queues' = [queues EXCEPT ![Executing] = Tail(@)]
    /\ pc' = IF handed' = Wake THEN "rearm" ELSE "run"
    /\ UNCHANGED <<mutex, stopping, index, batch, flagged, executed, idle_hooks, dropped,
                   ring_blocked, wait, iovars, buf, full, pushing, park_err, lost,
                   faults_left>>

Stage(o) ==
    /\ sq' = Append(sq, o)
    /\ eventfd' = (eventfd \/ ring_blocked)

(* eventfd_callback queues the persistent read again, with the mutex. *)
rearm ==
    /\ pc = "rearm"
    /\ mutex = Nobody
    /\ Stage(Wake)
    /\ executed' = TRUE
    /\ pc' = "exec"
    /\ UNCHANGED <<mutex, stopping, queues, index, batch, flagged, handed, idle_hooks,
                   dropped, ring_blocked, wait, kernel, watchdogs, cq, buf, full, pushing,
                   park_err, lost, faults_left>>

(* The callback returns; an ordinary exception goes to the handler. *)
returned ==
    /\ pc = "run"
    /\ executed' = TRUE
    /\ flagged' = flagged \ {handed}
    /\ dropped' = dropped \ {handed}
    /\ pc' = "exec"
    /\ UNCHANGED <<mutex, stopping, queues, index, batch, handed, idle_hooks, ring_blocked,
                   wait, iovars, buf, full, pushing, park_err, lost, faults_left>>

(* KeyboardInterrupt or SystemExit leaves start from a callback, or from a *)
(* protocol callback, in which case the batch is reset.                    *)
interrupted ==
    /\ pc \in {"deliver", "run"}
    /\ mutex = Nobody
    /\ Fault("interrupt")
    /\ batch' = <<>>
    /\ flagged' = IF pc = "run" THEN flagged \ {handed} ELSE flagged
    /\ dropped' = IF pc = "run" THEN dropped \ {handed} ELSE dropped \cup Range(batch)
    /\ Exit
    /\ UNCHANGED <<queues, index, executed, handed, idle_hooks, ring_blocked, wait, iovars,
                   pushing, park_err, lost>>

(* The queue is drained: the idle and prepare hooks. *)
call_once ==
    /\ pc = "exec"
    /\ queues[Executing] = <<>>
    /\ pc' = "hooks"
    /\ UNCHANGED <<mutex, stopping, pyvars, ring_blocked, wait, iovars, buf, full, pushing,
                   park_err, lost, faults_left>>

(* End of the tick.  The next poll may block if nothing ran. *)
end_tick ==
    /\ pc = "hooks"
    /\ mutex = Nobody
    /\ mutex' = Loop
    /\ wait' = (~executed /\ ~idle_hooks)
    /\ pc' = "top"
    /\ UNCHANGED <<stopping, pyvars, ring_blocked, iovars, buf, full, pushing, park_err,
                   lost, faults_left>>

-----------------------------------------------------------------------------
(***************************************************************************)
(* What Python code does: on the loop thread while a callback, a protocol  *)
(* or a hook runs, on the other threads at any time.                       *)
(***************************************************************************)

PythonRuns == pc \in {"deliver", "check", "run", "hooks"}

MayPush(c) == c \notin Queued

(* An operation can be queued when it is not under way. *)
MayQueue(o) ==
    o \notin Real(sq) \cup kernel \cup Real(cq) \cup Real(buf) \cup Queued \cup lost

Push(c) == queues' = [queues EXCEPT ![index] = Append(@, c)]

(* call_soon: dispatch on the loop thread, where the ring is not blocked. *)
call_soon(c) ==
    /\ PythonRuns
    /\ mutex = Nobody
    /\ MayPush(c)
    /\ Push(c)
    /\ UNCHANGED <<pc, mutex, stopping, index, batch, flagged, executed, handed, idle_hooks,
                   dropped, ring_blocked, wait, iovars, buf, full, pushing, park_err, lost,
                   faults_left>>

(* IO.queue, from any thread.  The loop thread uses the SQ without the     *)
(* mutex in arm and disarm; only accesses that do not overlap with those   *)
(* are modelled (asyncio promises no more for other threads).              *)
IO_queue(o) ==
    /\ mutex = Nobody
    /\ MayQueue(o)
    /\ Stage(o)
    /\ UNCHANGED <<pc, mutex, stopping, pyvars, ring_blocked, wait, kernel, watchdogs, cq,
                   buf, full, pushing, park_err, lost, faults_left>>

(* add_hook and remove_hook of an idle hook. *)
set_idle_hooks(b) ==
    /\ PythonRuns
    /\ mutex = Nobody
    /\ idle_hooks # b
    /\ idle_hooks' = b
    /\ UNCHANGED <<pc, mutex, stopping, queues, index, batch, flagged, executed, handed,
                   dropped, ring_blocked, wait, iovars, buf, full, pushing, park_err, lost,
                   faults_left>>

(* loop_stop, from any thread. *)
loop_stop ==
    /\ mutex = Nobody
    /\ ~stopping
    /\ stopping' = TRUE
    /\ UNCHANGED <<pc, mutex, pyvars, ring_blocked, wait, iovars, buf, full, pushing,
                   park_err, lost, faults_left>>

(* call_soon_threadsafe: a foreign thread takes the mutex and pushes ...   *)
dispatch_push(t, c) ==
    /\ mutex = Nobody
    /\ MayPush(c)
    /\ mutex' = t
    /\ pushing' = t
    /\ Push(c)
    /\ UNCHANGED <<pc, stopping, index, batch, flagged, executed, handed, idle_hooks,
                   dropped, ring_blocked, wait, iovars, buf, full, park_err, lost,
                   faults_left>>

(* ... then looks at ring_blocked, writes the eventfd if it is set, and    *)
(* releases the mutex.                                                     *)
dispatch_wake ==
    /\ pushing # Nobody
    /\ eventfd' = (eventfd \/ ring_blocked)
    /\ mutex' = Nobody
    /\ pushing' = Nobody
    /\ UNCHANGED <<pc, stopping, pyvars, ring_blocked, wait, sq, kernel, watchdogs, cq, buf,
                   full, park_err, lost, faults_left>>

-----------------------------------------------------------------------------
(***************************************************************************)
(* The kernel.                                                             *)
(***************************************************************************)

KernelComplete(o) ==
    /\ o \in kernel \cap Ops
    /\ kernel' = kernel \ {o}
    /\ cq' = Append(cq, o)
    /\ UNCHANGED <<pc, mutex, stopping, pyvars, ring_blocked, wait, sq, watchdogs, eventfd,
                   buf, full, pushing, park_err, lost, faults_left>>

(* The eventfd read completes once the counter is not zero, and clears it. *)
KernelWake ==
    /\ Wake \in kernel
    /\ eventfd
    /\ kernel' = kernel \ {Wake}
    /\ cq' = Append(cq, Wake)
    /\ eventfd' = FALSE
    /\ UNCHANGED <<pc, mutex, stopping, pyvars, ring_blocked, wait, sq, watchdogs, buf,
                   full, pushing, park_err, lost, faults_left>>

(* A watchdog runs out. *)
KernelExpire ==
    /\ watchdogs > 0
    /\ watchdogs' = watchdogs - 1
    /\ cq' = Append(cq, Expired)
    /\ UNCHANGED <<pc, mutex, stopping, pyvars, ring_blocked, wait, sq, kernel, eventfd,
                   buf, full, pushing, park_err, lost, faults_left>>

LoopStep ==
    \/ leave \/ poll_flush \/ poll_peek \/ poll_park \/ drain \/ drain_more \/ drain_error
    \/ arm \/ doze \/ unpark \/ disarm \/ restore
    \/ fetch \/ fetch_error \/ fetch_more \/ flip
    \/ dispatch \/ delivered \/ check_hooks \/ consume \/ rearm \/ returned \/ interrupted
    \/ call_once \/ end_tick

PythonStep ==
    \/ \E c \in Soon : call_soon(c)
    \/ \E o \in Ops : IO_queue(o)
    \/ \E b \in BOOLEAN : set_idle_hooks(b)
    \/ loop_stop
    \/ \E t \in Threads, c \in Soon : dispatch_push(t, c)

Next ==
    \/ start
    \/ LoopStep
    \/ PythonStep
    \/ dispatch_wake
    \/ \E o \in Ops : KernelComplete(o)
    \/ KernelWake
    \/ KernelExpire

Spec == Init /\ [][Next]_vars

(* The loop thread and a thread inside its critical section keep running,  *)
(* and the kernel completes a read of a ready eventfd.  Operations need    *)
(* not complete and nobody has to start the loop.                          *)
FairSpec == Spec /\ WF_vars(LoopStep) /\ WF_vars(dispatch_wake) /\ WF_vars(KernelWake)

(* A watchdog also runs out in the end. *)
WatchedSpec == FairSpec /\ WF_vars(KernelExpire)

-----------------------------------------------------------------------------
(***************************************************************************)
(* Properties.                                                             *)
(***************************************************************************)

Callbacks == Soon \cup Ops \cup {Wake}

(* No lost wake-up.  While the loop is blocked in copy_cqes(.., 1), a      *)
(* callback that another thread pushed or an operation that it queued is   *)
(* not left to the 100 ms watchdog: a completion is there, or the eventfd  *)
(* was written and its read is in flight.  And it never blocks while the   *)
(* other queue, where an interrupted run may have left callbacks, has      *)
(* something to execute.                                                   *)
WakeupNotLost ==
    /\ pc = "park" /\ mutex = Nobody /\ (queues[index] # <<>> \/ sq # <<>>)
        => cq # <<>> \/ (eventfd /\ Wake \in kernel)
    /\ ring_blocked => queues[1 - index] = <<>>

(* BUG-415: a wait is never cut short by the loop's own watchdog removal,  *)
(* so an idle loop really blocks.                                          *)
ParkIsNotCutShort ==
    pc = "park" => Count(Removed, cq) = 0

(* What copy_cqes took out of the ring is accounted: every completion ends *)
(* up in a ready queue.                                                    *)
NoCompletionLost ==
    lost = {}

(* Data of a batched read is delivered to the protocol before the read's   *)
(* own callback, flagged not to deliver it again, runs and reuses the      *)
(* buffer.  The one way to lose it is an exception that ends the run from  *)
(* the protocol callback of a record in front of it: the rest of the batch *)
(* is reset, the flags stay.                                               *)
BatchedDataDelivered ==
    /\ pc = "run" /\ handed \in flagged => handed \in dropped
    /\ Range(batch) \cap (Real(sq) \cup kernel) = {}

(* The two queues together are one FIFO: whatever the thread that pushed,  *)
(* and whether it was a callback or a completion, callbacks run in the     *)
(* order in which they were scheduled.                                     *)
F == INSTANCE Fifo WITH
        Callbacks <- Callbacks,
        NoCallback <- None,
        queue <- queues[1 - index] \o queues[index],
        handed <- handed

ReadyQueuesAreFifo == F!Spec

(* A callback that was scheduled runs, as long as the loop is not left.    *)
(* This does not lean on the watchdog.                                     *)
ScheduledCallbackRuns ==
    \A c \in Soon : (pc # "off" /\ c \in Queued) ~> (pc = "off" \/ (pc = "run" /\ handed = c))

(* A running loop that is told to stop comes to an end, even if callbacks  *)
(* keep rescheduling themselves and nobody wakes it from its wait.         *)
StopEndsTheRun ==
    stopping /\ pc # "off" ~> pc = "off"
=============================================================================
