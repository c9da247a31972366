------------------------------ MODULE TaskSlots ------------------------------
(***************************************************************************)
(* The blocking-task slots of the event loop, src/src/loop/scheduling/io.  *)
(*                                                                         *)
(* Every io_uring operation is given a slot of a BlockingTasksSet, and the *)
(* address of that slot is the user_data of its SQE: the completion finds  *)
(* the callback to run through it, and a cancellation names the operation  *)
(* by it.  Slots are recycled through a free list, a full set is put aside *)
(* (disattached) and its memory is released by its last completion.        *)
(*                                                                         *)
(* Every action here runs with the loop mutex held, or (a callback) on the *)
(* loop thread.  The kernel is the only other actor: a submission is a     *)
(* system call that consumes the SQEs in order before it returns, and      *)
(* operations complete in any order.                                       *)
(***************************************************************************)
EXTENDS Integers, Sequences, FiniteSets

CONSTANTS
    Ops,             \* the operations the owners (handles, transports) queue
    Bare,            \* those queued without a callback (SocketShutdown)
    Linked,          \* those queued with a linked timeout: two SQEs
    ClearAtHarvest,  \* those whose owner forgets the id when it is harvested
    NoOp,            \* the `.none' of BlockingTaskData
    NoTask,          \* a blocking_task_id of 0
    Sets,            \* the memory blocks a BlockingTasksSet can be given
    TotalTasksItems, \* slots of a set and entries of the submission queue
    MaxRefused       \* bound: io_uring_enter fails only while fewer operations were refused

ASSUME TaskSlotsAssumption ==
    /\ Bare \subseteq Ops
    /\ Linked \subseteq Ops
    /\ ClearAtHarvest \subseteq Ops
    /\ NoOp \notin Ops
    /\ IsFiniteSet(Ops)
    /\ Sets # {}
    /\ TotalTasksItems \in Nat \ {0, 1, 2}
    /\ MaxRefused \in Nat

VARIABLES
    pool,              \* set -> its BlockingTasksSet
    set,               \* IO.set, the set that new operations go to
    reserved_slots,    \* Loop.reserved_slots
    sq,                \* SQEs prepared but not submitted
    submitted,         \* SQEs that the running io_uring_enter still has to take
    stage,             \* operation -> where it is
    user_data,         \* operation -> the slot its SQE carries
    blocking_task_id,  \* operation -> the id its owner remembers
    cancelled,         \* operations whose owner asked to cancel them
    refused,           \* operations whose queue() call returned an error
                       \* although their SQE is staged
    misfired,          \* operations the kernel cancelled in place of another
    ring_open          \* ring.fd >= 0

vars == <<pool, set, reserved_slots, sq, submitted, stage, user_data,
          blocking_task_id, cancelled, refused, misfired, ring_open>>

Slots == 0 .. TotalTasksItems - 1

(* Where an operation is: not queued, in the SQ, with the kernel, in the   *)
(* CQ, or harvested with its callback in the ready queue.                  *)
Stages == {"idle", "staged", "inflight", "cq", "ready"}

(* The stages in which an operation owns its slot. *)
Owning == {"staged", "inflight", "cq"}

FreshPool ==
    [node |-> "none", index |-> 0, free |-> <<>>, active |-> 0,
     disattached |-> FALSE, data |-> [i \in Slots |-> NoOp]]

Init ==
    /\ \E s \in Sets :
        /\ set = s
        /\ pool = [t \in Sets |-> IF t = s
                                  THEN [FreshPool EXCEPT !.node = "current"]
                                  ELSE FreshPool]
    /\ reserved_slots = 0
    /\ sq = <<>>
    /\ submitted = <<>>
    /\ stage = [o \in Ops |-> "idle"]
    /\ user_data = [o \in Ops |-> NoTask]
    /\ blocking_task_id = [o \in Ops |-> NoTask]
    /\ cancelled = {}
    /\ refused = {}
    /\ misfired = {}
    /\ ring_open = TRUE

-----------------------------------------------------------------------------
(***************************************************************************)
(* BlockingTasksSet.                                                       *)
(***************************************************************************)

free_ignoring_recycled(p) == p.index < TotalTasksItems   \* mutated form

(* Whether the set has room: bump slots never used, or recycled ones. *)
free(p) == p.index - Len(p.free) < TotalTasksItems

(* The slot the next push takes: the last one recycled, else a new one. *)
SlotFor(p) == IF p.free = <<>> THEN p.index ELSE p.free[Len(p.free)]

push_keep_free(p, o) ==                                  \* mutated form
    [p EXCEPT !.data[SlotFor(p)] = IF o \in Bare THEN NoOp ELSE o,
              !.index = IF p.free = <<>> THEN @ + 1 ELSE @,
              !.active = @ + 1]

push(p, o) ==
    [p EXCEPT !.data[SlotFor(p)] = IF o \in Bare THEN NoOp ELSE o,
              !.index = IF p.free = <<>> THEN @ + 1 ELSE @,
              !.free = IF @ = <<>> THEN @ ELSE SubSeq(@, 1, Len(@) - 1),
              !.active = @ + 1]

(***************************************************************************)
(* pop gives the slot back.  The last task of the current set resets it;   *)
(* the last task of a disattached set unlinks and releases the node, whose *)
(* memory can then be handed out again, freshly initialised by init.       *)
(***************************************************************************)
pop(p, i) ==
    IF p.active = 1
    THEN IF p.disattached
         THEN FreshPool
         ELSE [p EXCEPT !.data[i] = NoOp, !.index = 0, !.free = <<>>, !.active = 0]
    ELSE [p EXCEPT !.data[i] = NoOp, !.free = Append(@, i), !.active = @ - 1]

(***************************************************************************)
(* get_blocking_tasks_set may return set s, and leaves the sets as in      *)
(* PoolsWith(s): when the current set is full it is disattached and joins  *)
(* the busy list, and s is a newly allocated node.  When that allocation   *)
(* fails the flag is rolled back and the caller gets the error: nothing    *)
(* changes.                                                                *)
(***************************************************************************)
get_blocking_tasks_set(s) ==
    IF free(pool[set]) THEN s = set ELSE pool[s].node = "none"

PoolsWith(s) ==
    IF s = set
    THEN pool
    ELSE [pool EXCEPT ![set].disattached = TRUE,
                      ![set].node = "busy",
                      ![s] = [FreshPool EXCEPT !.node = "current"]]

-----------------------------------------------------------------------------
(***************************************************************************)
(* IO.queue.                                                               *)
(***************************************************************************)

(* The ring is open and the loop thread is not inside io_uring_enter. *)
Ready == ring_open /\ submitted = <<>>

SQE(kind, o, id) == [kind |-> kind, op |-> o, id |-> id]

(* The SQEs of an operation; a linked timeout follows it.                  *)
Entries(o) ==
    IF o \in Linked
    THEN <<SQE("op", o, NoTask), SQE("link", o, NoTask)>>
    ELSE <<SQE("op", o, NoTask)>>

HasRoom(q) == Len(sq) + Len(q) <= TotalTasksItems

(* The owner keeps the id queue returned; a SocketShutdown has no owner.   *)
Remember(o) ==
    blocking_task_id' = [blocking_task_id EXCEPT
                            ![o] = IF o \in Bare THEN NoTask ELSE user_data'[o]]

Flush(q) == sq' = <<>> /\ submitted' = q

(***************************************************************************)
(* queue_unlocked for an operation: push, prepare the SQEs, and flush once *)
(* the SQ is nearly full.  The flush can fail, and then the caller is told *)
(* that queueing failed although the SQE stays staged.                     *)
(***************************************************************************)
queue(o) ==
    /\ Ready
    /\ stage[o] = "idle"
    /\ HasRoom(Entries(o))
    /\ \E s \in Sets :
        /\ get_blocking_tasks_set(s)
        /\ set' = s
        /\ pool' = [PoolsWith(s) EXCEPT ![s] = push(@, o)]
        /\ user_data' = [user_data EXCEPT ![o] = <<s, SlotFor(PoolsWith(s)[s])>>]
    /\ reserved_slots' = reserved_slots + 1
    /\ stage' = [stage EXCEPT ![o] = "staged"]
    /\ LET q == sq \o Entries(o) IN
        \/ /\ Len(q) < TotalTasksItems - 2
           /\ sq' = q
           /\ Remember(o)
           /\ UNCHANGED <<submitted, refused>>
        \/ /\ Len(q) >= TotalTasksItems - 2
           /\ Flush(q)
           /\ Remember(o)
           /\ UNCHANGED refused
        \/ /\ Len(q) >= TotalTasksItems - 2
           /\ Cardinality(refused) < MaxRefused
           /\ sq' = q
           /\ refused' = refused \cup {o}
           /\ UNCHANGED <<submitted, blocking_task_id>>
    /\ UNCHANGED <<cancelled, misfired, ring_open>>

(* Mutated form of queue_full: the reservation is not given back. *)
queue_full_drift(o) ==
    /\ Ready
    /\ stage[o] = "idle"
    /\ ~HasRoom(Entries(o))
    /\ \E s \in Sets :
        /\ get_blocking_tasks_set(s)
        /\ set' = s
        /\ pool' = [PoolsWith(s) EXCEPT ![s] = pop(push(@, o), SlotFor(@))]
    /\ reserved_slots' = reserved_slots + 1
    /\ UNCHANGED <<sq, submitted, stage, user_data, blocking_task_id,
                   cancelled, refused, misfired, ring_open>>

(***************************************************************************)
(* queue_unlocked when the SQ has no room for all SQEs of the operation: a *)
(* half-prepared linked pair is rolled back (sqe_tail - 1) and the slot is *)
(* discarded.                                                              *)
(***************************************************************************)
queue_full(o) ==
    /\ Ready
    /\ stage[o] = "idle"
    /\ ~HasRoom(Entries(o))
    /\ \E s \in Sets :
        /\ get_blocking_tasks_set(s)
        /\ set' = s
        /\ pool' = [PoolsWith(s) EXCEPT ![s] = pop(push(@, o), SlotFor(@))]
    /\ UNCHANGED <<reserved_slots, sq, submitted, stage, user_data, blocking_task_id,
                   cancelled, refused, misfired, ring_open>>

(***************************************************************************)
(* CancelIO or CancelTimer through the id the owner remembers.  A cancel   *)
(* takes no slot but asks for a set all the same, and is flushed at once.  *)
(***************************************************************************)
cancel(o) ==
    /\ Ready
    /\ blocking_task_id[o] # NoTask
    /\ o \notin cancelled
    /\ cancelled' = cancelled \cup {o}
    /\ \E s \in Sets :
        /\ get_blocking_tasks_set(s)
        /\ set' = s
        /\ pool' = PoolsWith(s)
    /\ LET e == SQE("cancel", o, blocking_task_id[o]) IN
        \/ HasRoom(<<e>>) /\ Flush(Append(sq, e))
        \/ /\ HasRoom(<<e>>)
           /\ Cardinality(refused) < MaxRefused
           /\ sq' = Append(sq, e)
           /\ UNCHANGED submitted
        \/ ~HasRoom(<<e>>) /\ UNCHANGED <<sq, submitted>>
    /\ UNCHANGED <<reserved_slots, stage, user_data, blocking_task_id, refused,
                   misfired, ring_open>>

(* flush_pending_sqes, as the poll of every tick calls it. *)
flush_pending_sqes ==
    /\ Ready
    /\ sq # <<>>
    /\ Flush(sq)
    /\ UNCHANGED <<pool, set, reserved_slots, stage, user_data, blocking_task_id,
                   cancelled, refused, misfired, ring_open>>

-----------------------------------------------------------------------------
(***************************************************************************)
(* The kernel.                                                             *)
(***************************************************************************)

(* The kernel starts the next submitted operation. *)
KernelStart ==
    /\ ring_open
    /\ submitted # <<>>
    /\ Head(submitted).kind \in {"op", "link"}
    /\ submitted' = Tail(submitted)
    /\ stage' = [stage EXCEPT ![Head(submitted).op] =
                    IF Head(submitted).kind = "op" THEN "inflight" ELSE @]
    /\ UNCHANGED <<pool, set, reserved_slots, sq, user_data, blocking_task_id,
                   cancelled, refused, misfired, ring_open>>

(* The kernel cancels whatever operation in flight carries the id named by *)
(* the next submitted cancel: that one completes with ECANCELED.           *)
KernelCancel ==
    /\ ring_open
    /\ submitted # <<>>
    /\ Head(submitted).kind = "cancel"
    /\ submitted' = Tail(submitted)
    /\ LET hit == {o \in Ops : stage[o] = "inflight"
                               /\ user_data[o] = Head(submitted).id} IN
        /\ stage' = [o \in Ops |-> IF o \in hit THEN "cq" ELSE stage[o]]
        /\ misfired' = misfired \cup (hit \ {Head(submitted).op})
    /\ UNCHANGED <<pool, set, reserved_slots, sq, user_data, blocking_task_id,
                   cancelled, refused, ring_open>>

(* An operation in flight completes (or its linked timeout expires). *)
KernelComplete(o) ==
    /\ ring_open
    /\ stage[o] = "inflight"
    /\ stage' = [stage EXCEPT ![o] = "cq"]
    /\ UNCHANGED <<pool, set, reserved_slots, sq, submitted, user_data,
                   blocking_task_id, cancelled, refused, misfired, ring_open>>

-----------------------------------------------------------------------------
(***************************************************************************)
(* Completion and teardown.                                                *)
(***************************************************************************)

(* The parts of fetch_completed_tasks that its mutated forms share. *)
Harvest(o) ==
    /\ Ready
    /\ stage[o] = "cq"
    /\ stage' = [stage EXCEPT ![o] = IF o \in Bare THEN "idle" ELSE "ready"]
    /\ pool' = [pool EXCEPT ![user_data[o][1]] = pop(@, user_data[o][2])]
    /\ user_data' = [user_data EXCEPT ![o] = NoTask]
    /\ refused' = IF o \in Bare THEN refused \ {o} ELSE refused
    /\ UNCHANGED <<set, sq, submitted, misfired, ring_open>>

fetch_keep_id(o) ==                                      \* mutated form
    /\ Harvest(o)
    /\ reserved_slots' = reserved_slots - 1
    /\ UNCHANGED <<blocking_task_id, cancelled>>

(***************************************************************************)
(* fetch_completed_tasks for one CQE: the callback stored in the slot is   *)
(* pushed to the ready queue, the counter is given back and the slot is    *)
(* released.  A batched stream read also forgets its id here.              *)
(***************************************************************************)
fetch_completed_task(o) ==
    /\ Harvest(o)
    /\ reserved_slots' = reserved_slots - 1
    /\ IF o \in ClearAtHarvest
       THEN /\ blocking_task_id' = [blocking_task_id EXCEPT ![o] = NoTask]
            /\ cancelled' = cancelled \ {o}
       ELSE UNCHANGED <<blocking_task_id, cancelled>>

(***************************************************************************)
(* The owner's callback runs (the mutex is not held) and forgets the id.   *)
(***************************************************************************)
run_callback(o) ==
    /\ submitted = <<>>
    /\ stage[o] = "ready"
    /\ stage' = [stage EXCEPT ![o] = "idle"]
    /\ blocking_task_id' = [blocking_task_id EXCEPT ![o] = NoTask]
    /\ cancelled' = cancelled \ {o}
    /\ refused' = refused \ {o}
    /\ misfired' = misfired \ {o}
    /\ UNCHANGED <<pool, set, reserved_slots, sq, submitted, user_data, ring_open>>

(* The operations that still hold a slot with a callback in it. *)
Callbacks == {o \in Ops : stage[o] \in Owning /\ o \notin Bare}

(* Mutated form of deinit: the busy sets are not walked. *)
deinit_current_only ==
    /\ Ready
    /\ ring_open' = FALSE
    /\ stage' = [o \in Ops |-> IF o \in Callbacks /\ user_data[o][1] = set
                               THEN "ready" ELSE stage[o]]
    /\ UNCHANGED <<pool, set, sq, submitted, user_data, reserved_slots,
                   blocking_task_id, cancelled, refused, misfired>>

(***************************************************************************)
(* IO.deinit: every callback of every set, current or busy, is dispatched  *)
(* with its cancelled flag set, all nodes are released, the ring is closed *)
(* with whatever it held.                                                  *)
(***************************************************************************)
deinit ==
    /\ Ready
    /\ ring_open' = FALSE
    /\ stage' = [o \in Ops |-> IF o \in Callbacks THEN "ready"
                               ELSE IF stage[o] \in Owning THEN "idle"
                               ELSE stage[o]]
    /\ pool' = [s \in Sets |-> FreshPool]
    /\ reserved_slots' = reserved_slots - Cardinality(Callbacks)
    /\ user_data' = [o \in Ops |-> NoTask]
    /\ sq' = <<>>
    /\ submitted' = <<>>
    /\ UNCHANGED <<set, blocking_task_id, cancelled, refused, misfired>>

Next ==
    \/ \E o \in Ops : queue(o)
    \/ \E o \in Ops : queue_full(o)
    \/ \E o \in Ops : cancel(o)
    \/ flush_pending_sqes
    \/ KernelStart
    \/ KernelCancel
    \/ \E o \in Ops : KernelComplete(o)
    \/ \E o \in Ops : fetch_completed_task(o)
    \/ \E o \in Ops : run_callback(o)
    \/ deinit

Spec == Init /\ [][Next]_vars

-----------------------------------------------------------------------------
(***************************************************************************)
(* Properties.                                                             *)
(***************************************************************************)

Tasks == Sets \X Slots

SQEs == [kind : {"op", "link", "cancel"}, op : Ops, id : Tasks \cup {NoTask}]

(* Type invariant of the slot bookkeeping.                                 *)
TypeOK ==
    /\ pool \in [Sets -> [node : {"none", "current", "busy"},
                          index : 0 .. TotalTasksItems,
                          free : Seq(Slots),
                          active : 0 .. TotalTasksItems,
                          disattached : BOOLEAN,
                          data : [Slots -> Ops \cup {NoOp}]]]
    /\ set \in Sets
    /\ reserved_slots \in Int
    /\ sq \in Seq(SQEs)
    /\ submitted \in Seq(SQEs)
    /\ stage \in [Ops -> Stages]
    /\ user_data \in [Ops -> Tasks \cup {NoTask}]
    /\ blocking_task_id \in [Ops -> Tasks \cup {NoTask}]
    /\ cancelled \subseteq Ops
    /\ refused \subseteq Ops
    /\ misfired \subseteq Ops
    /\ ring_open \in BOOLEAN

(* The operations that own a slot. *)
Outstanding == {o \in Ops : stage[o] \in Owning}

OutstandingIn(s) == {o \in Outstanding : user_data[o][1] = s}

(* fetch_completed_tasks dereferences the user_data of a CQE as a          *)
(* BlockingTask pointer.  From queueing to harvest the slot must be in     *)
(* live memory, not on the free list, and hold the callback of that very   *)
(* operation, whatever was queued, completed, discarded and released       *)
(* around it.                                                              *)
CompletionFindsItsCallback ==
    \A o \in Outstanding :
        LET p == pool[user_data[o][1]]
            i == user_data[o][2]
        IN  /\ p.node # "none"
            /\ i < p.index
            /\ \A k \in 1 .. Len(p.free) : p.free[k] # i
            /\ p.data[i] = IF o \in Bare THEN NoOp ELSE o

(* Loop.reserved_slots counts exactly the operations that own a slot, on   *)
(* every success, error and rollback path (BUG-364: `the loop-global       *)
(* counter would otherwise drift upward').                                 *)
ReservedSlotsExact ==
    ring_open => reserved_slots = Cardinality(Outstanding)

(* A set put aside is released by its last task and not before: its        *)
(* active_tasks counts the operations that still point into it, and no     *)
(* empty set stays behind in busy_sets.                                    *)
SetsReleasedWhenEmpty ==
    \A s \in Sets :
        /\ pool[s].node # "none" => pool[s].active = Cardinality(OutstandingIn(s))
        /\ pool[s].node = "busy" => pool[s].active > 0 /\ pool[s].disattached
        /\ ring_open => (pool[s].node = "current" <=> s = set)

(* A set is put aside only when every one of its slots is in use: as long  *)
(* as slots are recycled, no fresh set is allocated (BUG-364).             *)
SetPutAsideOnlyWhenFull ==
    [][\A s \in Sets :
        pool[s].node = "current" /\ pool'[s].node = "busy"
            => Cardinality(OutstandingIn(s)) = TotalTasksItems]_vars

(* IO.deinit leaves no operation behind: each one that had a callback has  *)
(* had it dispatched (with its cancelled flag) before the memory went.     *)
CloseSettlesEveryOp ==
    ~ring_open => Outstanding = {}

(* A cancel only ever reaches the operation its owner meant.  handle.zig   *)
(* (BUG-336) promises it for timers: the stale id is dropped `so a later   *)
(* cancel() cannot CancelTimer the new occupant'.                          *)
CancelHitsOwnOp ==
    misfired = {}

(* When queue() reports an error the operation is not queued: every caller *)
(* frees the data its callback would use (docs, BUG-310: `The op was never *)
(* queued on that path, so its completion cleanup would never run').       *)
RefusedOpIsNotQueued ==
    \A o \in refused : stage[o] \notin Owning
=============================================================================
