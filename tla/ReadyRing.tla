------------------------------ MODULE ReadyRing ------------------------------
(***************************************************************************)
(* DynamicRingBuffer of src/src/callback_manager.zig: the growable ring    *)
(* that holds the callbacks of one tick of the event loop.                 *)
(*                                                                         *)
(* Indices grow monotonically and are reduced to a slot with               *)
(* `idx & (capacity - 1)'.  The capacity is always a power of two (module  *)
(* CeilPow2 checks that), so the mask is the remainder by the capacity.    *)
(***************************************************************************)
EXTENDS Integers, Sequences

CONSTANTS
    Callbacks,     \* the callbacks that can be pushed
    NoCallback,    \* content of a slot that was never written
    InitCapacity,  \* capacity the ring is created with
    MaxCapacity,   \* bound: an allocation above it fails (error.OutOfMemory)
    MaxIndex       \* bound: no push once write_idx has reached it

ASSUME RingAssumption ==
    /\ InitCapacity \in Nat \ {0}
    /\ MaxCapacity \in Nat
    /\ MaxIndex \in Nat
    /\ NoCallback \notin Callbacks

VARIABLES
    callbacks,  \* slot -> callback
    executed,   \* slot -> has the slot been consumed
    capacity,
    read_idx,
    write_idx,
    handed      \* the callback `next' returned before the last `consume'

vars == <<callbacks, executed, capacity, read_idx, write_idx, handed>>

Slots == 0 .. capacity - 1

SlotOf(idx) == idx % capacity

count == write_idx - read_idx

is_full == count = capacity

is_empty == read_idx = write_idx

Init ==
    /\ capacity = InitCapacity
    /\ callbacks = [s \in 0 .. InitCapacity - 1 |-> NoCallback]
    /\ executed = [s \in 0 .. InitCapacity - 1 |-> FALSE]
    /\ read_idx = 0
    /\ write_idx = 0
    /\ handed = NoCallback

(* Mutated form of try_push: the executed flag of the slot is not cleared. *)
try_push_stale_flag(c) ==
    /\ ~is_full
    /\ callbacks' = [callbacks EXCEPT ![SlotOf(write_idx)] = c]
    /\ write_idx' = write_idx + 1
    /\ UNCHANGED <<executed, capacity, read_idx, handed>>

(***************************************************************************)
(* try_push on a ring with room.  A full ring is left alone.               *)
(***************************************************************************)
try_push(c) ==
    /\ ~is_full
    /\ callbacks' = [callbacks EXCEPT ![SlotOf(write_idx)] = c]
    /\ executed' = [executed EXCEPT ![SlotOf(write_idx)] = FALSE]
    /\ write_idx' = write_idx + 1
    /\ UNCHANGED <<capacity, read_idx, handed>>

(***************************************************************************)
(* The slots of the ring after `grow': the pending callbacks are moved to  *)
(* the front, oldest first, with their executed flags.                     *)
(***************************************************************************)
GrownCallbacksNoUnwrap ==   \* mutated form: slots copied in place
    [s \in 0 .. 2 * capacity - 1 |->
        IF s < count THEN callbacks[s] ELSE NoCallback]

GrownCallbacks ==
    [s \in 0 .. 2 * capacity - 1 |->
        IF s < count THEN callbacks[SlotOf(read_idx + s)] ELSE NoCallback]

GrownExecuted ==
    [s \in 0 .. 2 * capacity - 1 |->
        IF s < count THEN executed[SlotOf(read_idx + s)] ELSE FALSE]

(***************************************************************************)
(* push_or_grow on a full ring: grow, then the second try_push, which      *)
(* finds room at index `count'.  When the allocation fails nothing         *)
(* changes and the caller gets the error.                                  *)
(***************************************************************************)
push_or_grow(c) ==
    /\ is_full
    /\ 2 * capacity <= MaxCapacity
    /\ callbacks' = [GrownCallbacks EXCEPT ![count] = c]
    /\ executed' = [GrownExecuted EXCEPT ![count] = FALSE]
    /\ capacity' = 2 * capacity
    /\ read_idx' = 0
    /\ write_idx' = count + 1
    /\ UNCHANGED handed

(***************************************************************************)
(* next + consume, as execute_dynamic_ring_buffer and                      *)
(* release_dynamic_ring_buffer call them: the callback is copied out and   *)
(* its slot is marked consumed BEFORE the callback runs.                   *)
(***************************************************************************)
consume ==
    /\ ~is_empty
    /\ handed' = callbacks[SlotOf(read_idx)]
    /\ executed' = [executed EXCEPT ![SlotOf(read_idx)] = TRUE]
    /\ read_idx' = read_idx + 1
    /\ UNCHANGED <<callbacks, capacity, write_idx>>

(***************************************************************************)
(* reset, which Runner.call_once calls after a tick that executed no       *)
(* callback: the ring was empty when the tick began, and the ring being    *)
(* executed is never the one producers push to.                            *)
(***************************************************************************)
reset ==
    /\ is_empty
    /\ executed' = [s \in Slots |-> FALSE]
    /\ read_idx' = 0
    /\ write_idx' = 0
    /\ UNCHANGED <<callbacks, capacity, handed>>

Next ==
    \/ \E c \in Callbacks : write_idx < MaxIndex /\ try_push(c)
    \/ \E c \in Callbacks : push_or_grow(c)
    \/ consume
    \/ reset

Spec == Init /\ [][Next]_vars

-----------------------------------------------------------------------------
(***************************************************************************)
(* Properties.                                                             *)
(***************************************************************************)

(* Type invariant: the two slot arrays always have exactly `capacity'      *)
(* entries and the window read_idx..write_idx never exceeds it, so         *)
(* `write_idx - read_idx' (a usize subtraction in is_full and count) never *)
(* underflows.                                                             *)
TypeOK ==
    /\ capacity \in Nat \ {0}
    /\ callbacks \in [Slots -> Callbacks \cup {NoCallback}]
    /\ executed \in [Slots -> BOOLEAN]
    /\ read_idx \in Nat
    /\ write_idx \in Nat
    /\ read_idx <= write_idx
    /\ write_idx - read_idx <= capacity
    /\ handed \in Callbacks \cup {NoCallback}

(* The garbage collector's view: `traverse' walks read_idx..write_idx and  *)
(* skips slots flagged executed.  A pending callback whose slot still      *)
(* carries the flag of an earlier round would be invisible to it, and its  *)
(* Python objects could be cleared while queued.  So no pending slot is    *)
(* flagged, across wrap-around, grow and reset.                            *)
TraverseSeesEveryPending ==
    \A i \in read_idx .. write_idx - 1 : ~executed[SlotOf(i)]

(* A pending slot holds a pushed callback, never the uninitialised memory  *)
(* of a fresh allocation.                                                  *)
PendingSlotsWritten ==
    \A i \in read_idx .. write_idx - 1 : callbacks[SlotOf(i)] \in Callbacks

(* The pending callbacks, oldest first. *)
Pending == [k \in 1 .. count |-> callbacks[SlotOf(read_idx + (k - 1))]]

(* The ring implements the abstract queue: what execution hands out is     *)
(* what was pushed, in order, once, through every wrap and every grow.     *)
F == INSTANCE Fifo WITH queue <- Pending

ImplementsFifo == F!Spec
=============================================================================
