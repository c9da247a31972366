-------------------------------- MODULE Fifo --------------------------------
(***************************************************************************)
(* What a ready queue of the event loop promises: callbacks come out in    *)
(* the order in which they were pushed, each exactly once.  It says        *)
(* nothing of slots, indices or capacity; ReadyRing implements it.         *)
(***************************************************************************)
EXTENDS Sequences

CONSTANTS
    Callbacks,  \* the callbacks that can be scheduled
    NoCallback  \* "nothing was handed out yet"

VARIABLES
    queue,      \* the callbacks waiting to run, oldest first
    handed      \* the callback handed to the executor last

vars == <<queue, handed>>

Init ==
    /\ queue = <<>>
    /\ handed = NoCallback

Push(c) ==
    /\ queue' = Append(queue, c)
    /\ UNCHANGED handed

Pop ==
    /\ queue # <<>>
    /\ handed' = Head(queue)
    /\ queue' = Tail(queue)

Next ==
    \/ \E c \in Callbacks : Push(c)
    \/ Pop

Spec == Init /\ [][Next]_vars
=============================================================================
