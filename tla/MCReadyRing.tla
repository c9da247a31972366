---------------------------- MODULE MCReadyRing ----------------------------
(* ReadyRing on a ring of two slots that may grow twice (2, 4, 8), with    *)
(* enough pushes for every capacity to wrap around.  MaxCapacity is the    *)
(* largest power of two of a usize of Width bits, so that the ring meets   *)
(* the limit of the arithmetic in CeilPow2.                                *)
EXTENDS ReadyRing, CeilPow2

ASSUME LargestCapacity == MaxCapacity = 2^(Width - 1)

(* The mask of the code is the remainder that SlotOf takes, for every      *)
(* index of a usize and every capacity the ring grows to.                  *)
MaskIsRemainder ==
    \A idx \in Usize : mask(idx, capacity) = SlotOf(idx)

(* Rounding up: asking for v slots gives the ring's capacity exactly when  *)
(* it is the least power of two that holds v, and asking for more than any *)
(* power of two of a usize is refused (BUG-404: it used to wrap to zero).  *)
CapacityIsLeastPower ==
    \A v \in Usize \ {0} :
        /\ ceilPowerOfTwo(v) = capacity <=> v \in (capacity \div 2) + 1 .. capacity
        /\ ceilPowerOfTwo(v) = OutOfMemory <=> v > MaxCapacity

(* Doubling: grow asks for twice the capacity or fails, exactly where the  *)
(* ring cannot be indexed by a usize any more; it never wraps.             *)
GrowStopsAtTheLimit ==
    grow_capacity(capacity) = IF capacity < MaxCapacity THEN 2 * capacity ELSE OutOfMemory

(* The arithmetic of the code on machine words agrees with the arithmetic  *)
(* of ReadyRing on naturals, up to the largest capacity: masking, rounding *)
(* up and doubling (callback_manager.zig).                                 *)
CapacityArithmetic ==
    MaskIsRemainder /\ CapacityIsLeastPower /\ GrowStopsAtTheLimit
=============================================================================
