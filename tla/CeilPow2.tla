------------------------------ MODULE CeilPow2 ------------------------------
(***************************************************************************)
(* The capacity arithmetic of DynamicRingBuffer, src/src/callback_manager. *)
(* zig: how a requested capacity is rounded up, how it doubles, and the    *)
(* mask that turns an index into a slot.  The code works on usize; here a  *)
(* usize has Width bits, and every width-dependent step is kept.           *)
(***************************************************************************)
EXTENDS Integers, Bitwise

CONSTANT Width  \* @bitSizeOf(usize), at most 16 here

ASSUME WidthAssumption == Width \in 2 .. 16

Usize == 0 .. 2^Width - 1

OutOfMemory == -1

ceilPowerOfTwo_unguarded(v) ==   \* mutated form: the BUG-404 guard is missing
    LET x1 == (v - 1) | ((v - 1) \div 2)
        x2 == x1 | (x1 \div 4)
        x4 == x2 | (x2 \div 16)
        x8 == x4 | (x4 \div 256)
    IN  IF v <= 1 THEN 1 ELSE (x8 + 1) % 2^Width

(***************************************************************************)
(* ceilPowerOfTwo: smear the highest bit of val - 1 to the right, add one. *)
(***************************************************************************)
ceilPowerOfTwo(v) ==
    LET x1 == (v - 1) | ((v - 1) \div 2)
        x2 == x1 | (x1 \div 4)
        x4 == x2 | (x2 \div 16)
        x8 == x4 | (x4 \div 256)
    IN  IF v <= 1 THEN 1
        ELSE IF v > 2^(Width - 1) THEN OutOfMemory
        ELSE (x8 + 1) % 2^Width

(* The capacity `grow' asks the allocator for. *)
grow_capacity(cap) ==
    IF cap > (2^Width - 1) \div 2 THEN OutOfMemory ELSE (cap * 2) % 2^Width

(* The slot of an index. *)
mask(idx, cap) == idx & (cap - 1)
=============================================================================
