--------------------------- MODULE ReadyRingProofs ---------------------------
(***************************************************************************)
(* Proofs about ReadyRing, for every initial capacity: its safety          *)
(* invariants and that it implements Fifo.                                 *)
(***************************************************************************)
EXTENDS ReadyRing, TLAPS

(* A remainder is a slot number: `idx & (capacity - 1)' never leaves the   *)
(* slot arrays.                                                            *)
LEMMA ModRange ==
    ASSUME NEW c \in Nat \ {0}, NEW i \in Nat
    PROVE  i % c \in 0 .. c - 1
  OBVIOUS

(* Division with remainder.                                                *)
LEMMA DivMod ==
    ASSUME NEW c \in Nat \ {0}, NEW i \in Nat
    PROVE  /\ i = c * (i \div c) + (i % c)
           /\ i \div c \in Nat
  OBVIOUS

(* The only multiple of c below c is zero.                                 *)
LEMMA SmallMultiple ==
    ASSUME NEW c \in Nat \ {0}, NEW k \in Int, NEW d \in Nat, d = c * k, d < c
    PROVE  d = 0
  OBVIOUS

(* Two indices less than c apart fall into different slots of a ring of c  *)
(* slots: a window no wider than the ring never overlaps itself.           *)
LEMMA ModDistinct ==
    ASSUME NEW c \in Nat \ {0}, NEW i \in Nat, NEW j \in Nat, i < j, j - i < c
    PROVE  i % c # j % c
<1> SUFFICES ASSUME i % c = j % c PROVE FALSE
    OBVIOUS
<1>1. /\ i = c * (i \div c) + (i % c)
      /\ i \div c \in Nat
    BY DivMod
<1>2. /\ j = c * (j \div c) + (j % c)
      /\ j \div c \in Nat
    BY DivMod
<1> DEFINE k == (j \div c) - (i \div c)
<1>3. k \in Int /\ j - i \in Nat /\ j - i = c * k
    BY <1>1, <1>2
<1> HIDE DEF k
<1>4. j - i = 0
    BY <1>3, SmallMultiple
<1> QED
    BY <1>4

(* An index below the capacity is its own slot, which is what `grow'       *)
(* relies on when it renumbers the pending callbacks from 0.               *)
LEMMA ModSmall ==
    ASSUME NEW c \in Nat \ {0}, NEW i \in 0 .. c - 1
    PROVE  i % c = i
  OBVIOUS

(* The inductive invariant. TypeOK alone is inductive only together with   *)
(* the bound on the window; the two other conjuncts need TypeOK to know    *)
(* that no two pending indices share a slot.                               *)
IInv ==
    /\ TypeOK
    /\ TraverseSeesEveryPending
    /\ PendingSlotsWritten

(* A ring fresh from `init' satisfies the inductive invariant.             *)
LEMMA InitIInv == Init => IInv
  BY RingAssumption DEF Init, IInv, TypeOK, TraverseSeesEveryPending, PendingSlotsWritten, Slots

(* Every index has a slot.                                                 *)
LEMMA SlotInSlots ==
    ASSUME TypeOK, NEW i \in Nat
    PROVE  SlotOf(i) \in Slots
  BY ModRange DEF TypeOK, SlotOf, Slots

(* Distinct indices of one window have distinct slots.                     *)
LEMMA SlotsDistinct ==
    ASSUME TypeOK, NEW i \in Nat, NEW j \in Nat, i < j, j - i < capacity
    PROVE  SlotOf(i) # SlotOf(j)
  BY ModDistinct DEF TypeOK, SlotOf

(* try_push writes the one slot outside the window, so it disturbs no      *)
(* pending callback and no pending flag.                                   *)
LEMMA TryPushIInv ==
    ASSUME IInv, NEW c \in Callbacks, try_push(c)
    PROVE  IInv'
<1> USE DEF IInv
<1>1. SlotOf(write_idx) \in Slots
    BY SlotInSlots DEF TypeOK
<1>2. write_idx - read_idx < capacity
    BY DEF TypeOK, try_push, is_full, count
<1>3. TypeOK'
    BY <1>1, <1>2 DEF TypeOK, try_push, Slots
<1>4. ASSUME NEW i \in read_idx .. write_idx - 1
      PROVE  SlotOf(i) # SlotOf(write_idx) /\ SlotOf(i) \in Slots
  <2>1. i \in Nat /\ write_idx \in Nat /\ i < write_idx /\ write_idx - i < capacity + 1
      BY <1>2 DEF TypeOK
  <2>2. write_idx - i < capacity
      BY <1>2 DEF TypeOK
  <2> QED
      BY <2>1, <2>2, SlotsDistinct, SlotInSlots
<1>5. \A i : SlotOf(i)' = SlotOf(i)
    BY DEF try_push, SlotOf
<1>6. ASSUME NEW i \in (read_idx .. write_idx - 1)'
      PROVE  ~executed'[SlotOf(i)] /\ callbacks'[SlotOf(i)] \in Callbacks
  <2>1. CASE i = write_idx
      BY <1>1, <2>1 DEF TypeOK, try_push
  <2>2. CASE i # write_idx
    <3>1. i \in read_idx .. write_idx - 1
        BY <2>2 DEF TypeOK, try_push
    <3>2. /\ executed'[SlotOf(i)] = executed[SlotOf(i)]
          /\ callbacks'[SlotOf(i)] = callbacks[SlotOf(i)]
        BY <1>4, <3>1 DEF TypeOK, try_push
    <3> QED
        BY <3>1, <3>2 DEF TraverseSeesEveryPending, PendingSlotsWritten
  <2> QED
      BY <2>1, <2>2
<1>7. TraverseSeesEveryPending' /\ PendingSlotsWritten'
    BY <1>5, <1>6 DEF TraverseSeesEveryPending, PendingSlotsWritten
<1> QED
    BY <1>3, <1>7

(* grow moves the whole window, which is then flag-free and fully written, *)
(* and the push that follows lands right behind it.                        *)
LEMMA GrowIInv ==
    ASSUME IInv, NEW c \in Callbacks, push_or_grow(c)
    PROVE  IInv'
<1> USE DEF IInv
<1>1. count = capacity /\ count \in Nat
    BY DEF TypeOK, push_or_grow, is_full, count
<1>2. ASSUME NEW s \in 0 .. count - 1
      PROVE  /\ read_idx + s \in read_idx .. write_idx - 1
             /\ SlotOf(read_idx + s) \in Slots
  <2>1. read_idx + s \in read_idx .. write_idx - 1 /\ read_idx + s \in Nat
      BY <1>1 DEF TypeOK, count
  <2> QED
      BY <2>1, SlotInSlots
<1>3. ASSUME NEW s \in 0 .. count - 1
      PROVE  /\ ~executed[SlotOf(read_idx + s)]
             /\ callbacks[SlotOf(read_idx + s)] \in Callbacks
    BY <1>2 DEF TraverseSeesEveryPending, PendingSlotsWritten
<1>4. GrownCallbacks \in [0 .. 2 * capacity - 1 -> Callbacks \cup {NoCallback}]
  <2> SUFFICES ASSUME NEW s \in 0 .. 2 * capacity - 1, s < count
               PROVE  callbacks[SlotOf(read_idx + s)] \in Callbacks
      BY DEF GrownCallbacks
  <2> QED
      BY <1>1, <1>3 DEF TypeOK
<1>5. GrownExecuted = [s \in 0 .. 2 * capacity - 1 |-> FALSE]
  <2>1. ASSUME NEW s \in 0 .. 2 * capacity - 1, s < count
        PROVE  executed[SlotOf(read_idx + s)] = FALSE
    <3>1. s \in 0 .. count - 1
        BY <1>1, <2>1 DEF TypeOK
    <3> QED
        BY <1>2, <1>3, <3>1 DEF TypeOK
  <2> QED
      BY <2>1 DEF GrownExecuted
<1>6. TypeOK'
  <2>1. Slots' = 0 .. 2 * capacity - 1 /\ count \in 0 .. 2 * capacity - 1
      BY <1>1 DEF TypeOK, push_or_grow, Slots
  <2>2. callbacks' \in [Slots' -> Callbacks \cup {NoCallback}]
      BY <1>4, <2>1 DEF push_or_grow
  <2>3. executed' \in [Slots' -> BOOLEAN]
      BY <1>5, <2>1 DEF push_or_grow
  <2>4. /\ capacity' \in Nat \ {0}
        /\ read_idx' = 0 /\ write_idx' \in Nat /\ write_idx' <= capacity'
        /\ handed' \in Callbacks \cup {NoCallback}
      BY <1>1 DEF TypeOK, push_or_grow
  <2>5. write_idx' - read_idx' <= capacity'
      BY <1>1 DEF TypeOK, push_or_grow
  <2>6. read_idx' \in Nat /\ read_idx' <= write_idx'
      BY <2>4
  <2> QED
      BY <2>2, <2>3, <2>4, <2>5, <2>6 DEF TypeOK
<1>7. ASSUME NEW i \in 0 .. count
      PROVE  SlotOf(i)' = i
  <2>1. i \in 0 .. 2 * capacity - 1 /\ 2 * capacity \in Nat \ {0}
      BY <1>1 DEF TypeOK
  <2> QED
      BY <2>1, ModSmall DEF SlotOf, push_or_grow
<1>8. (read_idx .. write_idx - 1)' = 0 .. count
    BY <1>1 DEF push_or_grow
<1>9. ASSUME NEW i \in 0 .. count
      PROVE  ~executed'[i] /\ callbacks'[i] \in Callbacks
  <2>1. i \in 0 .. 2 * capacity - 1
      BY <1>1 DEF TypeOK
  <2>2. CASE i = count
      BY <1>4, <1>5, <2>1, <2>2 DEF push_or_grow
  <2>3. CASE i # count
    <3>1. i \in 0 .. count - 1 /\ i < count
        BY <1>1, <2>3
    <3>2. callbacks'[i] = callbacks[SlotOf(read_idx + i)] /\ executed'[i] = FALSE
        BY <1>4, <1>5, <2>1, <2>3, <3>1 DEF push_or_grow, GrownCallbacks
    <3> QED
        BY <1>3, <3>1, <3>2
  <2> QED
      BY <2>2, <2>3
<1>10. TraverseSeesEveryPending' /\ PendingSlotsWritten'
    BY <1>7, <1>8, <1>9 DEF TraverseSeesEveryPending, PendingSlotsWritten
<1> QED
    BY <1>6, <1>10

(* consume flags exactly the slot that leaves the window.                  *)
LEMMA ConsumeIInv ==
    ASSUME IInv, consume
    PROVE  IInv'
<1> USE DEF IInv
<1>1. read_idx < write_idx
    BY DEF TypeOK, consume, is_empty
<1>2. SlotOf(read_idx) \in Slots
    BY SlotInSlots DEF TypeOK
<1>3. TypeOK'
    BY <1>1, <1>2 DEF TypeOK, consume, Slots
<1>4. ASSUME NEW i \in (read_idx .. write_idx - 1)'
      PROVE  ~executed'[SlotOf(i)] /\ callbacks'[SlotOf(i)] \in Callbacks
  <2>1. i \in read_idx .. write_idx - 1 /\ i \in Nat
      BY DEF TypeOK, consume
  <2>2. read_idx < i /\ i - read_idx < capacity /\ read_idx \in Nat
      BY DEF TypeOK, consume
  <2>3. SlotOf(read_idx) # SlotOf(i) /\ SlotOf(i) \in Slots
      BY <2>1, <2>2, SlotsDistinct, SlotInSlots
  <2>4. executed'[SlotOf(i)] = executed[SlotOf(i)] /\ callbacks' = callbacks
      BY <2>3 DEF TypeOK, consume
  <2> QED
      BY <2>1, <2>4 DEF TraverseSeesEveryPending, PendingSlotsWritten
<1>5. \A i : SlotOf(i)' = SlotOf(i)
    BY DEF consume, SlotOf
<1>6. TraverseSeesEveryPending' /\ PendingSlotsWritten'
    BY <1>4, <1>5 DEF TraverseSeesEveryPending, PendingSlotsWritten
<1> QED
    BY <1>3, <1>6

(* reset is called on an empty ring, where it can lose nothing.            *)
LEMMA ResetIInv ==
    ASSUME IInv, reset
    PROVE  IInv'
  BY DEF IInv, TypeOK, reset, Slots, TraverseSeesEveryPending, PendingSlotsWritten

(* Every step of the ring preserves the inductive invariant.               *)
LEMMA NextIInv ==
    ASSUME IInv, [Next]_vars
    PROVE  IInv'
<1>1. CASE \E c \in Callbacks : write_idx < MaxIndex /\ try_push(c)
    BY <1>1, TryPushIInv
<1>2. CASE \E c \in Callbacks : push_or_grow(c)
    BY <1>2, GrowIInv
<1>3. CASE consume
    BY <1>3, ConsumeIInv
<1>4. CASE reset
    BY <1>4, ResetIInv
<1>5. CASE UNCHANGED vars
    BY <1>5 DEF vars, IInv, TypeOK, Slots, TraverseSeesEveryPending, PendingSlotsWritten, SlotOf
<1> QED
    BY <1>1, <1>2, <1>3, <1>4, <1>5 DEF Next

(* Every reachable state of the ring, whatever its initial capacity,       *)
(* satisfies the inductive invariant.                                      *)
THEOREM RingInvariant == Spec => []IInv
<1>1. Init => IInv
    BY InitIInv
<1>2. IInv /\ [Next]_vars => IInv'
    BY NextIInv
<1> QED
    BY <1>1, <1>2, PTL DEF Spec

(* The ring of callback_manager.zig never corrupts its index window, never *)
(* hides a pending callback from `traverse' and never exposes an unwritten *)
(* slot.                                                                   *)
THEOREM RingSafety ==
    Spec => [](TypeOK /\ TraverseSeesEveryPending /\ PendingSlotsWritten)
<1>1. IInv => TypeOK /\ TraverseSeesEveryPending /\ PendingSlotsWritten
    BY DEF IInv
<1> QED
    BY <1>1, RingInvariant, PTL

-----------------------------------------------------------------------------

(* The window of the ring, read oldest first, is a sequence of callbacks.  *)
LEMMA PendingIsSeq ==
    ASSUME IInv
    PROVE  /\ Pending \in Seq(Callbacks)
           /\ Len(Pending) = count
           /\ count \in Nat
<1>1. count \in Nat
    BY DEF IInv, TypeOK, count
<1>2. ASSUME NEW k \in 1 .. count
      PROVE  callbacks[SlotOf(read_idx + (k - 1))] \in Callbacks
  <2>1. read_idx + (k - 1) \in read_idx .. write_idx - 1
      BY <1>1 DEF IInv, TypeOK, count
  <2> QED
      BY <2>1 DEF IInv, PendingSlotsWritten
<1> QED
    BY <1>1, <1>2 DEF Pending

(* A fresh ring stands for the empty queue.                                *)
LEMMA InitImplementsFifo == Init => F!Init
  BY DEF Init, F!Init, Pending, count

(* A sequence one longer that agrees on the old positions is an Append.    *)
LEMMA AppendedSeq ==
    ASSUME NEW S, NEW q \in Seq(S), NEW r \in Seq(S), NEW c \in S,
           Len(r) = Len(q) + 1,
           \A k \in 1 .. Len(q) : r[k] = q[k],
           r[Len(q) + 1] = c
    PROVE  r = Append(q, c)
  OBVIOUS

(* A sequence one shorter and shifted by one is the Tail.                  *)
LEMMA TailedSeq ==
    ASSUME NEW S, NEW q \in Seq(S), NEW r \in Seq(S), q # <<>>,
           Len(r) = Len(q) - 1,
           \A k \in 1 .. Len(r) : r[k] = q[k + 1]
    PROVE  r = Tail(q)
  OBVIOUS

(* try_push appends to the abstract queue.                                 *)
LEMMA TryPushRefines ==
    ASSUME IInv, IInv', NEW c \in Callbacks, try_push(c)
    PROVE  F!Push(c)
<1>1. count' = count + 1
    BY DEF IInv, TypeOK, try_push, count
<1>2. SlotOf(write_idx) \in Slots
    BY SlotInSlots DEF IInv, TypeOK
<1>3. ASSUME NEW k \in 1 .. count
      PROVE  Pending'[k] = Pending[k]
  <2>1. count \in Nat /\ read_idx + (k - 1) \in Nat /\ write_idx \in Nat
        /\ read_idx + (k - 1) < write_idx
        /\ write_idx - (read_idx + (k - 1)) < capacity
      BY DEF IInv, TypeOK, count, try_push, is_full
  <2>2. SlotOf(read_idx + (k - 1)) # SlotOf(write_idx) /\ SlotOf(read_idx + (k - 1)) \in Slots
      BY <2>1, SlotsDistinct, SlotInSlots DEF IInv
  <2>3. callbacks'[SlotOf(read_idx + (k - 1))] = callbacks[SlotOf(read_idx + (k - 1))]
      BY <2>2 DEF IInv, TypeOK, try_push
  <2>4. SlotOf(read_idx + (k - 1))' = SlotOf(read_idx + (k - 1))
      BY DEF SlotOf, try_push
  <2>5. k \in 1 .. count'
      BY <1>1, <2>1
  <2> QED
      BY <2>3, <2>4, <2>5 DEF Pending
<1>4. Pending'[count + 1] = c
  <2>0. count \in Nat
      BY DEF IInv, TypeOK, count
  <2>1. count + 1 \in 1 .. count'
      BY <1>1, <2>0
  <2>2. read_idx + ((count + 1) - 1) = write_idx
      BY DEF IInv, TypeOK, count
  <2> QED
      BY <2>1, <2>2, <1>2 DEF Pending, try_push, SlotOf, IInv, TypeOK
<1>5. Pending' = Append(Pending, c)
  <2>1. (IInv => Pending \in Seq(Callbacks) /\ Len(Pending) = count)'
      BY PendingIsSeq, PTL
  <2> QED
      BY <1>1, <1>3, <1>4, <2>1, PendingIsSeq, AppendedSeq
<1> QED
    BY <1>5 DEF F!Push, try_push

(* grow and the push behind it append to the abstract queue: growing keeps *)
(* the order of the callbacks, also when the window wraps.                 *)
LEMMA GrowRefines ==
    ASSUME IInv, IInv', NEW c \in Callbacks, push_or_grow(c)
    PROVE  F!Push(c)
<1>1. count = capacity /\ count \in Nat /\ count' = count + 1
    BY DEF IInv, TypeOK, push_or_grow, is_full, count
<1>2. ASSUME NEW k \in 1 .. count + 1
      PROVE  Pending'[k] = callbacks'[k - 1]
  <2>1. k - 1 \in 0 .. 2 * capacity - 1 /\ 2 * capacity \in Nat \ {0}
      BY <1>1 DEF IInv, TypeOK
  <2>2. (k - 1) % (2 * capacity) = k - 1
      BY <2>1, ModSmall
  <2>3. read_idx' = 0 /\ capacity' = 2 * capacity /\ 0 + (k - 1) = k - 1
      BY <2>1 DEF push_or_grow
  <2>4. SlotOf(read_idx + (k - 1))' = k - 1
      BY <2>2, <2>3 DEF SlotOf
  <2> QED
      BY <1>1, <2>4 DEF Pending
<1>3. callbacks' = [GrownCallbacks EXCEPT ![count] = c]
    BY DEF push_or_grow
<1>4. ASSUME NEW k \in 1 .. count
      PROVE  Pending'[k] = Pending[k]
  <2>1. k - 1 \in 0 .. 2 * capacity - 1 /\ k - 1 # count /\ k - 1 < count /\ k \in 1 .. count + 1
      BY <1>1 DEF IInv, TypeOK
  <2>2. callbacks'[k - 1] = callbacks[SlotOf(read_idx + (k - 1))]
      BY <1>3, <2>1 DEF GrownCallbacks
  <2> QED
      BY <1>2, <2>1, <2>2 DEF Pending
<1>5. Pending'[count + 1] = c
  <2>1. count \in 0 .. 2 * capacity - 1 /\ count + 1 \in 1 .. count + 1 /\ (count + 1) - 1 = count
      BY <1>1 DEF IInv, TypeOK
  <2> QED
      BY <1>2, <1>3, <2>1 DEF GrownCallbacks
<1>6. Pending' = Append(Pending, c)
  <2>1. (IInv => Pending \in Seq(Callbacks) /\ Len(Pending) = count)'
      BY PendingIsSeq, PTL
  <2> QED
      BY <1>1, <1>4, <1>5, <2>1, PendingIsSeq, AppendedSeq
<1> QED
    BY <1>6 DEF F!Push, push_or_grow

(* consume hands out the head of the abstract queue.                       *)
LEMMA ConsumeRefines ==
    ASSUME IInv, IInv', consume
    PROVE  F!Pop
<1>1. count \in Nat \ {0} /\ count' = count - 1
    BY DEF IInv, TypeOK, consume, is_empty, count
<1>2. Pending \in Seq(Callbacks) /\ Len(Pending) = count
    BY PendingIsSeq
<1>3. Pending # <<>>
    BY <1>1, <1>2
<1>4. handed' = Head(Pending)
  <2>1. Pending[1] = callbacks[SlotOf(read_idx + (1 - 1))] /\ 1 - 1 = 0 /\ read_idx + 0 = read_idx
      BY <1>1 DEF Pending, IInv, TypeOK
  <2>2. Head(Pending) = Pending[1]
      BY <1>2, <1>3
  <2> QED
      BY <2>1, <2>2 DEF consume
<1>5. ASSUME NEW k \in 1 .. count'
      PROVE  Pending'[k] = Pending[k + 1]
  <2>1. k + 1 \in 1 .. count
      BY <1>1
  <2>2. read_idx' + (k - 1) = read_idx + ((k + 1) - 1)
      BY <1>1 DEF IInv, TypeOK, consume
  <2>3. SlotOf(read_idx + (k - 1))' = SlotOf(read_idx + ((k + 1) - 1))
      BY <2>2 DEF SlotOf, consume
  <2> QED
      BY <2>1, <2>3 DEF Pending, consume
<1>6. Pending' = Tail(Pending)
  <2>1. (IInv => Pending \in Seq(Callbacks) /\ Len(Pending) = count)'
      BY PendingIsSeq, PTL
  <2> QED
      BY <1>1, <1>2, <1>3, <1>5, <2>1, TailedSeq
<1> QED
    BY <1>3, <1>4, <1>6 DEF F!Pop

(* reset of an empty ring is a stuttering step of the queue.               *)
LEMMA ResetRefines ==
    ASSUME IInv, reset
    PROVE  UNCHANGED F!vars
<1>1. count = 0 /\ count' = 0
    BY DEF IInv, TypeOK, reset, is_empty, count
<1>2. Pending = [k \in 1 .. 0 |-> callbacks[SlotOf(read_idx + (k - 1))]]
    BY <1>1 DEF Pending
<1>3. Pending' = [k \in 1 .. 0 |-> callbacks'[SlotOf(read_idx + (k - 1))']]
    BY <1>1 DEF Pending
<1>4. Pending' = Pending
    BY <1>2, <1>3
<1> QED
    BY <1>4 DEF F!vars, reset

(* For every initial capacity and every bound, the ring implements the     *)
(* abstract FIFO queue: execute_dynamic_ring_buffer runs what was pushed,  *)
(* in order and once.                                                      *)
THEOREM RingImplementsFifo == Spec => ImplementsFifo
<1>1. Init => F!Init
    BY InitImplementsFifo
<1>2. IInv /\ IInv' /\ [Next]_vars => [F!Next]_F!vars
  <2> SUFFICES ASSUME IInv, IInv', [Next]_vars
               PROVE  [F!Next]_F!vars
      OBVIOUS
  <2>1. CASE \E c \in Callbacks : write_idx < MaxIndex /\ try_push(c)
      BY <2>1, TryPushRefines DEF F!Next
  <2>2. CASE \E c \in Callbacks : push_or_grow(c)
      BY <2>2, GrowRefines DEF F!Next
  <2>3. CASE consume
      BY <2>3, ConsumeRefines DEF F!Next
  <2>4. CASE reset
      BY <2>4, ResetRefines
  <2>5. CASE UNCHANGED vars
      BY <2>5 DEF vars, F!vars, Pending, count, SlotOf
  <2> QED
      BY <2>1, <2>2, <2>3, <2>4, <2>5 DEF Next
<1> QED
    BY <1>1, <1>2, RingInvariant, PTL DEF Spec, ImplementsFifo, F!Spec
=============================================================================
