---------------------------- MODULE RunnerProofs ----------------------------
(***************************************************************************)
(* Proofs about Runner, for any number of threads, callbacks, operations   *)
(* and faults, and any length of the buffers.                              *)
(***************************************************************************)
EXTENDS Runner, FiniteSetTheorems, SequenceTheorems, TLAPS

Requests == Ops \cup {Wake}
Sqes == Requests \cup {Expired, Removed}

(* Where the loop thread has flagged the ring as blocked, and where it     *)
(* executes callbacks or hooks.                                            *)
Parked == {"drain", "drain_more", "arm", "doze", "park", "disarm", "restore"}
Executes == {"check", "exec", "run", "rearm", "hooks"}

RunTypes ==
    /\ queues \in [0 .. 1 -> Seq(Callbacks)]
    /\ index \in 0 .. 1
    /\ batch \in Seq(Streams)
    /\ sq \in Seq(Sqes)
    /\ kernel \subseteq Requests
    /\ watchdogs \in Nat
    /\ cq \in Seq(Sqes)
    /\ buf \in Seq(Sqes)
    /\ handed \in Callbacks \cup {None}
    /\ pushing \in Threads \cup {Nobody}
    /\ eventfd \in BOOLEAN /\ ring_blocked \in BOOLEAN

(* The mutex, the flag, and the buffer of CQEs.                            *)
LockInv ==
    /\ ring_blocked <=> pc \in Parked
    /\ pushing # Nobody => mutex = pushing
    /\ pc \in {"top", "peek", "fetch"} => mutex = Loop
    /\ pc \notin {"drain_more", "disarm", "restore", "fetch"} => buf = <<>>

(* The queue that is not being filled is executed before the loop waits.   *)
EmptyInv ==
    (pc = "top" /\ wait) \/ pc \in Parked \/ pc = "hooks" => queues[1 - index] = <<>>

(* The eventfd read is somewhere, and in the kernel when the loop waits.   *)
(* What comes in after the look at the queue is announced.                 *)
WakeInv ==
    /\ \/ Wake \in Range(sq) \cup kernel \cup Range(cq) \cup Range(buf) \cup Queued \cup lost
       \/ pc = "rearm"
    /\ pc \in {"drain", "arm", "park"} => Wake \notin Range(queues[index])
    /\ pc = "park" => Wake \notin Range(sq)
    /\ pc \in {"drain", "arm", "park"} /\ pushing = Nobody /\ queues[index] # <<>> =>
        eventfd \/ cq # <<>>
    /\ pc = "park" /\ sq # <<>> => eventfd \/ cq # <<>>

(* An operation that is staged or in flight has no completion, and one     *)
(* that has a record in the batch waits in a ready queue.                  *)
BatchInv ==
    /\ flagged \ dropped \subseteq Range(batch)
    /\ pc \in Executes => batch = <<>>
    /\ Range(batch) \subseteq Queued
    /\ \A o \in Ops :
        /\ o \in Range(sq) => o \notin kernel
        /\ o \in Range(sq) \cup kernel => o \notin Range(cq) \cup Range(buf) \cup Queued

RunInv == RunTypes /\ LockInv /\ EmptyInv /\ WakeInv /\ BatchInv

-----------------------------------------------------------------------------
(* Sequences.                                                              *)

(* An element is appended.                                                 *)
LEMMA RangeAppend ==
    ASSUME NEW S, NEW q \in Seq(S), NEW x \in S
    PROVE  /\ Append(q, x) \in Seq(S)
           /\ Range(Append(q, x)) = Range(q) \cup {x}
           /\ Append(q, x) # <<>>
<1> DEFINE r == Append(q, x)
<1>1. /\ r \in Seq(S) /\ Len(r) = Len(q) + 1 /\ Len(q) \in Nat
      /\ r[Len(q) + 1] = x /\ \A i \in 1 .. Len(q) : r[i] = q[i]
      /\ DOMAIN r = 1 .. Len(r) /\ DOMAIN q = 1 .. Len(q)
  OBVIOUS
<1>2. r # <<>>
  BY <1>1
<1> HIDE DEF r
<1>3. /\ \A i \in 1 .. Len(r) : i \in 1 .. Len(q) \/ i = Len(q) + 1
      /\ Len(q) + 1 \in 1 .. Len(r) /\ \A i \in 1 .. Len(q) : i \in 1 .. Len(r)
  BY <1>1
<1>4. Range(r) = Range(q) \cup {x}
  BY <1>1, <1>3 DEF Range
<1> QED BY <1>1, <1>2, <1>4 DEF r

(* The first element is taken.                                             *)
LEMMA RangeTail ==
    ASSUME NEW S, NEW q \in Seq(S), q # <<>>
    PROVE  /\ Tail(q) \in Seq(S)
           /\ Head(q) \in S
           /\ Range(q) = {Head(q)} \cup Range(Tail(q))
<1> DEFINE r == Tail(q)
<1>1. /\ r \in Seq(S) /\ Len(r) = Len(q) - 1 /\ Len(q) \in Nat \ {0}
      /\ Head(q) = q[1] /\ Head(q) \in S
      /\ \A i \in 1 .. Len(r) : r[i] = q[i + 1]
      /\ DOMAIN r = 1 .. Len(r) /\ DOMAIN q = 1 .. Len(q)
  BY HeadTailProperties, EmptySeq
<1> HIDE DEF r
<1>2. /\ 1 \in 1 .. Len(q)
      /\ \A i \in 1 .. Len(r) : i + 1 \in 1 .. Len(q)
      /\ \A i \in 1 .. Len(q) : i # 1 => i - 1 \in 1 .. Len(r) /\ (i - 1) + 1 = i
  BY <1>1
<1>3. ASSUME NEW i \in 1 .. Len(q) PROVE q[i] \in {Head(q)} \cup Range(r)
  <2>1. CASE i = 1
    BY <1>1, <2>1
  <2>2. CASE i # 1
    <3>1. \A j \in 1 .. Len(r) : r[j] \in Range(r)
      BY <1>1 DEF Range
    <3>2. i - 1 \in 1 .. Len(r) /\ r[i - 1] = q[i]
      BY <1>1, <1>2, <2>2
    <3> QED BY <3>1, <3>2
  <2> QED BY <2>1, <2>2
<1>4. \A i \in 1 .. Len(r) : r[i] \in Range(q)
  BY <1>1, <1>2 DEF Range
<1>5. Range(q) = {Head(q)} \cup Range(r)
  <2>1. Range(q) \subseteq {Head(q)} \cup Range(r)
    BY <1>1, <1>3 DEF Range
  <2>2. Range(r) \subseteq Range(q)
    BY <1>1, <1>4 DEF Range
  <2>3. Head(q) \in Range(q)
    BY <1>1, <1>2 DEF Range
  <2> QED BY <2>1, <2>2, <2>3
<1>6. r \in Seq(S) /\ Head(q) \in S
  BY <1>1
<1> QED BY <1>5, <1>6, Zenon DEF r

(* The empty sequence.                                                     *)
LEMMA RangeEmpty == Range(<<>>) = {} /\ \A S : <<>> \in Seq(S)
BY DEF Range

(* A sequence with elements has a range.                                   *)
LEMMA RangeNonempty ==
    ASSUME NEW S, NEW q \in Seq(S), q # <<>>
    PROVE  Range(q) # {}
<1>1. Range(q) = {Head(q)} \cup Range(Tail(q))
  BY RangeTail
<1> QED BY <1>1

(* How often x is in q.                                                    *)
LEMMA CountNat ==
    ASSUME NEW S, NEW q \in Seq(S), NEW x
    PROVE  /\ Count(x, q) \in Nat
           /\ x \notin Range(q) <=> Count(x, q) = 0
<1> DEFINE I == {i \in DOMAIN q : q[i] = x}
<1>1. DOMAIN q = 1 .. Len(q) /\ Len(q) \in Nat
  OBVIOUS
<1>2. IsFiniteSet(DOMAIN q)
  BY <1>1, FS_Interval
<1>3. IsFiniteSet(I)
  BY <1>2, FS_Subset
<1>4. Cardinality(I) \in Nat /\ (Cardinality(I) = 0 <=> I = {})
  BY <1>3, FS_CardinalityType, FS_EmptySet
<1>5. x \notin Range(q) <=> I = {}
  BY DEF Range
<1> QED BY <1>4, <1>5 DEF Count

(* copy_cqes: what is in the ring is in the buffer or stays in the ring.   *)
LEMMA CopyMoves ==
    ASSUME RunTypes, Copy
    PROVE  /\ buf' \in Seq(Sqes) /\ cq' \in Seq(Sqes)
           /\ Range(cq) = Range(buf') \cup Range(cq')
           /\ cq = <<>> => buf' = <<>> /\ cq' = <<>>
<1> PICK n : n = Min(Len(cq), BufLen)
  OBVIOUS
<1>1. cq \in Seq(Sqes) /\ Len(cq) \in Nat /\ BufLen \in Nat \ {0}
  BY RunnerAssumption DEF RunTypes
<1>2. n \in 0 .. Len(cq)
  BY <1>1 DEF Min
<1>3. /\ buf' = SubSeq(cq, 1, n) /\ cq' = SubSeq(cq, n + 1, Len(cq))
  BY DEF Copy
<1>4. /\ buf' \in Seq(Sqes) /\ Len(buf') = n
      /\ \A i \in 1 .. n : buf'[i] = cq[i]
      /\ cq' \in Seq(Sqes) /\ Len(cq') = Len(cq) - n
      /\ \A i \in 1 .. Len(cq) - n : cq'[i] = cq[n + i]
  <2>1. /\ SubSeq(cq, 1, n) \in Seq(Sqes) /\ Len(SubSeq(cq, 1, n)) = n
        /\ \A i \in 1 .. n : SubSeq(cq, 1, n)[i] = cq[i]
    BY <1>1, <1>2
  <2>2. /\ SubSeq(cq, n + 1, Len(cq)) \in Seq(Sqes)
        /\ Len(SubSeq(cq, n + 1, Len(cq))) = Len(cq) - n
        /\ \A i \in 1 .. Len(cq) - n : SubSeq(cq, n + 1, Len(cq))[i] = cq[n + i]
    BY <1>1, <1>2
  <2> QED BY <1>3, <2>1, <2>2
<1>5. /\ DOMAIN cq = 1 .. Len(cq) /\ DOMAIN buf' = 1 .. n
      /\ DOMAIN cq' = 1 .. Len(cq) - n
  BY <1>1, <1>4
<1>6. /\ \A i \in 1 .. n : i \in 1 .. Len(cq)
      /\ \A i \in 1 .. Len(cq) - n : n + i \in 1 .. Len(cq)
      /\ \A i \in 1 .. Len(cq) : i \notin 1 .. n =>
            i - n \in 1 .. Len(cq) - n /\ n + (i - n) = i
  BY <1>1, <1>2
<1>7. ASSUME NEW i \in 1 .. Len(cq) PROVE cq[i] \in Range(buf') \cup Range(cq')
  <2>1. CASE i \in 1 .. n
    BY <1>4, <1>5, <2>1 DEF Range
  <2>2. CASE i \notin 1 .. n
    <3>1. i - n \in 1 .. Len(cq) - n /\ cq'[i - n] = cq[i]
      BY <1>4, <1>6, <2>2
    <3> QED BY <1>5, <3>1 DEF Range
  <2> QED BY <2>1, <2>2
<1>8. Range(buf') \subseteq Range(cq) /\ Range(cq') \subseteq Range(cq)
  BY <1>4, <1>5, <1>6 DEF Range
<1>9. Range(cq) = Range(buf') \cup Range(cq')
  BY <1>5, <1>7, <1>8 DEF Range
<1>10. cq = <<>> => buf' = <<>> /\ cq' = <<>>
  BY <1>1, <1>2, <1>4, EmptySeq
<1> QED BY <1>4, <1>9, <1>10

(* ring.submit: what is staged is in the kernel, but for the watchdogs.    *)
LEMMA SubmitMoves ==
    ASSUME RunTypes, NEW staged \in Seq(Sqes), Submit(staged)
    PROVE  /\ sq' = <<>>
           /\ kernel' = kernel \cup (Range(staged) \cap Requests)
           /\ watchdogs' \in Nat
           /\ cq' \in Seq(Sqes)
           /\ Range(cq) \subseteq Range(cq')
           /\ Range(cq') \subseteq Range(cq) \cup {Removed}
           /\ Removed \notin Range(staged) => cq' = cq
           /\ cq # <<>> => cq' # <<>>
<1> PICK removals, hits :
        removals = Count(Removed, staged) /\ hits = Min(watchdogs, removals)
  OBVIOUS
<1>1. /\ removals \in Nat /\ (Removed \notin Range(staged) => removals = 0)
      /\ Count(Expired, staged) \in Nat
  BY CountNat
<1>2. hits \in Nat /\ hits <= watchdogs /\ hits <= removals
  BY <1>1 DEF Min, RunTypes
<1> DEFINE more == [i \in 1 .. removals + hits |-> Removed]
<1>3. /\ sq' = <<>> /\ kernel' = kernel \cup Real(staged)
      /\ watchdogs' = watchdogs - hits + Count(Expired, staged)
      /\ cq' = cq \o more
  BY DEF Submit
<1>4. watchdogs' \in Nat
  <2> PICK k \in Nat : k = Count(Expired, staged)
    BY <1>1
  <2>1. watchdogs \in Nat
    BY DEF RunTypes
  <2>2. watchdogs' = watchdogs - hits + k
    BY <1>3
  <2>3. hits \in Nat /\ hits <= watchdogs
    BY <1>2
  <2> QED BY <2>1, <2>2, <2>3
<1>5. more \in Seq({Removed}) /\ Len(more) = removals + hits
  <2> PICK k \in Nat : k = removals + hits
    BY <1>1, <1>2
  <2>1. more \in [1 .. k -> {Removed}]
    OBVIOUS
  <2>2. more \in Seq({Removed})
    BY <2>1, SeqDef
  <2>3. DOMAIN more = 1 .. k
    OBVIOUS
  <2> QED BY <2>2, <2>3, LenProperties
<1>6. Range(more) \subseteq {Removed} /\ (removals = 0 => more = <<>>)
  <2>1. removals = 0 => removals + hits = 0
    BY <1>1, <1>2
  <2> QED BY <1>5, <2>1, EmptySeq DEF Range
<1> HIDE DEF more
<1>7. cq \in Seq(Sqes) /\ more \in Seq(Sqes)
  BY <1>5 DEF RunTypes, Sqes
<1>8. /\ cq' \in Seq(Sqes) /\ Range(cq') = Range(cq) \cup Range(more)
      /\ more = <<>> => cq' = cq
  BY <1>3, <1>7, RangeConcatenation, ConcatProperties, ConcatEmptySeq
<1>9. cq # <<>> => cq' # <<>>
  BY <1>7, <1>8, RangeNonempty, RangeEmpty
<1>10. Real(staged) = Range(staged) \cap Requests
  <2>1. Range(staged) \subseteq Sqes
    BY RangeOfSeq
  <2> QED BY <2>1, RunnerAssumption DEF Real, Sqes, Requests
<1> QED BY <1>1, <1>3, <1>4, <1>6, <1>8, <1>9, <1>10

(* A callback is pushed to the queue that producers fill.                  *)
LEMMA PushAdds ==
    ASSUME RunTypes, NEW c \in Callbacks,
           queues' = [queues EXCEPT ![index] = Append(@, c)], UNCHANGED index
    PROVE  /\ queues' \in [0 .. 1 -> Seq(Callbacks)]
           /\ queues'[index] # <<>>
           /\ Range(queues'[index]) = Range(queues[index]) \cup {c}
           /\ queues'[1 - index] = queues[1 - index]
           /\ Queued' = Queued \cup {c}
<1>1. /\ queues[index] \in Seq(Callbacks) /\ index \in {0, 1}
      /\ queues \in [0 .. 1 -> Seq(Callbacks)]
  BY DEF RunTypes
<1> PICK r : r = Append(queues[index], c)
  OBVIOUS
<1>2. /\ r \in Seq(Callbacks) /\ r # <<>>
      /\ Range(r) = Range(queues[index]) \cup {c}
  BY <1>1, RangeAppend
<1>3. queues' = [queues EXCEPT ![index] = r]
  OBVIOUS
<1>4. /\ queues' \in [0 .. 1 -> Seq(Callbacks)]
      /\ queues'[index] = r /\ queues'[1 - index] = queues[1 - index]
  BY <1>1, <1>2, <1>3
<1>5. /\ Queued = Range(queues[index]) \cup Range(queues[1 - index])
      /\ Queued' = Range(queues'[index]) \cup Range(queues'[1 - index])
  BY <1>1 DEF Queued
<1> QED BY <1>2, <1>4, <1>5

(* A callback is taken from the queue that is executed.                    *)
LEMMA ConsumeTakes ==
    ASSUME RunTypes, queues[1 - index] # <<>>,
           queues' = [queues EXCEPT ![1 - index] = Tail(@)], UNCHANGED index
    PROVE  /\ queues' \in [0 .. 1 -> Seq(Callbacks)]
           /\ Head(queues[1 - index]) \in Callbacks
           /\ queues'[index] = queues[index]
           /\ Queued = Queued' \cup {Head(queues[1 - index])}
<1>1. /\ queues[1 - index] \in Seq(Callbacks) /\ index \in {0, 1}
      /\ queues \in [0 .. 1 -> Seq(Callbacks)]
  BY DEF RunTypes
<1> PICK r : r = Tail(queues[1 - index])
  OBVIOUS
<1>2. /\ r \in Seq(Callbacks) /\ Head(queues[1 - index]) \in Callbacks
      /\ Range(queues[1 - index]) = {Head(queues[1 - index])} \cup Range(r)
  BY <1>1, RangeTail
<1>3. queues' = [queues EXCEPT ![1 - index] = r]
  OBVIOUS
<1>4. /\ queues' \in [0 .. 1 -> Seq(Callbacks)]
      /\ queues'[1 - index] = r /\ queues'[index] = queues[index]
  BY <1>1, <1>2, <1>3
<1>5. /\ Queued = Range(queues[index]) \cup Range(queues[1 - index])
      /\ Queued' = Range(queues'[index]) \cup Range(queues'[1 - index])
  BY <1>1 DEF Queued
<1> QED BY <1>2, <1>4, <1>5

-----------------------------------------------------------------------------
(* The steps that move no completion and no callback.                      *)

(* The ways in and out of start, and the steps between two callbacks.      *)
LEMMA PlainSteps ==
    ASSUME RunInv,
           \/ start \/ leave \/ poll_park \/ drain_error \/ restore \/ fetch_error
           \/ flip \/ delivered \/ check_hooks \/ returned \/ interrupted
           \/ call_once \/ end_tick \/ loop_stop \/ dispatch_wake
           \/ \E b \in BOOLEAN : set_idle_hooks(b)
    PROVE  RunInv'
<1> RunTypes /\ LockInv /\ EmptyInv /\ WakeInv /\ BatchInv
  BY DEF RunInv
<1>1. ASSUME start PROVE RunInv'
  <2>1. RunTypes'
    BY <1>1, RunnerAssumption DEF start, RunTypes, pyvars, iovars
  <2>2. LockInv' /\ EmptyInv'
    BY <1>1, RunnerAssumption
    DEF start, LockInv, EmptyInv, Parked, RunTypes, pyvars, iovars
  <2>3. WakeInv'
    BY <1>1, RunnerAssumption, RangeEmpty
    DEF start, WakeInv, LockInv, EmptyInv, Parked, Queued, RunTypes,
        pyvars, iovars
  <2>4. BatchInv'
    BY <1>1, RunnerAssumption, RangeEmpty
    DEF start, BatchInv, LockInv, Executes, Queued, RunTypes,
        pyvars, iovars
  <2> QED BY <2>1, <2>2, <2>3, <2>4 DEF RunInv
<1>2. ASSUME leave PROVE RunInv'
  <2>1. RunTypes'
    BY <1>2, RunnerAssumption DEF leave, Exit, RunTypes, pyvars, iovars
  <2>2. LockInv' /\ EmptyInv'
    BY <1>2, RunnerAssumption
    DEF leave, Exit, LockInv, EmptyInv, Parked, RunTypes, pyvars, iovars
  <2>3. WakeInv'
    BY <1>2, RunnerAssumption, RangeEmpty
    DEF leave, Exit, WakeInv, LockInv, EmptyInv, Parked, Queued, RunTypes,
        pyvars, iovars
  <2>4. BatchInv'
    BY <1>2, RunnerAssumption, RangeEmpty
    DEF leave, Exit, BatchInv, LockInv, Executes, Queued, RunTypes,
        pyvars, iovars
  <2> QED BY <2>1, <2>2, <2>3, <2>4 DEF RunInv
<1>3. ASSUME poll_park PROVE RunInv'
  <2>1. RunTypes'
    BY <1>3, RunnerAssumption DEF poll_park, MayPark, RunTypes, pyvars, iovars
  <2>2. LockInv' /\ EmptyInv'
    BY <1>3, RunnerAssumption
    DEF poll_park, MayPark, LockInv, EmptyInv, Parked, RunTypes, pyvars, iovars
  <2>3. WakeInv'
    BY <1>3, RunnerAssumption, RangeEmpty
    DEF poll_park, MayPark, WakeInv, LockInv, EmptyInv, Parked, Queued, RunTypes,
        pyvars, iovars
  <2>4. BatchInv'
    BY <1>3, RunnerAssumption, RangeEmpty
    DEF poll_park, MayPark, BatchInv, LockInv, Executes, Queued, RunTypes,
        pyvars, iovars
  <2> QED BY <2>1, <2>2, <2>3, <2>4 DEF RunInv
<1>4. ASSUME drain_error PROVE RunInv'
  <2>1. RunTypes'
    BY <1>4, RunnerAssumption DEF drain_error, RunTypes, pyvars, iovars
  <2>2. LockInv' /\ EmptyInv'
    BY <1>4, RunnerAssumption
    DEF drain_error, LockInv, EmptyInv, Parked, RunTypes, pyvars, iovars
  <2>3. WakeInv'
    BY <1>4, RunnerAssumption, RangeEmpty
    DEF drain_error, WakeInv, LockInv, EmptyInv, Parked, Queued, RunTypes,
        pyvars, iovars
  <2>4. BatchInv'
    BY <1>4, RunnerAssumption, RangeEmpty
    DEF drain_error, BatchInv, LockInv, Executes, Queued, RunTypes,
        pyvars, iovars
  <2> QED BY <2>1, <2>2, <2>3, <2>4 DEF RunInv
<1>5. ASSUME restore PROVE RunInv'
  <2>1. RunTypes'
    <3>1. /\ buf' \in {buf, <<>>} /\ ring_blocked' = FALSE
          /\ UNCHANGED <<pyvars, iovars, pushing>>
      BY <1>5 DEF restore, Exit, pyvars
    <3> QED BY <3>1, RangeEmpty DEF RunTypes, pyvars, iovars
  <2>2. LockInv' /\ EmptyInv'
    BY <1>5, RunnerAssumption
    DEF restore, Exit, Real, LockInv, EmptyInv, Parked, RunTypes, pyvars, iovars
  <2>3. WakeInv'
    BY <1>5, RunnerAssumption, RangeEmpty
    DEF restore, Exit, Real, WakeInv, LockInv, EmptyInv, Parked, Queued, RunTypes,
        pyvars, iovars
  <2>4. BatchInv'
    BY <1>5, RunnerAssumption, RangeEmpty
    DEF restore, Exit, Real, BatchInv, LockInv, Executes, Queued, RunTypes,
        pyvars, iovars
  <2> QED BY <2>1, <2>2, <2>3, <2>4 DEF RunInv
<1>6. ASSUME fetch_error PROVE RunInv'
  <2>1. RunTypes'
    BY <1>6, RunnerAssumption DEF fetch_error, Exit, Real, RunTypes, pyvars, iovars
  <2>2. LockInv' /\ EmptyInv'
    BY <1>6, RunnerAssumption
    DEF fetch_error, Exit, Real, LockInv, EmptyInv, Parked, RunTypes, pyvars, iovars
  <2>3. WakeInv'
    BY <1>6, RunnerAssumption, RangeEmpty
    DEF fetch_error, Exit, Real, WakeInv, LockInv, EmptyInv, Parked, Queued, RunTypes,
        pyvars, iovars
  <2>4. BatchInv'
    BY <1>6, RunnerAssumption, RangeEmpty
    DEF fetch_error, Exit, Real, BatchInv, LockInv, Executes, Queued, RunTypes,
        pyvars, iovars
  <2> QED BY <2>1, <2>2, <2>3, <2>4 DEF RunInv
<1>7. ASSUME flip PROVE RunInv'
  <2>1. RunTypes'
    BY <1>7, RunnerAssumption DEF flip, RunTypes, pyvars, iovars
  <2>2. LockInv' /\ EmptyInv'
    BY <1>7, RunnerAssumption
    DEF flip, LockInv, EmptyInv, Parked, RunTypes, pyvars, iovars
  <2>3. WakeInv'
    BY <1>7, RunnerAssumption, RangeEmpty
    DEF flip, WakeInv, LockInv, EmptyInv, Parked, Queued, RunTypes,
        pyvars, iovars
  <2>4. BatchInv'
    BY <1>7, RunnerAssumption, RangeEmpty
    DEF flip, BatchInv, LockInv, Executes, Queued, RunTypes,
        pyvars, iovars
  <2> QED BY <2>1, <2>2, <2>3, <2>4 DEF RunInv
<1>8. ASSUME delivered PROVE RunInv'
  <2>1. RunTypes'
    BY <1>8, RunnerAssumption DEF delivered, RunTypes, pyvars, iovars
  <2>2. LockInv' /\ EmptyInv'
    BY <1>8, RunnerAssumption
    DEF delivered, LockInv, EmptyInv, Parked, RunTypes, pyvars, iovars
  <2>3. WakeInv'
    BY <1>8, RunnerAssumption, RangeEmpty
    DEF delivered, WakeInv, LockInv, EmptyInv, Parked, Queued, RunTypes,
        pyvars, iovars
  <2>4. BatchInv'
    BY <1>8, RunnerAssumption, RangeEmpty
    DEF delivered, BatchInv, LockInv, Executes, Queued, RunTypes,
        pyvars, iovars
  <2> QED BY <2>1, <2>2, <2>3, <2>4 DEF RunInv
<1>9. ASSUME check_hooks PROVE RunInv'
  <2>1. RunTypes'
    BY <1>9, RunnerAssumption DEF check_hooks, RunTypes, pyvars, iovars
  <2>2. LockInv' /\ EmptyInv'
    BY <1>9, RunnerAssumption
    DEF check_hooks, LockInv, EmptyInv, Parked, RunTypes, pyvars, iovars
  <2>3. WakeInv'
    BY <1>9, RunnerAssumption, RangeEmpty
    DEF check_hooks, WakeInv, LockInv, EmptyInv, Parked, Queued, RunTypes,
        pyvars, iovars
  <2>4. BatchInv'
    BY <1>9, RunnerAssumption, RangeEmpty
    DEF check_hooks, BatchInv, LockInv, Executes, Queued, RunTypes,
        pyvars, iovars
  <2> QED BY <2>1, <2>2, <2>3, <2>4 DEF RunInv
<1>10. ASSUME returned PROVE RunInv'
  <2>1. RunTypes'
    BY <1>10, RunnerAssumption DEF returned, RunTypes, pyvars, iovars
  <2>2. LockInv' /\ EmptyInv'
    BY <1>10, RunnerAssumption
    DEF returned, LockInv, EmptyInv, Parked, RunTypes, pyvars, iovars
  <2>3. WakeInv'
    BY <1>10, RunnerAssumption, RangeEmpty
    DEF returned, WakeInv, LockInv, EmptyInv, Parked, Queued, RunTypes,
        pyvars, iovars
  <2>4. BatchInv'
    BY <1>10, RunnerAssumption, RangeEmpty
    DEF returned, BatchInv, LockInv, Executes, Queued, RunTypes,
        pyvars, iovars
  <2> QED BY <2>1, <2>2, <2>3, <2>4 DEF RunInv
<1>11. ASSUME interrupted PROVE RunInv'
  <2>1. RunTypes'
    BY <1>11, RunnerAssumption DEF interrupted, Exit, RunTypes, pyvars, iovars
  <2>2. LockInv' /\ EmptyInv'
    BY <1>11, RunnerAssumption
    DEF interrupted, Exit, LockInv, EmptyInv, Parked, RunTypes, pyvars, iovars
  <2>3. WakeInv'
    BY <1>11, RunnerAssumption, RangeEmpty
    DEF interrupted, Exit, WakeInv, LockInv, EmptyInv, Parked, Queued, RunTypes,
        pyvars, iovars
  <2>4. BatchInv'
    BY <1>11, RunnerAssumption, RangeEmpty
    DEF interrupted, Exit, BatchInv, LockInv, Executes, Queued, RunTypes,
        pyvars, iovars
  <2> QED BY <2>1, <2>2, <2>3, <2>4 DEF RunInv
<1>12. ASSUME call_once PROVE RunInv'
  <2>1. RunTypes'
    BY <1>12, RunnerAssumption DEF call_once, Executing, RunTypes, pyvars, iovars
  <2>2. LockInv' /\ EmptyInv'
    BY <1>12, RunnerAssumption
    DEF call_once, Executing, LockInv, EmptyInv, Parked, RunTypes, pyvars, iovars
  <2>3. WakeInv'
    BY <1>12, RunnerAssumption, RangeEmpty
    DEF call_once, Executing, WakeInv, LockInv, EmptyInv, Parked, Queued, RunTypes,
        pyvars, iovars
  <2>4. BatchInv'
    BY <1>12, RunnerAssumption, RangeEmpty
    DEF call_once, Executing, BatchInv, LockInv, Executes, Queued, RunTypes,
        pyvars, iovars
  <2> QED BY <2>1, <2>2, <2>3, <2>4 DEF RunInv
<1>13. ASSUME end_tick PROVE RunInv'
  <2>1. RunTypes'
    BY <1>13, RunnerAssumption DEF end_tick, RunTypes, pyvars, iovars
  <2>2. LockInv' /\ EmptyInv'
    BY <1>13, RunnerAssumption
    DEF end_tick, LockInv, EmptyInv, Parked, RunTypes, pyvars, iovars
  <2>3. WakeInv'
    BY <1>13, RunnerAssumption, RangeEmpty
    DEF end_tick, WakeInv, LockInv, EmptyInv, Parked, Queued, RunTypes,
        pyvars, iovars
  <2>4. BatchInv'
    BY <1>13, RunnerAssumption, RangeEmpty
    DEF end_tick, BatchInv, LockInv, Executes, Queued, RunTypes,
        pyvars, iovars
  <2> QED BY <2>1, <2>2, <2>3, <2>4 DEF RunInv
<1>14. ASSUME loop_stop PROVE RunInv'
  <2>1. RunTypes'
    BY <1>14, RunnerAssumption DEF loop_stop, RunTypes, pyvars, iovars
  <2>2. LockInv' /\ EmptyInv'
    BY <1>14, RunnerAssumption
    DEF loop_stop, LockInv, EmptyInv, Parked, RunTypes, pyvars, iovars
  <2>3. WakeInv'
    BY <1>14, RunnerAssumption, RangeEmpty
    DEF loop_stop, WakeInv, LockInv, EmptyInv, Parked, Queued, RunTypes,
        pyvars, iovars
  <2>4. BatchInv'
    BY <1>14, RunnerAssumption, RangeEmpty
    DEF loop_stop, BatchInv, LockInv, Executes, Queued, RunTypes,
        pyvars, iovars
  <2> QED BY <2>1, <2>2, <2>3, <2>4 DEF RunInv
<1>15. ASSUME dispatch_wake PROVE RunInv'
  <2>1. RunTypes'
    BY <1>15, RunnerAssumption DEF dispatch_wake, RunTypes, pyvars, iovars
  <2>2. LockInv' /\ EmptyInv'
    BY <1>15, RunnerAssumption
    DEF dispatch_wake, LockInv, EmptyInv, Parked, RunTypes, pyvars, iovars
  <2>3. WakeInv'
    BY <1>15, RunnerAssumption, RangeEmpty
    DEF dispatch_wake, WakeInv, LockInv, EmptyInv, Parked, Queued, RunTypes,
        pyvars, iovars
  <2>4. BatchInv'
    BY <1>15, RunnerAssumption, RangeEmpty
    DEF dispatch_wake, BatchInv, LockInv, Executes, Queued, RunTypes,
        pyvars, iovars
  <2> QED BY <2>1, <2>2, <2>3, <2>4 DEF RunInv
<1>16. ASSUME NEW b \in BOOLEAN, set_idle_hooks(b) PROVE RunInv'
  <2>1. RunTypes'
    BY <1>16, RunnerAssumption DEF set_idle_hooks, RunTypes, pyvars, iovars
  <2>2. LockInv' /\ EmptyInv'
    BY <1>16, RunnerAssumption
    DEF set_idle_hooks, LockInv, EmptyInv, Parked, RunTypes, pyvars, iovars
  <2>3. WakeInv'
    BY <1>16, RunnerAssumption, RangeEmpty
    DEF set_idle_hooks, WakeInv, LockInv, EmptyInv, Parked, Queued, RunTypes,
        pyvars, iovars
  <2>4. BatchInv'
    BY <1>16, RunnerAssumption, RangeEmpty
    DEF set_idle_hooks, BatchInv, LockInv, Executes, Queued, RunTypes,
        pyvars, iovars
  <2> QED BY <2>1, <2>2, <2>3, <2>4 DEF RunInv
<1> QED BY <1>1, <1>2, <1>3, <1>4, <1>5, <1>6, <1>7, <1>8, <1>9, <1>10,
        <1>11, <1>12, <1>13, <1>14, <1>15, <1>16

-----------------------------------------------------------------------------
(* The steps that move completions.                                        *)

(* The copies of CQEs.                                                     *)
LEMMA CopySteps ==
    ASSUME RunInv,
           poll_peek \/ drain \/ drain_more \/ doze \/ unpark \/ fetch_more
    PROVE  RunInv'
<1> RunTypes /\ LockInv /\ EmptyInv /\ WakeInv /\ BatchInv
  BY DEF RunInv
<1>1. ASSUME Copy
      PROVE  /\ buf' \in Seq(Sqes) /\ cq' \in Seq(Sqes)
             /\ Range(cq) = Range(buf') \cup Range(cq')
             /\ cq = <<>> => buf' = <<>> /\ cq' = <<>>
  BY <1>1, CopyMoves
<1>2. ASSUME poll_peek PROVE RunInv'
  <2>1. RunTypes'
    BY <1>1, <1>2 DEF poll_peek, RunTypes, pyvars, iovars
  <2>2. LockInv' /\ EmptyInv'
    BY <1>1, <1>2 DEF poll_peek, LockInv, EmptyInv, Parked, pyvars, iovars
  <2>3. WakeInv'
    BY <1>1, <1>2, RunnerAssumption, RangeEmpty
    DEF poll_peek, WakeInv, LockInv, Real, Queued, pyvars, iovars
  <2>4. BatchInv'
    BY <1>1, <1>2, RangeEmpty
    DEF poll_peek, BatchInv, LockInv, Executes, Queued, pyvars, iovars
  <2> QED BY <2>1, <2>2, <2>3, <2>4 DEF RunInv
<1>3. ASSUME drain PROVE RunInv'
  <2>1. RunTypes'
    BY <1>1, <1>3 DEF drain, RunTypes, pyvars, iovars
  <2>2. LockInv' /\ EmptyInv'
    BY <1>1, <1>3 DEF drain, LockInv, EmptyInv, Parked, pyvars, iovars
  <2>3. WakeInv'
    BY <1>1, <1>3, RunnerAssumption, RangeEmpty
    DEF drain, WakeInv, LockInv, Real, Queued, pyvars, iovars
  <2>4. BatchInv'
    BY <1>1, <1>3, RangeEmpty
    DEF drain, BatchInv, LockInv, Executes, Queued, pyvars, iovars
  <2> QED BY <2>1, <2>2, <2>3, <2>4 DEF RunInv
<1>4. ASSUME drain_more PROVE RunInv'
  <2>1. RunTypes'
    BY <1>1, <1>4 DEF drain_more, RunTypes, pyvars, iovars
  <2>2. LockInv' /\ EmptyInv'
    BY <1>1, <1>4 DEF drain_more, LockInv, EmptyInv, Parked, pyvars, iovars
  <2>3. WakeInv'
    BY <1>1, <1>4, RunnerAssumption, RangeEmpty
    DEF drain_more, WakeInv, LockInv, Real, Queued, pyvars, iovars
  <2>4. BatchInv'
    BY <1>1, <1>4, RangeEmpty
    DEF drain_more, BatchInv, LockInv, Executes, Queued, pyvars, iovars
  <2> QED BY <2>1, <2>2, <2>3, <2>4 DEF RunInv
<1>5. ASSUME doze PROVE RunInv'
  <2>1. RunTypes'
    BY <1>1, <1>5 DEF doze, RunTypes, pyvars, iovars
  <2>2. LockInv' /\ EmptyInv'
    BY <1>1, <1>5 DEF doze, LockInv, EmptyInv, Parked, pyvars, iovars
  <2>3. WakeInv'
    BY <1>1, <1>5, RunnerAssumption, RangeEmpty
    DEF doze, WakeInv, LockInv, Real, Queued, pyvars, iovars
  <2>4. BatchInv'
    BY <1>1, <1>5, RangeEmpty
    DEF doze, BatchInv, LockInv, Executes, Queued, pyvars, iovars
  <2> QED BY <2>1, <2>2, <2>3, <2>4 DEF RunInv
<1>6. ASSUME unpark PROVE RunInv'
  <2>1. RunTypes'
    BY <1>1, <1>6 DEF unpark, RunTypes, pyvars, iovars
  <2>2. LockInv' /\ EmptyInv'
    BY <1>1, <1>6 DEF unpark, LockInv, EmptyInv, Parked, pyvars, iovars
  <2>3. WakeInv'
    BY <1>1, <1>6, RunnerAssumption, RangeEmpty
    DEF unpark, WakeInv, LockInv, Real, Queued, pyvars, iovars
  <2>4. BatchInv'
    BY <1>1, <1>6, RangeEmpty
    DEF unpark, BatchInv, LockInv, Executes, Queued, pyvars, iovars
  <2> QED BY <2>1, <2>2, <2>3, <2>4 DEF RunInv
<1>7. ASSUME fetch_more PROVE RunInv'
  <2>1. RunTypes'
    BY <1>1, <1>7 DEF fetch_more, RunTypes, pyvars, iovars
  <2>2. LockInv' /\ EmptyInv'
    BY <1>1, <1>7 DEF fetch_more, LockInv, EmptyInv, Parked, pyvars, iovars
  <2>3. WakeInv'
    BY <1>1, <1>7, RunnerAssumption, RangeEmpty
    DEF fetch_more, WakeInv, LockInv, Real, Queued, pyvars, iovars
  <2>4. BatchInv'
    BY <1>1, <1>7, RangeEmpty
    DEF fetch_more, BatchInv, LockInv, Executes, Queued, pyvars, iovars
  <2> QED BY <2>1, <2>2, <2>3, <2>4 DEF RunInv
<1> QED BY <1>2, <1>3, <1>4, <1>5, <1>6, <1>7

(* The submissions.                                                        *)
LEMMA SubmitSteps ==
    ASSUME RunInv, poll_flush \/ arm \/ disarm
    PROVE  RunInv'
<1> RunTypes /\ LockInv /\ EmptyInv /\ WakeInv /\ BatchInv
  BY DEF RunInv
<1>1. /\ sq \in Seq(Sqes) /\ Append(sq, Expired) \in Seq(Sqes)
      /\ Append(sq, Removed) \in Seq(Sqes)
      /\ Range(Append(sq, Expired)) = Range(sq) \cup {Expired}
      /\ Range(Append(sq, Removed)) = Range(sq) \cup {Removed}
  <2>1. sq \in Seq(Sqes) /\ Expired \in Sqes /\ Removed \in Sqes
    BY DEF RunTypes, Sqes
  <2> QED BY <2>1, RangeAppend
<1>2. /\ Ops \subseteq Requests /\ Wake \in Requests
      /\ Expired \notin Requests /\ Removed \notin Requests
  BY RunnerAssumption DEF Requests, Sqes
<1> DEFINE Submitted ==
        /\ sq' = <<>>
        /\ kernel' = kernel \cup (Range(sq) \cap Requests)
        /\ watchdogs' \in Nat /\ cq' \in Seq(Sqes)
        /\ Range(cq) \subseteq Range(cq')
        /\ Range(cq') \subseteq Range(cq) \cup {Removed}
        /\ cq # <<>> => cq' # <<>>
    Refused ==
        /\ sq' \in Seq(Sqes) /\ Range(sq) \subseteq Range(sq')
        /\ Range(sq') \subseteq Range(sq) \cup {Expired, Removed}
        /\ UNCHANGED <<kernel, watchdogs, cq>>
<1>3. ASSUME Submit(sq) \/ Submit(Append(sq, Expired)) \/ Submit(Append(sq, Removed))
      PROVE  Submitted
  BY <1>1, <1>2, <1>3, SubmitMoves
<1>4. ASSUME sq' = Append(sq, Expired) \/ sq' = Append(sq, Removed) \/ sq' = sq,
             UNCHANGED <<kernel, watchdogs, cq>>
      PROVE  Refused
  BY <1>1, <1>4
<1>5. /\ Submitted \/ Refused
      /\ UNCHANGED <<pyvars, eventfd, ring_blocked, wait, pushing, lost>>
      /\ pc = "arm" /\ pc' = "park" => Submitted
      /\ \/ /\ pc = "top" /\ pc' = "peek" /\ UNCHANGED <<mutex, buf>>
         \/ /\ pc = "top" /\ pc' = "off" /\ mutex' = Nobody /\ buf' = <<>>
         \/ /\ pc = "arm" /\ pc' \in {"park", "doze"} /\ UNCHANGED <<mutex, buf>>
         \/ /\ pc = "disarm" /\ pc' = "restore" /\ UNCHANGED <<mutex, buf>>
  <2>1. ASSUME poll_flush
        PROVE  /\ Submit(sq) \/ UNCHANGED <<sq, kernel, watchdogs, cq>>
               /\ UNCHANGED <<pyvars, eventfd, ring_blocked, wait, pushing, lost>>
               /\ pc = "top"
               /\ \/ pc' = "peek" /\ UNCHANGED <<mutex, buf>>
                  \/ pc' = "off" /\ mutex' = Nobody /\ buf' = <<>>
    BY <2>1 DEF poll_flush, Exit, pyvars
  <2>2. ASSUME arm
        PROVE  /\ \/ Submit(Append(sq, Expired)) \/ Submit(sq)
                  \/ sq' = Append(sq, Expired) /\ UNCHANGED <<kernel, watchdogs, cq>>
               /\ pc' = "park" => Submit(Append(sq, Expired)) \/ Submit(sq)
               /\ UNCHANGED <<pyvars, eventfd, ring_blocked, wait, pushing, lost>>
               /\ pc = "arm" /\ pc' \in {"park", "doze"} /\ UNCHANGED <<mutex, buf>>
    BY <2>2 DEF arm
  <2>3. ASSUME disarm
        PROVE  /\ \/ Submit(Append(sq, Removed))
                  \/ sq' = Append(sq, Removed) /\ UNCHANGED <<kernel, watchdogs, cq>>
               /\ UNCHANGED <<pyvars, eventfd, ring_blocked, wait, pushing, lost>>
               /\ pc = "disarm" /\ pc' = "restore" /\ UNCHANGED <<mutex, buf>>
    BY <2>3 DEF disarm
  <2> HIDE DEF Submitted, Refused
  <2>4. CASE poll_flush
    BY <1>3, <1>4, <2>1, <2>4
  <2>5. CASE arm
    BY <1>3, <1>4, <2>2, <2>5
  <2>6. CASE disarm
    BY <1>3, <1>4, <2>3, <2>6
  <2> QED BY <2>4, <2>5, <2>6
<1>6. RunTypes'
  BY <1>5, RangeEmpty DEF RunTypes, pyvars
<1>7. LockInv' /\ EmptyInv'
  BY <1>5, RunnerAssumption DEF LockInv, EmptyInv, Parked, RunTypes, pyvars
<1>8. WakeInv'
  BY <1>2, <1>5, RangeEmpty DEF WakeInv, LockInv, Queued, pyvars
<1>9. BatchInv'
  BY <1>2, <1>5, RangeEmpty DEF BatchInv, LockInv, Executes, Queued, pyvars
<1> QED BY <1>6, <1>7, <1>8, <1>9 DEF RunInv

(* The kernel completes an operation, the eventfd read or a watchdog.      *)
LEMMA KernelSteps ==
    ASSUME RunInv,
           (\E o \in Ops : KernelComplete(o)) \/ KernelWake \/ KernelExpire
    PROVE  RunInv'
<1> RunTypes /\ LockInv /\ EmptyInv /\ WakeInv /\ BatchInv
  BY DEF RunInv
<1>1. PICK e \in Sqes :
        /\ cq' = Append(cq, e)
        /\ kernel' = kernel \ {e}
        /\ e \in Requests => e \in kernel
        /\ eventfd' = eventfd \/ e = Wake
        /\ watchdogs' = watchdogs \/ (watchdogs > 0 /\ watchdogs' = watchdogs - 1)
        /\ eventfd' \in BOOLEAN
        /\ UNCHANGED <<pc, mutex, pyvars, ring_blocked, wait, sq, buf, pushing, lost>>
  <2>1. ASSUME NEW o \in Ops, KernelComplete(o)
        PROVE  /\ o \in Sqes /\ cq' = Append(cq, o) /\ kernel' = kernel \ {o}
               /\ o \in kernel /\ UNCHANGED <<eventfd, watchdogs>>
               /\ UNCHANGED <<pc, mutex, pyvars, ring_blocked, wait, sq, buf, pushing, lost>>
    BY <2>1 DEF KernelComplete, Sqes, Requests
  <2>2. ASSUME KernelWake
        PROVE  /\ Wake \in Sqes /\ cq' = Append(cq, Wake) /\ kernel' = kernel \ {Wake}
               /\ Wake \in kernel /\ eventfd' = FALSE /\ watchdogs' = watchdogs
               /\ UNCHANGED <<pc, mutex, pyvars, ring_blocked, wait, sq, buf, pushing, lost>>
    BY <2>2 DEF KernelWake, Sqes, Requests
  <2>3. ASSUME KernelExpire
        PROVE  /\ Expired \in Sqes /\ cq' = Append(cq, Expired)
               /\ kernel' = kernel \ {Expired}
               /\ Expired \notin Requests /\ eventfd' = eventfd
               /\ watchdogs > 0 /\ watchdogs' = watchdogs - 1
               /\ UNCHANGED <<pc, mutex, pyvars, ring_blocked, wait, sq, buf, pushing, lost>>
    BY <2>3, RunnerAssumption DEF KernelExpire, Sqes, Requests, RunTypes
  <2>4. eventfd \in BOOLEAN
    BY DEF RunTypes
  <2> QED BY <2>1, <2>2, <2>3, <2>4
<1>2. cq' \in Seq(Sqes) /\ Range(cq') = Range(cq) \cup {e} /\ cq' # <<>>
  BY <1>1, RangeAppend, SMTT(60) DEF RunTypes
<1>3. RunTypes'
  BY <1>1, <1>2 DEF RunTypes, pyvars
<1>4. LockInv' /\ EmptyInv'
  BY <1>1 DEF LockInv, EmptyInv, pyvars
<1>5. WakeInv'
  BY <1>1, <1>2 DEF WakeInv, Queued, pyvars
<1>6. BatchInv'
  BY <1>1, <1>2 DEF BatchInv, Queued, Requests, pyvars
<1> QED BY <1>3, <1>4, <1>5, <1>6 DEF RunInv

(* IO.queue and the eventfd callback stage an operation.                   *)
LEMMA StageSteps ==
    ASSUME RunInv, (\E o \in Ops : IO_queue(o)) \/ rearm
    PROVE  RunInv'
<1> RunTypes /\ LockInv /\ EmptyInv /\ WakeInv /\ BatchInv
  BY DEF RunInv
<1>1. PICK o \in Requests :
        /\ sq' = Append(sq, o) /\ eventfd' = (eventfd \/ ring_blocked)
        /\ \/ /\ o = Wake /\ pc = "rearm" /\ pc' = "exec"
           \/ /\ o \in Ops /\ MayQueue(o) /\ pc' = pc
        /\ UNCHANGED <<mutex, queues, index, batch, flagged, dropped, handed, ring_blocked,
                       wait, kernel, watchdogs, cq, buf, pushing, lost>>
  BY DEF IO_queue, rearm, Stage, Requests, pyvars
<1>2. /\ sq' \in Seq(Sqes) /\ Range(sq') = Range(sq) \cup {o} /\ sq' # <<>>
  <2>1. o \in Sqes /\ sq \in Seq(Sqes)
    BY DEF RunTypes, Sqes
  <2> QED BY <1>1, <2>1, RangeAppend
<1>3. eventfd' \in BOOLEAN
  BY <1>1 DEF RunTypes
<1>4. RunTypes'
  BY <1>1, <1>2, <1>3 DEF RunTypes
<1>5. LockInv' /\ EmptyInv'
  BY <1>1 DEF LockInv, EmptyInv, Parked
<1>6. WakeInv'
  <2>1. pc \in {"drain", "arm", "park"} => eventfd'
    BY <1>1 DEF LockInv, Parked
  <2> QED BY <1>1, <1>2, <2>1, RunnerAssumption DEF WakeInv, Queued
<1>7. BatchInv'
  <2>1. o \in Ops => o \notin kernel \cup Range(cq) \cup Range(buf) \cup Queued
    BY <1>1, RunnerAssumption DEF MayQueue, Real
  <2> QED BY <1>1, <1>2, <2>1 DEF BatchInv, Executes, Queued
<1> QED BY <1>4, <1>5, <1>6, <1>7 DEF RunInv

-----------------------------------------------------------------------------
(* The steps that move callbacks.                                          *)

(* A callback is scheduled.                                                *)
LEMMA PushSteps ==
    ASSUME RunInv,
           \/ \E c \in Soon : call_soon(c)
           \/ \E t \in Threads, c \in Soon : dispatch_push(t, c)
    PROVE  RunInv'
<1> RunTypes /\ LockInv /\ EmptyInv /\ WakeInv /\ BatchInv
  BY DEF RunInv
<1>1. PICK c \in Soon :
        /\ queues' = [queues EXCEPT ![index] = Append(@, c)]
        /\ UNCHANGED <<pc, index, batch, flagged, dropped, handed, ring_blocked, wait, iovars,
                       buf, lost>>
        /\ \/ pc \in {"deliver", "check", "run", "hooks"} /\ UNCHANGED <<mutex, pushing>>
           \/ mutex = Nobody /\ mutex' = pushing' /\ pushing' \in Threads
  BY DEF call_soon, dispatch_push, Push, PythonRuns
<1>2. c \in Callbacks /\ c \notin Requests
  BY RunnerAssumption DEF Callbacks, Requests
<1>3. /\ queues' \in [0 .. 1 -> Seq(Callbacks)]
      /\ Range(queues'[index]) = Range(queues[index]) \cup {c}
      /\ queues'[1 - index] = queues[1 - index]
      /\ Queued' = Queued \cup {c}
  BY <1>1, <1>2, PushAdds
<1>4. RunTypes'
  BY <1>1, <1>3 DEF RunTypes, iovars
<1>5. LockInv' /\ EmptyInv'
  BY <1>1, <1>3, RunnerAssumption DEF LockInv, EmptyInv, iovars
<1>6. WakeInv'
  BY <1>1, <1>2, <1>3, RunnerAssumption DEF WakeInv, Requests, iovars
<1>7. BatchInv'
  BY <1>1, <1>2, <1>3 DEF BatchInv, Requests, iovars
<1> QED BY <1>4, <1>5, <1>6, <1>7 DEF RunInv

(* One CQE is accounted.                                                   *)
LEMMA FetchStep ==
    ASSUME RunInv, fetch
    PROVE  RunInv'
<1> RunTypes /\ LockInv /\ EmptyInv /\ WakeInv /\ BatchInv
  BY DEF RunInv
<1> PICK e : e = Head(buf)
  OBVIOUS
<1>1. /\ pc = "fetch" /\ buf # <<>> /\ buf' = Tail(buf)
      /\ UNCHANGED <<pc, mutex, index, dropped, handed, ring_blocked, wait, iovars,
                     pushing, lost>>
      /\ \/ e \in {Expired, Removed} /\ UNCHANGED <<queues, batch, flagged>>
         \/ /\ e \notin {Expired, Removed}
            /\ queues' = [queues EXCEPT ![index] = Append(@, e)]
            /\ \/ e \in Streams /\ batch' = Append(batch, e) /\ flagged' = flagged \cup {e}
               \/ UNCHANGED <<batch, flagged>>
  BY DEF fetch
<1>2. /\ e \in Sqes /\ buf' \in Seq(Sqes)
      /\ Range(buf) = {e} \cup Range(buf')
  BY <1>1, RangeTail DEF RunTypes
<1>3. CASE e \in {Expired, Removed}
  <2>1. UNCHANGED <<queues, batch, flagged>>
    BY <1>1, <1>3
  <2>2. RunTypes'
    BY <1>1, <1>2, <2>1 DEF RunTypes, iovars
  <2>3. LockInv' /\ EmptyInv'
    BY <1>1, <2>1 DEF LockInv, EmptyInv, iovars
  <2>4. WakeInv'
    BY <1>1, <1>2, <1>3, <2>1, RunnerAssumption DEF WakeInv, Queued, iovars
  <2>5. BatchInv'
    BY <1>1, <1>2, <2>1 DEF BatchInv, Queued, iovars
  <2> QED BY <2>2, <2>3, <2>4, <2>5 DEF RunInv
<1>4. CASE e \notin {Expired, Removed}
  <2>1. e \in Callbacks /\ e \in Requests
    BY <1>2, <1>4 DEF Sqes, Requests, Callbacks
  <2>2. /\ queues' \in [0 .. 1 -> Seq(Callbacks)]
        /\ Range(queues'[index]) = Range(queues[index]) \cup {e}
        /\ queues'[1 - index] = queues[1 - index]
        /\ Queued' = Queued \cup {e}
    BY <1>1, <1>4, <2>1, PushAdds
  <2>3. /\ batch' \in Seq(Streams) /\ flagged' \ dropped' \subseteq Range(batch')
        /\ Range(batch') \subseteq Range(batch) \cup {e}
    <3>1. batch \in Seq(Streams) /\ flagged \ dropped \subseteq Range(batch)
      BY DEF RunTypes, BatchInv
    <3>2. CASE e \in Streams /\ batch' = Append(batch, e) /\ flagged' = flagged \cup {e}
      <4>1. /\ Append(batch, e) \in Seq(Streams)
            /\ Range(Append(batch, e)) = Range(batch) \cup {e}
        BY <3>1, <3>2, RangeAppend
      <4> QED BY <1>1, <3>1, <3>2, <4>1
    <3>3. CASE UNCHANGED <<batch, flagged>>
      BY <1>1, <3>1, <3>3
    <3> QED BY <1>1, <1>4, <3>2, <3>3
  <2>4. RunTypes'
    BY <1>1, <1>2, <2>2, <2>3 DEF RunTypes, iovars
  <2>5. LockInv' /\ EmptyInv'
    BY <1>1, <2>2 DEF LockInv, EmptyInv, Parked, iovars
  <2>6. WakeInv'
    BY <1>1, <1>2, <2>2 DEF WakeInv, iovars
  <2>7. BatchInv'
    BY <1>1, <1>2, <2>2, <2>3 DEF BatchInv, Executes, iovars
  <2> QED BY <2>4, <2>5, <2>6, <2>7 DEF RunInv
<1> QED BY <1>3, <1>4

(* A record of the batch is handed to its protocol.                        *)
LEMMA DispatchStep ==
    ASSUME RunInv, dispatch
    PROVE  RunInv'
<1> RunTypes /\ LockInv /\ EmptyInv /\ WakeInv /\ BatchInv
  BY DEF RunInv
<1>1. /\ pc = "dispatch" /\ pc' \in {"check", "deliver"}
      /\ UNCHANGED <<mutex, queues, index, dropped, handed, ring_blocked, wait, iovars, buf,
                     pushing, lost>>
  BY DEF dispatch
<1>2. /\ batch' \in Seq(Streams) /\ flagged' \ dropped' \subseteq Range(batch')
      /\ Range(batch') \subseteq Range(batch)
      /\ pc' = "check" => batch' = <<>>
  <2>1. batch \in Seq(Streams) /\ flagged \ dropped \subseteq Range(batch)
    BY DEF RunTypes, BatchInv
  <2>2. CASE batch = <<>>
    BY <2>1, <2>2 DEF dispatch
  <2>3. CASE batch # <<>>
    <3>1. Tail(batch) \in Seq(Streams) /\ Range(batch) = {Head(batch)} \cup Range(Tail(batch))
      BY <2>1, <2>3, RangeTail
    <3>2. /\ pc' = "deliver" /\ batch' = Tail(batch) /\ flagged' = flagged \ {Head(batch)}
          /\ dropped' = dropped
      BY <2>3 DEF dispatch
    <3> QED BY <2>1, <3>1, <3>2
  <2> QED BY <2>2, <2>3
<1>3. RunTypes'
  BY <1>1, <1>2 DEF RunTypes, iovars
<1>4. LockInv' /\ EmptyInv'
  BY <1>1 DEF LockInv, EmptyInv, Parked, iovars
<1>5. WakeInv'
  BY <1>1 DEF WakeInv, Queued, iovars
<1>6. BatchInv'
  BY <1>1, <1>2 DEF BatchInv, Executes, Queued, iovars
<1> QED BY <1>3, <1>4, <1>5, <1>6 DEF RunInv

(* A callback is taken from the queue that is executed.                    *)
LEMMA ConsumeStep ==
    ASSUME RunInv, consume
    PROVE  RunInv'
<1> RunTypes /\ LockInv /\ EmptyInv /\ WakeInv /\ BatchInv
  BY DEF RunInv
<1>1. /\ pc = "exec" /\ queues[1 - index] # <<>>
      /\ handed' = Head(queues[1 - index])
      /\ queues' = [queues EXCEPT ![1 - index] = Tail(@)]
      /\ pc' = IF handed' = Wake THEN "rearm" ELSE "run"
      /\ UNCHANGED <<mutex, index, batch, flagged, dropped, ring_blocked, wait, iovars, buf,
                     pushing, lost>>
  BY DEF consume, Executing
<1>2. /\ queues' \in [0 .. 1 -> Seq(Callbacks)]
      /\ handed' \in Callbacks
      /\ queues'[index] = queues[index]
      /\ Queued = Queued' \cup {handed'}
  BY <1>1, ConsumeTakes
<1>3. RunTypes'
  BY <1>1, <1>2 DEF RunTypes, iovars
<1>4. LockInv' /\ EmptyInv'
  BY <1>1 DEF LockInv, EmptyInv, Parked, iovars
<1>5. WakeInv'
  BY <1>1, <1>2 DEF WakeInv, iovars
<1>6. BatchInv'
  BY <1>1, <1>2, RangeEmpty DEF BatchInv, Executes, iovars
<1> QED BY <1>3, <1>4, <1>5, <1>6 DEF RunInv

(* The invariant holds at the start ...                                    *)
LEMMA RunInit == Init => RunInv
<1> SUFFICES ASSUME Init PROVE RunInv
  OBVIOUS
<1>1. <<Wake>> \in Seq(Sqes) /\ Range(<<Wake>>) = {Wake}
  BY DEF Sqes, Requests, Range
<1>2. \A S : <<>> \in Seq(S) /\ Range(<<>>) = {}
  BY RangeEmpty
<1>3. RunTypes
  <2>1. queues \in [0 .. 1 -> Seq(Callbacks)] /\ index \in 0 .. 1
    BY <1>2 DEF Init
  <2>2. batch \in Seq(Streams) /\ sq \in Seq(Sqes) /\ cq \in Seq(Sqes) /\ buf \in Seq(Sqes)
    BY <1>1, <1>2 DEF Init
  <2>3. kernel \subseteq Requests /\ watchdogs \in Nat
    BY DEF Init
  <2>4. /\ handed \in Callbacks \cup {None} /\ pushing \in Threads \cup {Nobody}
        /\ eventfd \in BOOLEAN /\ ring_blocked \in BOOLEAN
    BY DEF Init
  <2> QED BY <2>1, <2>2, <2>3, <2>4 DEF RunTypes
<1>4. LockInv /\ EmptyInv
  BY DEF Init, LockInv, EmptyInv, Parked
<1>5. WakeInv
  BY <1>1 DEF Init, WakeInv
<1>6. BatchInv
  BY <1>1, <1>2, RunnerAssumption DEF Init, BatchInv, Executes, Queued
<1> QED BY <1>3, <1>4, <1>5, <1>6 DEF RunInv

(* ... and every step keeps it.                                            *)
LEMMA RunStep == RunInv /\ [Next]_vars => RunInv'
<1> SUFFICES ASSUME RunInv, [Next]_vars PROVE RunInv'
  OBVIOUS
<1>1. CASE UNCHANGED vars
  <2>1. UNCHANGED <<pc, mutex, queues, index, batch, flagged, dropped, handed, ring_blocked,
                    wait, sq, kernel, watchdogs, cq, eventfd, buf, pushing, lost>>
    BY <1>1 DEF vars, pyvars, iovars
  <2>2. RunTypes' /\ LockInv' /\ EmptyInv'
    BY <2>1 DEF RunInv, RunTypes, LockInv, EmptyInv
  <2>3. WakeInv' /\ BatchInv'
    BY <2>1 DEF RunInv, WakeInv, BatchInv, Queued
  <2> QED BY <2>2, <2>3 DEF RunInv
<1>2. CASE Next
  BY <1>2, PlainSteps, CopySteps, SubmitSteps, KernelSteps, StageSteps, PushSteps,
     FetchStep, DispatchStep, ConsumeStep DEF Next, LoopStep, PythonStep
<1> QED BY <1>1, <1>2

-----------------------------------------------------------------------------
(* The properties.                                                         *)

(* The inductive invariant of the tick.                                    *)
THEOREM RunnerSafety == Spec => []RunInv
BY RunInit, RunStep, PTL DEF Spec

(* As long as the completion of the eventfd read is not among those that   *)
(* poll_blocking_events dropped, no wake-up is lost: what another thread   *)
(* scheduled or queued while the loop prepared to wait in copy_cqes ends   *)
(* the wait, and the loop never waits over callbacks that an interrupted   *)
(* run left.                                                               *)
THEOREM WakeupArrives == Spec => [](Wake \notin lost => WakeupNotLost)
<1>1. RunInv => (Wake \notin lost => WakeupNotLost)
  <2> SUFFICES ASSUME RunInv, Wake \notin lost PROVE WakeupNotLost
    OBVIOUS
  <2> RunTypes /\ LockInv /\ EmptyInv /\ WakeInv
    BY DEF RunInv
  <2>1. ring_blocked => queues[1 - index] = <<>>
    BY DEF LockInv, EmptyInv
  <2>2. ASSUME pc = "park", mutex = Nobody, queues[index] # <<>> \/ sq # <<>>, cq = <<>>
        PROVE  eventfd /\ Wake \in kernel
    <3>1. pushing = Nobody /\ buf = <<>> /\ queues[1 - index] = <<>>
      BY <2>2 DEF LockInv, EmptyInv, Parked
    <3>2. Queued = Range(queues[index]) \cup Range(queues[1 - index])
      BY DEF Queued, RunTypes
    <3>3. Wake \in kernel
      BY <2>2, <3>1, <3>2, RangeEmpty DEF WakeInv
    <3>4. eventfd
      BY <2>2, <3>1 DEF WakeInv
    <3> QED BY <3>3, <3>4
  <2> QED BY <2>1, <2>2 DEF WakeupNotLost
<1> QED BY <1>1, RunnerSafety, PTL

(* dispatch_completion_batch delivers the data of a batched read before    *)
(* the read's own callback runs, unless an exception that ends the run     *)
(* dropped its record, and no operation that has a record is in the ring   *)
(* again.                                                                  *)
THEOREM BatchIsDelivered == Spec => []BatchedDataDelivered
<1>1. RunInv => BatchedDataDelivered
  <2> SUFFICES ASSUME RunInv PROVE BatchedDataDelivered
    OBVIOUS
  <2> BatchInv /\ RunTypes
    BY DEF RunInv
  <2>1. pc = "run" /\ handed \in flagged => handed \in dropped
    BY RangeEmpty DEF BatchInv, Executes
  <2>2. Range(batch) \subseteq Ops
    BY RangeOfSeq, RunnerAssumption DEF RunTypes
  <2>3. Range(batch) \cap (Real(sq) \cup kernel) = {}
    BY <2>2 DEF BatchInv, Real
  <2> QED BY <2>1, <2>3 DEF BatchedDataDelivered
<1> QED BY <1>1, RunnerSafety, PTL

-----------------------------------------------------------------------------
(* The wait is not cut short.                                              *)

(* As long as no submission fails, a removal is submitted as soon as it is *)
(* staged, and its CQE is copied before the loop waits again.              *)
ParkInv ==
    /\ Removed \notin Range(sq)
    /\ pc \in {"arm", "park"} => Removed \notin Range(cq)

(* The steps that leave the ring alone.                                    *)
LEMMA ParkQuietSteps ==
    ASSUME RunTypes, ParkInv,
           \/ UNCHANGED vars \/ start \/ leave \/ poll_park \/ drain_more \/ drain_error
           \/ poll_peek \/ doze \/ unpark \/ restore \/ fetch \/ fetch_error \/ fetch_more
           \/ flip \/ dispatch \/ delivered \/ check_hooks \/ consume \/ returned
           \/ interrupted \/ call_once \/ end_tick \/ loop_stop \/ dispatch_wake
           \/ (\E c \in Soon : call_soon(c)) \/ (\E b \in BOOLEAN : set_idle_hooks(b))
           \/ (\E t \in Threads, c \in Soon : dispatch_push(t, c))
    PROVE  ParkInv'
<1>1. UNCHANGED sq /\ (pc' \in {"arm", "park"} => UNCHANGED <<pc, cq>>)
  <2>1. CASE \/ UNCHANGED vars \/ start \/ leave \/ poll_park \/ drain_more \/ drain_error
             \/ poll_peek \/ doze \/ unpark \/ restore \/ fetch \/ fetch_error \/ fetch_more
    BY <2>1 DEF vars, pyvars, iovars, start, leave, poll_park, drain_more, drain_error,
       poll_peek, doze, unpark, restore, fetch, fetch_error, fetch_more, Exit
  <2>2. CASE \/ flip \/ dispatch \/ delivered \/ check_hooks \/ consume \/ returned
             \/ interrupted \/ call_once \/ end_tick \/ loop_stop \/ dispatch_wake
             \/ (\E c \in Soon : call_soon(c)) \/ (\E b \in BOOLEAN : set_idle_hooks(b))
             \/ (\E t \in Threads, c \in Soon : dispatch_push(t, c))
    BY <2>2 DEF pyvars, iovars, flip, dispatch, delivered, check_hooks, consume, returned,
       interrupted, call_once, end_tick, loop_stop, dispatch_wake, call_soon,
       set_idle_hooks, dispatch_push, Exit
  <2> QED BY <2>1, <2>2
<1> QED BY <1>1 DEF ParkInv

(* Every step, when io_uring_enter refuses no submission.                  *)
LEMMA ParkStep ==
    ASSUME "submit" \notin Faults, RunTypes, ParkInv, [Next]_vars
    PROVE  ParkInv'
<1> /\ sq \in Seq(Sqes) /\ cq \in Seq(Sqes) /\ Removed \notin Range(sq)
  BY DEF RunTypes, ParkInv
<1>1. \A f : Fault("submit") => FALSE
  BY DEF Fault
<1>2. Range(<<>>) = {}
  BY RangeEmpty
<1>3. CASE poll_flush
  <2>1. UNCHANGED sq \/ Submit(sq)
    BY <1>3 DEF poll_flush
  <2>2. pc' \notin {"arm", "park"}
    BY <1>3 DEF poll_flush, Exit
  <2>3. sq' = sq \/ sq' = <<>>
    BY <2>1 DEF Submit
  <2> QED BY <1>2, <2>2, <2>3 DEF ParkInv
<1>4. CASE drain
  <2>1. UNCHANGED sq /\ Copy /\ (pc' \in {"arm", "park"} => cq = <<>>)
    BY <1>4 DEF drain
  <2>2. cq = <<>> => cq' = <<>>
    BY <2>1, CopyMoves
  <2> QED BY <1>2, <2>1, <2>2 DEF ParkInv
<1>5. CASE arm
  <2>1. Expired \in Sqes /\ Expired # Removed
    BY RunnerAssumption DEF Sqes
  <2>2. /\ Append(sq, Expired) \in Seq(Sqes)
        /\ Removed \notin Range(Append(sq, Expired))
    BY <2>1, RangeAppend
  <2>3. (Submit(Append(sq, Expired)) \/ Submit(sq)) /\ pc = "arm"
    BY <1>1, <1>5 DEF arm
  <2>4. sq' = <<>> /\ cq' = cq
    BY <2>2, <2>3, SubmitMoves
  <2> QED BY <1>2, <2>3, <2>4 DEF ParkInv
<1>6. CASE disarm
  <2>1. Submit(Append(sq, Removed)) /\ pc' = "restore"
    BY <1>1, <1>6 DEF disarm
  <2> QED BY <1>2, <2>1 DEF ParkInv, Submit
<1>7. CASE rearm \/ \E o \in Ops : IO_queue(o)
  <2>1. PICK o \in Requests : Stage(o)
    BY <1>7 DEF rearm, IO_queue, Requests
  <2>2. o \in Sqes /\ o # Removed
    BY RunnerAssumption DEF Requests, Sqes
  <2>3. Removed \notin Range(sq')
    BY <2>1, <2>2, RangeAppend DEF Stage
  <2>4. pc' \in {"arm", "park"} => UNCHANGED <<pc, cq>>
    BY <1>7 DEF rearm, IO_queue
  <2> QED BY <2>3, <2>4 DEF ParkInv
<1>8. CASE (\E o \in Ops : KernelComplete(o)) \/ KernelWake \/ KernelExpire
  <2>1. PICK o \in Sqes \ {Removed} : cq' = Append(cq, o)
    BY <1>8, RunnerAssumption DEF KernelComplete, KernelWake, KernelExpire, Sqes, Requests
  <2>2. UNCHANGED <<pc, sq>>
    BY <1>8 DEF KernelComplete, KernelWake, KernelExpire
  <2>3. Range(cq') = Range(cq) \cup {o}
    BY <2>1, RangeAppend
  <2> QED BY <2>1, <2>2, <2>3 DEF ParkInv
<1> QED BY <1>3, <1>4, <1>5, <1>6, <1>7, <1>8, ParkQuietSteps
        DEF Next, LoopStep, PythonStep

(* BUG-415: unless io_uring_enter refuses a submission, in which case a    *)
(* removal stays in the SQ until after the next drain, the completion of a *)
(* removed watchdog is never in the ring when the loop waits: an idle loop *)
(* blocks.                                                                 *)
THEOREM ParkBlocks ==
    ASSUME "submit" \notin Faults
    PROVE  Spec => []ParkIsNotCutShort
<1>1. Init => ParkInv
  BY RunnerAssumption DEF Init, ParkInv, Range
<1>2. RunTypes /\ ParkInv /\ [Next]_vars => ParkInv'
  BY ParkStep
<1>3. RunInv /\ ParkInv => ParkIsNotCutShort
  BY CountNat DEF RunInv, RunTypes, ParkInv, ParkIsNotCutShort
<1>4. RunInv => RunTypes
  BY DEF RunInv
<1> QED BY <1>1, <1>2, <1>3, <1>4, RunnerSafety, PTL DEF Spec

-----------------------------------------------------------------------------
(* No completion is lost.                                                  *)

(* The drain never copies twice, and no wait has failed.                   *)
LossInv ==
    /\ pc # "drain_more"
    /\ ~park_err
    /\ lost = {}

(* The completion queue is shorter than the buffer when the loop drains.   *)
RingFits == pc = "drain" => Len(cq) < BufLen

(* Every step, when copies, the ready ring and signal handlers do not      *)
(* fail.                                                                   *)
LEMMA LossStep ==
    ASSUME Faults \cap {"copy", "grow", "signal"} = {},
           RunTypes, LossInv, RingFits, [Next]_vars
    PROVE  LossInv'
<1>1. ~Fault("copy") /\ ~Fault("grow") /\ ~Fault("signal")
  BY DEF Fault
<1>2. CASE drain
  <2>1. full' = (Min(Len(cq), BufLen) = BufLen)
    BY <1>2 DEF drain, Copy
  <2>2. Len(cq) \in Nat /\ BufLen \in Nat /\ Len(cq) < BufLen
    BY <1>2, RunnerAssumption DEF RunTypes, RingFits, drain
  <2>3. Min(Len(cq), BufLen) # BufLen
    BY <2>2 DEF Min
  <2>4. ~full'
    BY <2>1, <2>3
  <2> QED BY <1>2, <2>4 DEF drain, LossInv
<1>3. CASE restore
  <2>1. UNCHANGED lost /\ park_err' = FALSE /\ pc' # "drain_more"
    BY <1>1, <1>3 DEF restore, LossInv
  <2> QED BY <2>1 DEF LossInv
<1>4. CASE drain_more \/ drain_error \/ fetch_error
  BY <1>1, <1>4 DEF drain_more, drain_error, fetch_error, LossInv
<1>5. CASE \/ UNCHANGED vars \/ start \/ leave \/ poll_flush \/ poll_peek \/ poll_park
           \/ arm \/ doze \/ unpark \/ disarm \/ fetch \/ fetch_more \/ flip
  <2>1. UNCHANGED <<park_err, lost>> /\ (pc' = "drain_more" => pc = "drain_more")
    BY <1>1, <1>5 DEF vars, start, leave, poll_flush, poll_peek, poll_park, arm, doze,
       unpark, disarm, fetch, fetch_more, flip, Exit
  <2> QED BY <2>1 DEF LossInv
<1>6. CASE \/ dispatch \/ delivered \/ check_hooks \/ consume \/ rearm \/ returned
           \/ interrupted \/ call_once \/ end_tick \/ PythonStep \/ dispatch_wake
           \/ (\E o \in Ops : KernelComplete(o)) \/ KernelWake \/ KernelExpire
  <2>1. UNCHANGED <<park_err, lost>> /\ (pc' = "drain_more" => pc = "drain_more")
    BY <1>6 DEF dispatch, delivered, check_hooks, consume, rearm, returned, interrupted,
       call_once, end_tick, PythonStep, call_soon, IO_queue, set_idle_hooks, loop_stop,
       dispatch_push, dispatch_wake, KernelComplete, KernelWake, KernelExpire, Exit
  <2> QED BY <2>1 DEF LossInv
<1> QED BY <1>2, <1>3, <1>4, <1>5, <1>6 DEF Next, LoopStep

(* The only ways to lose a completion are the ones that are named here: a  *)
(* copy, the growth of a ready ring or a signal handler fails, or the      *)
(* drain of poll_blocking_events finds as many completions as its buffer   *)
(* holds and copies the next ones over them.  In a run without these every *)
(* completion that copy_cqes took from the ring reaches a ready queue, and *)
(* no wake-up is lost.                                                     *)
THEOREM CompletionsArrive ==
    ASSUME Faults \cap {"copy", "grow", "signal"} = {}
    PROVE  Spec /\ []RingFits => []NoCompletionLost /\ []WakeupNotLost
<1>1. Init => LossInv
  BY DEF Init, LossInv
<1>2. RunTypes /\ LossInv /\ RingFits /\ [Next]_vars => LossInv'
  BY LossStep
<1>3. LossInv => NoCompletionLost
  BY DEF LossInv, NoCompletionLost
<1>4. RunInv => RunTypes
  BY DEF RunInv
<1>5. NoCompletionLost => Wake \notin lost
  BY DEF NoCompletionLost
<1> QED BY <1>1, <1>2, <1>3, <1>4, <1>5, RunnerSafety, WakeupArrives, PTL DEF Spec

-----------------------------------------------------------------------------
(* The two ready queues are one FIFO.                                      *)

(* Outside the execution of a tick the queue that is executed is empty.    *)
SpareInv ==
    pc \notin {"dispatch", "deliver", "check", "exec", "run", "rearm"}
        => queues[1 - index] = <<>>

(* A push to the queue in use is a push to the whole.                      *)
LEMMA PushRefines ==
    ASSUME RunTypes, SpareInv, NEW c \in Callbacks, Push(c), UNCHANGED <<index, handed>>,
           UNCHANGED pc
    PROVE  SpareInv' /\ F!Push(c)
<1>1. /\ queues[index] \in Seq(Callbacks) /\ queues[1 - index] \in Seq(Callbacks)
      /\ index \in {0, 1} /\ queues \in [0 .. 1 -> Seq(Callbacks)]
  BY DEF RunTypes
<1>2. /\ queues'[index] = Append(queues[index], c)
      /\ queues'[1 - index] = queues[1 - index]
  BY <1>1 DEF Push
<1>3. ASSUME NEW p \in Seq(Callbacks), NEW q \in Seq(Callbacks)
      PROVE  p \o Append(q, c) = Append(p \o q, c)
  OBVIOUS
<1>4. F!Push(c)
  BY <1>1, <1>2, <1>3 DEF F!Push
<1>5. SpareInv'
  BY <1>2 DEF SpareInv
<1> QED BY <1>4, <1>5

(* The first of two queues is taken from first.                            *)
LEMMA ConcatTail ==
    ASSUME NEW p \in Seq(Callbacks), NEW q \in Seq(Callbacks), p # <<>>
    PROVE  /\ p \o q # <<>>
           /\ Head(p \o q) = Head(p)
           /\ Tail(p \o q) = Tail(p) \o q
<1>1. /\ p \o q \in Seq(Callbacks) /\ Len(p \o q) = Len(p) + Len(q)
      /\ Len(p) \in Nat \ {0} /\ Len(q) \in Nat
      /\ \A i \in 1 .. Len(p) : (p \o q)[i] = p[i]
      /\ \A i \in 1 .. Len(q) : (p \o q)[Len(p) + i] = q[i]
  BY EmptySeq, ConcatProperties
<1>2. /\ Tail(p) \in Seq(Callbacks) /\ Len(Tail(p)) = Len(p) - 1
      /\ \A i \in 1 .. Len(p) - 1 : Tail(p)[i] = p[i + 1] /\ Head(p) = p[1]
  BY HeadTailProperties
<1>3. p \o q # <<>>
  BY <1>1, EmptySeq
<1>4. Head(p \o q) = Head(p)
  BY <1>1, <1>3, HeadTailProperties
<1> PICK r \in Seq(Callbacks), s \in Seq(Callbacks), u \in Seq(Callbacks) :
        r = p \o q /\ s = Tail(r) /\ u = Tail(p) \o q
  BY <1>1, <1>2, <1>3, HeadTailProperties, ConcatProperties
<1>5. /\ Len(s) = Len(r) - 1
      /\ \A i \in 1 .. Len(r) - 1 : s[i] = r[i + 1]
  BY <1>3, HeadTailProperties
<1>6. /\ Len(u) = (Len(p) - 1) + Len(q)
      /\ \A i \in 1 .. Len(p) - 1 : u[i] = p[i + 1]
      /\ \A i \in 1 .. Len(q) : u[(Len(p) - 1) + i] = q[i]
  BY <1>2, ConcatProperties
<1>7. ASSUME NEW i \in 1 .. Len(s) PROVE s[i] = u[i]
  <2>1. CASE i \in 1 .. Len(p) - 1
    <3>1. i + 1 \in 1 .. Len(p) /\ i \in 1 .. Len(r) - 1
      BY <1>1, <2>1
    <3> QED BY <1>1, <1>5, <1>6, <2>1, <3>1
  <2>2. CASE i \notin 1 .. Len(p) - 1
    <3> PICK j \in 1 .. Len(q) : i = (Len(p) - 1) + j
      <4>1. i - (Len(p) - 1) \in 1 .. Len(q) /\ i = (Len(p) - 1) + (i - (Len(p) - 1))
        BY <1>1, <1>5, <2>2
      <4> QED BY <4>1
    <3>1. i + 1 = Len(p) + j /\ i \in 1 .. Len(r) - 1
      BY <1>1, <1>5
    <3> QED BY <1>1, <1>5, <1>6, <3>1
  <2> QED BY <2>1, <2>2
<1>8. Len(s) = Len(u)
  BY <1>1, <1>5, <1>6
<1>9. s = u
  BY <1>7, <1>8, SeqEqual
<1> QED BY <1>3, <1>4, <1>9

(* Every step, when no exception leaves start.                             *)
LEMMA FifoStep ==
    ASSUME "interrupt" \notin Faults, RunTypes, RunTypes', SpareInv, [Next]_vars
    PROVE  SpareInv' /\ [F!Next]_(F!vars)
<1>1. /\ queues[index] \in Seq(Callbacks) /\ queues[1 - index] \in Seq(Callbacks)
      /\ index \in {0, 1} /\ queues \in [0 .. 1 -> Seq(Callbacks)]
  BY DEF RunTypes
<1>2. CASE fetch
  <2>1. CASE Head(buf) \in {Expired, Removed}
    <3>1. UNCHANGED <<queues, index, handed, pc>>
      BY <1>2, <2>1 DEF fetch
    <3> QED BY <3>1 DEF SpareInv, F!vars
  <2>2. CASE Head(buf) \notin {Expired, Removed}
    <3>1. Push(Head(buf)) /\ UNCHANGED <<index, handed, pc>> /\ buf # <<>>
      BY <1>2, <2>2 DEF fetch, Push
    <3>2. Head(buf) \in Callbacks
      BY <2>2, <3>1, RangeTail DEF RunTypes, Sqes, Requests, Callbacks
    <3> QED BY <3>1, <3>2, PushRefines DEF F!Next
  <2> QED BY <2>1, <2>2
<1>3. CASE \/ \E c \in Soon : call_soon(c)
           \/ (\E t \in Threads, c \in Soon : dispatch_push(t, c))
  <2>1. PICK c \in Callbacks : Push(c)
    BY <1>3 DEF call_soon, dispatch_push, Callbacks
  <2>2. UNCHANGED <<index, handed, pc>>
    BY <1>3 DEF call_soon, dispatch_push
  <2> QED BY <2>1, <2>2, PushRefines DEF F!Next
<1>4. CASE flip
  <2>1. /\ pc = "fetch" /\ pc' = "dispatch" /\ index' = 1 - index
        /\ UNCHANGED <<queues, handed>>
    BY <1>4 DEF flip
  <2>2. queues[1 - index] = <<>> /\ 1 - index' = index
    BY <1>1, <2>1 DEF SpareInv
  <2>3. queues'[1 - index'] \o queues'[index'] = queues[1 - index] \o queues[index]
    BY <1>1, <2>1, <2>2, ConcatEmptySeq
  <2> QED BY <2>1, <2>3 DEF SpareInv, F!vars
<1>5. CASE consume
  <2>1. /\ queues[1 - index] # <<>> /\ handed' = Head(queues[1 - index])
        /\ queues' = [queues EXCEPT ![1 - index] = Tail(@)]
        /\ pc' \in {"rearm", "run"} /\ UNCHANGED index
    BY <1>5 DEF consume, Executing
  <2>2. queues'[1 - index] = Tail(queues[1 - index]) /\ queues'[index] = queues[index]
    BY <1>1, <2>1
  <2>3. /\ queues[1 - index] \o queues[index] # <<>>
        /\ handed' = Head(queues[1 - index] \o queues[index])
        /\ queues'[1 - index] \o queues'[index] = Tail(queues[1 - index] \o queues[index])
    BY <1>1, <2>1, <2>2, ConcatTail
  <2>4. F!Pop
    BY <2>1, <2>3 DEF F!Pop
  <2> QED BY <2>1, <2>4 DEF SpareInv, F!Next
<1>6. CASE interrupted
  BY <1>6 DEF interrupted, Fault
<1>7. CASE \/ UNCHANGED vars \/ start \/ leave \/ poll_flush \/ poll_peek \/ poll_park
           \/ drain \/ drain_more \/ drain_error \/ arm \/ doze \/ unpark \/ disarm
           \/ restore \/ fetch_error \/ fetch_more
  <2>1. /\ UNCHANGED <<queues, index, handed>>
        /\ pc' \notin {"dispatch", "deliver", "check", "exec", "run", "rearm"} =>
              pc \notin {"dispatch", "deliver", "check", "exec", "run", "rearm"}
    BY <1>7 DEF vars, pyvars, start, leave, poll_flush, poll_peek, poll_park, drain,
       drain_more, drain_error, arm, doze, unpark, disarm, restore, fetch_error,
       fetch_more, Exit
  <2> QED BY <2>1 DEF SpareInv, F!vars
<1>8. CASE \/ dispatch \/ delivered \/ check_hooks \/ rearm \/ returned
           \/ end_tick \/ dispatch_wake \/ (\E o \in Ops : KernelComplete(o))
           \/ KernelWake \/ KernelExpire \/ (\E o \in Ops : IO_queue(o))
           \/ (\E b \in BOOLEAN : set_idle_hooks(b)) \/ loop_stop
  <2>1. /\ UNCHANGED <<queues, index, handed>>
        /\ pc' \notin {"dispatch", "deliver", "check", "exec", "run", "rearm"} =>
              pc \notin {"dispatch", "deliver", "check", "exec", "run", "rearm"}
    BY <1>8 DEF pyvars, dispatch, delivered, check_hooks, rearm, returned, end_tick,
       dispatch_wake, KernelComplete, KernelWake, KernelExpire, IO_queue, set_idle_hooks,
       loop_stop
  <2> QED BY <2>1 DEF SpareInv, F!vars
<1>9. CASE call_once
  <2>1. UNCHANGED <<queues, index, handed>> /\ queues[1 - index] = <<>>
    BY <1>9 DEF call_once, pyvars, Executing
  <2> QED BY <2>1 DEF SpareInv, F!vars
<1> QED BY <1>2, <1>3, <1>4, <1>5, <1>6, <1>7, <1>8, <1>9 DEF Next, LoopStep, PythonStep

(* Unless KeyboardInterrupt or SystemExit leaves a callback, after which   *)
(* the rest of its queue runs behind callbacks scheduled later, the two    *)
(* ready queues implement one FIFO: whoever pushed, callbacks and          *)
(* completions run in the order in which they were scheduled.              *)
THEOREM QueuesAreFifo ==
    ASSUME "interrupt" \notin Faults
    PROVE  Spec => ReadyQueuesAreFifo
<1>1. Init => SpareInv /\ F!Init
  <2> SUFFICES ASSUME Init PROVE SpareInv /\ F!Init
    OBVIOUS
  <2>1. queues[0] = <<>> /\ queues[1] = <<>> /\ index = 0 /\ handed = None
    BY DEF Init
  <2>2. queues[1 - index] = <<>> /\ queues[index] = <<>>
    BY <2>1
  <2>3. queues[1 - index] \o queues[index] = <<>>
    BY <2>2
  <2> QED BY <2>1, <2>2, <2>3 DEF SpareInv, F!Init
<1>2. RunTypes /\ RunTypes' /\ SpareInv /\ [Next]_vars => SpareInv' /\ [F!Next]_(F!vars)
  BY FifoStep
<1>3. RunInv => RunTypes
  BY DEF RunInv
<1> QED BY <1>1, <1>2, <1>3, RunnerSafety, PTL DEF Spec, ReadyQueuesAreFifo, F!Spec
=============================================================================
