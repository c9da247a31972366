--------------------------- MODULE TaskSlotsProofs ---------------------------
(***************************************************************************)
(* Proofs about TaskSlots, for every number of operations, of slots and of *)
(* sets, with or without failing submissions.                              *)
(***************************************************************************)
EXTENDS TaskSlots, FiniteSetTheorems, TLAPS

-----------------------------------------------------------------------------
(***************************************************************************)
(* One BlockingTasksSet.                                                   *)
(***************************************************************************)

Pools ==
    [node : {"none", "current", "busy"},
     index : 0 .. TotalTasksItems,
     free : Seq(Slots),
     active : 0 .. TotalTasksItems,
     disattached : BOOLEAN,
     data : [Slots -> Ops \cup {NoOp}]]

(* A set's own bookkeeping: the free list names distinct slots below the   *)
(* bump index, and active_tasks counts the others.                         *)
PoolOK(p) ==
    /\ p \in Pools
    /\ \A k \in 1 .. Len(p.free) : p.free[k] < p.index
    /\ \A j, k \in 1 .. Len(p.free) : p.free[j] = p.free[k] => j = k
    /\ p.active = p.index - Len(p.free)

(* Slot i of set p is given out, with the callback of operation o in it. *)
Holds(p, i, o) ==
    /\ i \in Slots
    /\ i < p.index
    /\ \A k \in 1 .. Len(p.free) : p.free[k] # i
    /\ p.data[i] = IF o \in Bare THEN NoOp ELSE o

(* A released or new set is consistent. *)
LEMMA FreshPoolOK ==
    /\ FreshPool \in Pools
    /\ PoolOK(FreshPool)
    /\ PoolOK([FreshPool EXCEPT !.node = "current"])
<1>1. /\ 0 \in 0 .. TotalTasksItems
      /\ <<>> \in Seq(Slots)
      /\ Len(<<>>) = 0
      /\ [i \in Slots |-> NoOp] \in [Slots -> Ops \cup {NoOp}]
    BY TaskSlotsAssumption
<1>2. FreshPool \in Pools /\ [FreshPool EXCEPT !.node = "current"] \in Pools
    BY <1>1 DEF FreshPool, Pools
<1> QED
    BY <1>1, <1>2 DEF FreshPool, PoolOK

(* What push does, field by field. *)
LEMMA PushFields ==
    ASSUME NEW p, p \in Pools, NEW o \in Ops
    PROVE  /\ push(p, o).node = p.node
           /\ push(p, o).disattached = p.disattached
           /\ push(p, o).active = p.active + 1
           /\ push(p, o).index = IF p.free = <<>> THEN p.index + 1 ELSE p.index
           /\ push(p, o).free = IF p.free = <<>> THEN p.free ELSE SubSeq(p.free, 1, Len(p.free) - 1)
           /\ push(p, o).data = [p.data EXCEPT ![SlotFor(p)] = IF o \in Bare THEN NoOp ELSE o]
<1>1. push(p, o).node = p.node /\ push(p, o).disattached = p.disattached
    BY DEF push, Pools
<1>2. push(p, o).active = p.active + 1
    BY DEF push, Pools
<1>3. push(p, o).index = IF p.free = <<>> THEN p.index + 1 ELSE p.index
    BY DEF push, Pools
<1>4. push(p, o).free = IF p.free = <<>> THEN p.free ELSE SubSeq(p.free, 1, Len(p.free) - 1)
    BY DEF push, Pools
<1>5. push(p, o).data = [p.data EXCEPT ![SlotFor(p)] = IF o \in Bare THEN NoOp ELSE o]
    BY DEF push, Pools
<1> QED
    BY <1>1, <1>2, <1>3, <1>4, <1>5

(* push keeps the record's type when its new numbers are in range. *)
LEMMA PushType ==
    ASSUME NEW p, p \in Pools, NEW o \in Ops,
           push(p, o).index \in 0 .. TotalTasksItems,
           push(p, o).free \in Seq(Slots),
           push(p, o).active \in 0 .. TotalTasksItems,
           SlotFor(p) \in Slots
    PROVE  push(p, o) \in Pools
<1> DEFINE content == IF o \in Bare THEN NoOp ELSE o
           bumped == IF p.free = <<>> THEN p.index + 1 ELSE p.index
           rest == IF p.free = <<>> THEN p.free ELSE SubSeq(p.free, 1, Len(p.free) - 1)
           more == p.active + 1
<1>1. push(p, o) = [p EXCEPT !.data[SlotFor(p)] = content, !.index = bumped,
                             !.free = rest, !.active = more]
    BY DEF push, Pools
<1>2. /\ bumped \in 0 .. TotalTasksItems
      /\ rest \in Seq(Slots)
      /\ more \in 0 .. TotalTasksItems
    BY PushFields, ZenonT(60)
<1>3. content \in Ops \cup {NoOp}
    OBVIOUS
<1> HIDE DEF content, bumped, rest, more
<1>4. [p EXCEPT !.data[SlotFor(p)] = content, !.index = bumped,
                !.free = rest, !.active = more] \in Pools
    BY <1>2, <1>3 DEF Pools
<1> QED
    BY <1>1, <1>4, Zenon

(* A push into a set with room takes a slot that nobody holds, and leaves  *)
(* the slots that are held alone.                                          *)
LEMMA PushOK ==
    ASSUME NEW p, PoolOK(p), free(p), NEW o \in Ops
    PROVE  /\ PoolOK(push(p, o))
           /\ push(p, o).active = p.active + 1
           /\ push(p, o).node = p.node
           /\ push(p, o).disattached = p.disattached
           /\ Holds(push(p, o), SlotFor(p), o)
           /\ \A i, x : Holds(p, i, x) => i # SlotFor(p) /\ Holds(push(p, o), i, x)
<1>1. PICK q : q = push(p, o)
    OBVIOUS
<1>2. PICK c : c = IF o \in Bare THEN NoOp ELSE o
    OBVIOUS
<1>3. /\ p \in Pools
      /\ p.index \in 0 .. TotalTasksItems
      /\ p.free \in Seq(Slots)
      /\ Len(p.free) \in Nat
      /\ p.active \in 0 .. TotalTasksItems
      /\ p.active = p.index - Len(p.free)
      /\ p.active < TotalTasksItems
      /\ TotalTasksItems \in Nat
      /\ p.data \in [Slots -> Ops \cup {NoOp}]
    BY TaskSlotsAssumption DEF PoolOK, Pools, free
<1>4. /\ q.node = p.node
      /\ q.disattached = p.disattached
      /\ q.active = p.active + 1
      /\ q.index = IF p.free = <<>> THEN p.index + 1 ELSE p.index
      /\ q.free = IF p.free = <<>> THEN p.free ELSE SubSeq(p.free, 1, Len(p.free) - 1)
      /\ q.data = [p.data EXCEPT ![SlotFor(p)] = c]
    BY <1>1, <1>2, <1>3, PushFields
<1>5. ASSUME q.index \in 0 .. TotalTasksItems, q.free \in Seq(Slots), SlotFor(p) \in Slots
      PROVE  q \in Pools
  <2>1. q.active \in 0 .. TotalTasksItems
      BY <1>3, <1>4
  <2> QED
      BY <1>1, <1>3, <1>5, <2>1, PushType, Zenon
<1>6. CASE p.free = <<>>
  <2>1. /\ SlotFor(p) = p.index
        /\ p.index < TotalTasksItems
        /\ SlotFor(p) \in Slots
        /\ q.index = p.index + 1
        /\ q.free = <<>>
        /\ Len(q.free) = 0
      BY <1>3, <1>4, <1>6 DEF SlotFor, Slots
  <2>2. q \in Pools
      BY <1>3, <1>5, <2>1
  <2>3. PoolOK(q)
      BY <1>3, <1>4, <2>1, <2>2 DEF PoolOK
  <2>4. q.data[SlotFor(p)] = c
      BY <1>3, <1>4, <2>1
  <2>5. Holds(q, SlotFor(p), o)
      BY <1>2, <1>3, <2>1, <2>4 DEF Holds
  <2>6. ASSUME NEW i, NEW x, Holds(p, i, x)
        PROVE  i # SlotFor(p) /\ Holds(q, i, x)
    <3>1. i \in Slots /\ i < p.index /\ i \in Int
        BY <2>6 DEF Holds, Slots
    <3>2. i # SlotFor(p) /\ i < q.index
        BY <1>3, <2>1, <3>1
    <3>3. q.data[i] = p.data[i]
        BY <1>3, <1>4, <3>1, <3>2
    <3> QED
        BY <2>1, <2>6, <3>1, <3>2, <3>3 DEF Holds
  <2> QED
      BY <1>1, <1>4, <2>3, <2>5, <2>6
<1>7. CASE p.free # <<>>
  <2>1. /\ Len(p.free) \in 1 .. Len(p.free)
        /\ SlotFor(p) = p.free[Len(p.free)]
        /\ SlotFor(p) \in Slots
        /\ q.index = p.index
        /\ q.free = SubSeq(p.free, 1, Len(p.free) - 1)
      BY <1>3, <1>4, <1>7 DEF SlotFor
  <2>2. /\ q.free \in Seq(Slots)
        /\ Len(q.free) = Len(p.free) - 1
        /\ \A k \in 1 .. Len(q.free) : q.free[k] = p.free[k]
      BY <1>3, <2>1
  <2>3. \A k \in 1 .. Len(q.free) : k \in 1 .. Len(p.free) /\ k # Len(p.free)
      BY <1>3, <2>2
  <2>4. q \in Pools
      BY <1>3, <1>5, <2>1, <2>2
  <2>5. q.active = q.index - Len(q.free)
      BY <1>3, <1>4, <2>1, <2>2
  <2>6. PoolOK(q)
      BY <2>1, <2>2, <2>3, <2>4, <2>5 DEF PoolOK
  <2>7. q.data[SlotFor(p)] = c
      BY <1>3, <1>4, <2>1
  <2>8. Holds(q, SlotFor(p), o)
    <3>1. SlotFor(p) < q.index
        BY <2>1 DEF PoolOK
    <3>2. \A k \in 1 .. Len(q.free) : q.free[k] # SlotFor(p)
        BY <2>1, <2>2, <2>3 DEF PoolOK
    <3> QED
        BY <1>2, <2>1, <2>7, <3>1, <3>2 DEF Holds
  <2>9. ASSUME NEW i, NEW x, Holds(p, i, x)
        PROVE  i # SlotFor(p) /\ Holds(q, i, x)
    <3>1. i \in Slots /\ i < q.index /\ i # SlotFor(p)
        BY <2>1, <2>9 DEF Holds
    <3>2. q.data[i] = p.data[i]
        BY <1>3, <1>4, <3>1
    <3>3. \A k \in 1 .. Len(q.free) : q.free[k] # i
        BY <2>2, <2>3, <2>9 DEF Holds
    <3> QED
        BY <2>9, <3>1, <3>2, <3>3 DEF Holds
  <2> QED
      BY <1>1, <1>4, <2>6, <2>8, <2>9
<1> QED
    BY <1>6, <1>7

(* What pop does to a set that keeps other tasks.                          *)
LEMMA PopKeeps ==
    ASSUME NEW p, PoolOK(p), NEW i, NEW x, Holds(p, i, x), p.active > 1
    PROVE  /\ PoolOK(pop(p, i))
           /\ pop(p, i).active = p.active - 1
           /\ pop(p, i).node = p.node
           /\ pop(p, i).disattached = p.disattached
           /\ \A j, y : j # i /\ Holds(p, j, y) => Holds(pop(p, i), j, y)
<1>1. PICK q : q = pop(p, i)
    OBVIOUS
<1>2. PICK fewer : fewer = p.active - 1
    OBVIOUS
<1>3. PICK given : given = Append(p.free, i)
    OBVIOUS
<1>4. /\ p \in Pools
      /\ i \in Slots
      /\ i < p.index
      /\ p.index \in 0 .. TotalTasksItems
      /\ p.free \in Seq(Slots)
      /\ Len(p.free) \in Nat
      /\ p.active \in 0 .. TotalTasksItems
      /\ p.active = p.index - Len(p.free)
      /\ TotalTasksItems \in Nat
      /\ p.data \in [Slots -> Ops \cup {NoOp}]
    BY TaskSlotsAssumption DEF PoolOK, Pools, Holds
<1>5. q = [p EXCEPT !.data[i] = NoOp, !.free = given, !.active = fewer]
    BY <1>1, <1>2, <1>3, <1>4 DEF pop, Pools
<1>6. /\ fewer \in 0 .. TotalTasksItems
      /\ given \in Seq(Slots)
      /\ Len(given) = Len(p.free) + 1
      /\ given[Len(p.free) + 1] = i
      /\ \A k \in 1 .. Len(p.free) : given[k] = p.free[k]
      /\ \A k \in 1 .. Len(given) : k \in 1 .. Len(p.free) \/ k = Len(p.free) + 1
    BY <1>2, <1>3, <1>4
<1>7. q \in Pools
    BY <1>4, <1>5, <1>6 DEF Pools
<1>8. /\ q.node = p.node
      /\ q.disattached = p.disattached
      /\ q.active = fewer
      /\ q.index = p.index
      /\ q.free = given
      /\ q.data = [p.data EXCEPT ![i] = NoOp]
    BY <1>4, <1>5 DEF Pools
<1>9. PoolOK(q)
  <2>1. q.active = q.index - Len(q.free)
      BY <1>2, <1>4, <1>6, <1>8
  <2>2. \A k \in 1 .. Len(given) : given[k] < p.index
      BY <1>4, <1>6 DEF PoolOK
  <2>3. \A j, k \in 1 .. Len(given) : given[j] = given[k] => j = k
      BY <1>6 DEF PoolOK, Holds
  <2> QED
      BY <1>7, <1>8, <2>1, <2>2, <2>3 DEF PoolOK
<1>10. ASSUME NEW j, NEW y, j # i, Holds(p, j, y)
       PROVE  Holds(q, j, y)
  <2>1. q.data[j] = p.data[j]
      BY <1>4, <1>8, <1>10 DEF Holds
  <2>2. \A k \in 1 .. Len(q.free) : q.free[k] # j
      BY <1>6, <1>8, <1>10 DEF Holds
  <2> QED
      BY <1>8, <1>10, <2>1, <2>2 DEF Holds
<1> QED
    BY <1>1, <1>2, <1>8, <1>9, <1>10

(* pop of the last task resets the current set and releases one put aside. *)
LEMMA PopLast ==
    ASSUME NEW p, PoolOK(p), NEW i \in Slots, p.active = 1
    PROVE  /\ PoolOK(pop(p, i))
           /\ pop(p, i).active = 0
           /\ p.disattached => pop(p, i) = FreshPool
           /\ ~p.disattached => /\ pop(p, i).node = p.node
                                /\ pop(p, i).disattached = p.disattached
<1>1. CASE p.disattached
    BY <1>1, FreshPoolOK DEF pop, FreshPool
<1>2. CASE ~p.disattached
  <2>1. PICK q : q = pop(p, i)
      OBVIOUS
  <2>2. p \in Pools /\ TotalTasksItems \in Nat /\ <<>> \in Seq(Slots) /\ Len(<<>>) = 0
      BY TaskSlotsAssumption DEF PoolOK
  <2>3. q = [p EXCEPT !.data[i] = NoOp, !.index = 0, !.free = <<>>, !.active = 0]
      BY <1>2, <2>1 DEF pop
  <2>4. q \in Pools
    <3>1. 0 \in 0 .. TotalTasksItems /\ NoOp \in Ops \cup {NoOp}
        BY <2>2
    <3>2. [p EXCEPT !.data[i] = NoOp, !.index = 0, !.free = <<>>, !.active = 0] \in Pools
        BY <2>2, <3>1 DEF Pools
    <3> QED
        BY <2>3, <3>2, Zenon
  <2>5. /\ q.node = p.node
        /\ q.disattached = p.disattached
        /\ q.active = 0
        /\ q.index = 0
        /\ q.free = <<>>
      BY <2>2, <2>3 DEF Pools
  <2>6. PoolOK(q)
    <3>1. Len(q.free) = 0
        BY <2>2, <2>5, Zenon
    <3>2. q.active = 0 /\ q.index = 0
        BY <2>5, Zenon
    <3>3. 0 = 0 - 0
        OBVIOUS
    <3>4. q.active = q.index - Len(q.free)
        BY <3>1, <3>2, <3>3, Zenon
    <3> QED
        BY <2>4, <3>1, <3>4 DEF PoolOK
  <2> QED
      BY <1>2, <2>1, <2>5, <2>6
<1> QED
    BY <1>1, <1>2 DEF PoolOK, Pools

-----------------------------------------------------------------------------
(***************************************************************************)
(* All sets, and the operations that own slots in them.  P stands for      *)
(* pool, c for the current set, O for the operations that own a slot and   *)
(* ud for their user_data.                                                 *)
(***************************************************************************)

PoolsInv(P, c) ==
    /\ P \in [Sets -> Pools]
    /\ \A t \in Sets :
        /\ PoolOK(P[t])
        /\ P[t].node = "none" => P[t] = FreshPool
        /\ P[t].node = "current" <=> t = c
        /\ P[t].node = "current" => ~P[t].disattached
        /\ P[t].node = "busy" => P[t].active > 0 /\ P[t].disattached

In(O, ud, t) == {o \in O : ud[o][1] = t}

OwnersInv(P, O, ud) ==
    /\ \A o \in O :
        /\ ud[o] \in Tasks
        /\ P[ud[o][1]].node # "none"
        /\ Holds(P[ud[o][1]], ud[o][2], o)
    /\ \A o1, o2 \in O : ud[o1] = ud[o2] => o1 = o2
    /\ \A t \in Sets : P[t].active = Cardinality(In(O, ud, t))

(* Only what the owners' user_data say matters. *)
LEMMA OwnersDepend ==
    ASSUME NEW P, NEW O, NEW ud, NEW ud2, OwnersInv(P, O, ud),
           \A o \in O : ud2[o] = ud[o]
    PROVE  OwnersInv(P, O, ud2)
<1>1. \A t : In(O, ud2, t) = In(O, ud, t)
    BY DEF In
<1> QED
    BY <1>1 DEF OwnersInv

(* A full current set is put aside for a fresh one: nothing else changes,  *)
(* and the set that is current then has room.                              *)
LEMMA SwitchOK ==
    ASSUME NEW P, NEW c \in Sets, NEW s \in Sets, NEW O, NEW ud,
           PoolsInv(P, c), OwnersInv(P, O, ud),
           IF free(P[c]) THEN s = c ELSE P[s].node = "none",
           NEW P2, P2 = IF s = c THEN P
                        ELSE [P EXCEPT ![c].disattached = TRUE,
                                       ![c].node = "busy",
                                       ![s] = [FreshPool EXCEPT !.node = "current"]]
    PROVE  PoolsInv(P2, s) /\ OwnersInv(P2, O, ud) /\ free(P2[s])
<1>1. CASE s = c
    BY <1>1 DEF PoolsInv
<1>2. CASE s # c
  <2> DEFINE fresh == [FreshPool EXCEPT !.node = "current"]
             aside == [P[c] EXCEPT !.disattached = TRUE, !.node = "busy"]
  <2>1. /\ ~free(P[c])
        /\ P[s].node = "none"
        /\ P[s] = FreshPool
        /\ PoolOK(P[c])
        /\ P[c] \in Pools
        /\ P \in [Sets -> Pools]
      BY <1>2 DEF PoolsInv, PoolOK
  <2>2. /\ fresh \in Pools
        /\ PoolOK(fresh)
        /\ fresh.node = "current"
        /\ fresh.active = 0
        /\ fresh.free = <<>>
        /\ fresh.index = 0
        /\ ~fresh.disattached
        /\ FreshPool.active = 0
    <3>1. PoolOK(fresh)
        BY FreshPoolOK
    <3> QED
        BY <3>1 DEF FreshPool, PoolOK
  <2>3. /\ aside \in Pools
        /\ aside.node = "busy"
        /\ aside.disattached = TRUE
        /\ aside.index = P[c].index
        /\ aside.free = P[c].free
        /\ aside.active = P[c].active
        /\ aside.data = P[c].data
      BY <2>1 DEF Pools
  <2>4. PoolOK(aside)
      BY <2>1, <2>3 DEF PoolOK
  <2>5. aside.active > 0
      BY <2>1, <2>3, TaskSlotsAssumption DEF PoolOK, Pools, free
  <2>6. /\ P2 \in [Sets -> Pools]
        /\ P2[s] = fresh
        /\ P2[c] = aside
        /\ \A t \in Sets \ {s, c} : P2[t] = P[t]
    <3>1. P2 = [[P EXCEPT ![c] = aside] EXCEPT ![s] = fresh]
        BY <1>2, <2>1
    <3> HIDE DEF aside, fresh
    <3> QED
        BY <1>2, <2>1, <2>2, <2>3, <3>1
  <2> HIDE DEF aside, fresh
  <2>7. PoolsInv(P2, s)
    <3> SUFFICES ASSUME NEW t \in Sets
                 PROVE  /\ PoolOK(P2[t])
                        /\ P2[t].node = "none" => P2[t] = FreshPool
                        /\ P2[t].node = "current" <=> t = s
                        /\ P2[t].node = "current" => ~P2[t].disattached
                        /\ P2[t].node = "busy" => P2[t].active > 0 /\ P2[t].disattached
        BY <2>6 DEF PoolsInv
    <3>1. CASE t = s
        BY <2>2, <2>6, <3>1
    <3>2. CASE t = c
        BY <1>2, <2>3, <2>4, <2>5, <2>6, <3>2
    <3>3. CASE t \notin {s, c}
        BY <2>6, <3>3 DEF PoolsInv
    <3> QED
        BY <3>1, <3>2, <3>3
  <2>8. OwnersInv(P2, O, ud)
    <3>1. ASSUME NEW o \in O
          PROVE  P2[ud[o][1]].node # "none" /\ Holds(P2[ud[o][1]], ud[o][2], o)
      <4>1. /\ ud[o][1] \in Sets
            /\ P[ud[o][1]].node # "none"
            /\ Holds(P[ud[o][1]], ud[o][2], o)
          BY DEF OwnersInv, Tasks
      <4>2. ud[o][1] # s
          BY <2>1, <4>1
      <4>3. CASE ud[o][1] = c
          BY <2>3, <2>6, <4>1, <4>3 DEF Holds
      <4>4. CASE ud[o][1] # c
          BY <2>6, <4>1, <4>2, <4>4
      <4> QED
          BY <4>3, <4>4
    <3>2. ASSUME NEW t \in Sets
          PROVE  P2[t].active = Cardinality(In(O, ud, t))
      <4>1. P[t].active = Cardinality(In(O, ud, t))
          BY DEF OwnersInv
      <4>2. P2[t].active = P[t].active
          BY <1>2, <2>1, <2>2, <2>3, <2>6
      <4> QED
          BY <4>1, <4>2
    <3> QED
        BY <3>1, <3>2 DEF OwnersInv
  <2>9. free(P2[s])
    <3>1. Len(<<>>) = 0
        OBVIOUS
    <3>2. P2[s].index = 0 /\ Len(P2[s].free) = 0
        BY <2>2, <2>6, <3>1, Zenon
    <3>3. 0 - 0 < TotalTasksItems
        BY TaskSlotsAssumption
    <3> QED
        BY <3>2, <3>3, Zenon DEF free
  <2> QED
      BY <2>7, <2>8, <2>9
<1> QED
    BY <1>1, <1>2

(* Queueing gives the operation a slot nobody else owns. *)
LEMMA PushStep ==
    ASSUME NEW P, NEW s \in Sets, NEW O \in SUBSET Ops,
           NEW ud \in [Ops -> Tasks \cup {NoTask}],
           PoolsInv(P, s), OwnersInv(P, O, ud), free(P[s]),
           NEW o \in Ops, o \notin O,
           NEW P2, P2 = [P EXCEPT ![s] = push(P[s], o)],
           NEW ud2, ud2 = [ud EXCEPT ![o] = <<s, SlotFor(P[s])>>]
    PROVE  /\ PoolsInv(P2, s)
           /\ OwnersInv(P2, O \cup {o}, ud2)
           /\ ud2 \in [Ops -> Tasks \cup {NoTask}]
<1>1. /\ P \in [Sets -> Pools]
      /\ PoolOK(P[s])
      /\ P[s].node = "current"
      /\ ~P[s].disattached
    BY DEF PoolsInv
<1>2. PICK q : q = push(P[s], o)
    OBVIOUS
<1>3. PICK i : i = SlotFor(P[s])
    OBVIOUS
<1>4. /\ PoolOK(q)
      /\ q \in Pools
      /\ q.active = P[s].active + 1
      /\ q.node = "current"
      /\ ~q.disattached
      /\ Holds(q, i, o)
      /\ i \in Slots
      /\ \A j, x : Holds(P[s], j, x) => j # i /\ Holds(q, j, x)
  <2>1. /\ PoolOK(push(P[s], o))
        /\ push(P[s], o).active = P[s].active + 1
        /\ push(P[s], o).node = P[s].node
        /\ push(P[s], o).disattached = P[s].disattached
        /\ Holds(push(P[s], o), SlotFor(P[s]), o)
        /\ \A j, x : Holds(P[s], j, x) => j # SlotFor(P[s]) /\ Holds(push(P[s], o), j, x)
      BY <1>1, PushOK
  <2>2. q \in Pools
      BY <1>2, <2>1 DEF PoolOK
  <2>3. i \in Slots
      BY <1>3, <2>1 DEF Holds
  <2> QED
      BY <1>1, <1>2, <1>3, <2>1, <2>2, <2>3
<1>5. /\ P2 \in [Sets -> Pools]
      /\ P2[s] = q
      /\ \A t \in Sets \ {s} : P2[t] = P[t]
    BY <1>1, <1>2, <1>4
<1>6. <<s, i>> \in Tasks
    BY <1>4 DEF Tasks
<1>7. /\ ud2 \in [Ops -> Tasks \cup {NoTask}]
      /\ ud2[o] = <<s, i>>
      /\ \A x \in O : ud2[x] = ud[x]
    BY <1>3, <1>6
<1>8. PoolsInv(P2, s)
  <2> SUFFICES ASSUME NEW t \in Sets
               PROVE  /\ PoolOK(P2[t])
                      /\ P2[t].node = "none" => P2[t] = FreshPool
                      /\ P2[t].node = "current" <=> t = s
                      /\ P2[t].node = "current" => ~P2[t].disattached
                      /\ P2[t].node = "busy" => P2[t].active > 0 /\ P2[t].disattached
      BY <1>5 DEF PoolsInv
  <2>1. CASE t = s
      BY <1>4, <1>5, <2>1
  <2>2. CASE t # s
      BY <1>5, <2>2 DEF PoolsInv
  <2> QED
      BY <2>1, <2>2
<1>9. OwnersInv(P2, O \cup {o}, ud2)
  <2>1. ASSUME NEW x \in O
        PROVE  /\ ud2[x] \in Tasks
               /\ P2[ud2[x][1]].node # "none"
               /\ Holds(P2[ud2[x][1]], ud2[x][2], x)
               /\ ud2[x] # <<s, i>>
    <3>1. /\ ud[x] \in Tasks
          /\ ud[x][1] \in Sets
          /\ P[ud[x][1]].node # "none"
          /\ Holds(P[ud[x][1]], ud[x][2], x)
        BY DEF OwnersInv, Tasks
    <3>2. ud2[x] = ud[x]
        BY <1>7
    <3>3. CASE ud[x][1] = s
      <4>1. ud[x][2] # i /\ Holds(q, ud[x][2], x)
          BY <1>4, <3>1, <3>3
      <4> QED
          BY <1>4, <1>5, <3>1, <3>2, <3>3, <4>1
    <3>4. CASE ud[x][1] # s
        BY <1>5, <3>1, <3>2, <3>4
    <3> QED
        BY <3>3, <3>4
  <2>2. /\ ud2[o] \in Tasks
        /\ P2[ud2[o][1]].node # "none"
        /\ Holds(P2[ud2[o][1]], ud2[o][2], o)
      BY <1>4, <1>5, <1>6, <1>7
  <2>3. ASSUME NEW x \in O \cup {o}, NEW y \in O \cup {o}, ud2[x] = ud2[y]
        PROVE  x = y
      BY <1>7, <2>1, <2>3 DEF OwnersInv
  <2>4. ASSUME NEW t \in Sets
        PROVE  P2[t].active = Cardinality(In(O \cup {o}, ud2, t))
    <3>1. IsFiniteSet(In(O, ud, t)) /\ P[t].active = Cardinality(In(O, ud, t)) /\ o \notin In(O, ud, t)
      <4>1. IsFiniteSet(Ops) /\ In(O, ud, t) \in SUBSET Ops
          BY TaskSlotsAssumption DEF In
      <4>2. IsFiniteSet(In(O, ud, t))
          BY <4>1, FS_Subset, Zenon
      <4> QED
          BY <4>2 DEF OwnersInv, In
    <3>2. CASE t = s
      <4>1. In(O \cup {o}, ud2, t) = In(O, ud, t) \cup {o}
          BY <1>7, <3>2 DEF In
      <4>2. Cardinality(In(O, ud, t) \cup {o}) = Cardinality(In(O, ud, t)) + 1
          BY <3>1, FS_AddElement, Zenon
      <4> QED
          BY <1>4, <1>5, <3>1, <3>2, <4>1, <4>2
    <3>3. CASE t # s
      <4>1. In(O \cup {o}, ud2, t) = In(O, ud, t)
          BY <1>7, <3>3 DEF In
      <4> QED
          BY <1>5, <3>1, <3>3, <4>1
    <3> QED
        BY <3>2, <3>3
  <2> QED
      BY <2>1, <2>2, <2>3, <2>4 DEF OwnersInv
<1> QED
    BY <1>7, <1>8, <1>9

(* Giving a slot back leaves the other owners alone; the last task of a    *)
(* set put aside releases it.                                              *)
LEMMA PopStep ==
    ASSUME NEW P, NEW c \in Sets, NEW O \in SUBSET Ops,
           NEW ud \in [Ops -> Tasks \cup {NoTask}],
           PoolsInv(P, c), OwnersInv(P, O, ud), NEW o \in O,
           NEW P2, P2 = [P EXCEPT ![ud[o][1]] = pop(P[ud[o][1]], ud[o][2])],
           NEW ud2, ud2 = [ud EXCEPT ![o] = NoTask]
    PROVE  /\ PoolsInv(P2, c)
           /\ OwnersInv(P2, O \ {o}, ud2)
           /\ ud2 \in [Ops -> Tasks \cup {NoTask}]
<1>1. PICK s, i : s = ud[o][1] /\ i = ud[o][2]
    OBVIOUS
<1>2. PICK q : q = pop(P[s], i)
    OBVIOUS
<1>3. /\ s \in Sets
      /\ i \in Slots
      /\ ud[o] = <<s, i>>
      /\ P[s].node # "none"
      /\ Holds(P[s], i, o)
      /\ P \in [Sets -> Pools]
      /\ PoolOK(P[s])
      /\ P[s] \in Pools
    BY <1>1 DEF OwnersInv, PoolsInv, Tasks, PoolOK
<1>4. /\ IsFiniteSet(In(O, ud, s))
      /\ Cardinality(In(O, ud, s)) \in Nat
      /\ P[s].active = Cardinality(In(O, ud, s))
      /\ o \in In(O, ud, s)
  <2>1. IsFiniteSet(Ops) /\ In(O, ud, s) \in SUBSET Ops
      BY TaskSlotsAssumption DEF In
  <2>2. IsFiniteSet(In(O, ud, s))
      BY <2>1, FS_Subset, Zenon
  <2>3. Cardinality(In(O, ud, s)) \in Nat
      BY <2>2, FS_CardinalityType, Zenon
  <2>4. o \in In(O, ud, s)
      BY <1>1 DEF In
  <2>5. P[s].active = Cardinality(In(O, ud, s))
      BY <1>3 DEF OwnersInv
  <2> QED
      BY <2>2, <2>3, <2>4, <2>5
<1>5. P[s].active \in Nat /\ P[s].active >= 1
  <2>1. Cardinality(In(O, ud, s)) # 0
      BY <1>4, FS_EmptySet, Zenon
  <2> QED
      BY <1>4, <2>1
(* Everybody else in this set keeps its slot. *)
<1>6. ASSUME NEW x \in O, x # o, ud[x][1] = s
      PROVE  P[s].active > 1 /\ ud[x][2] # i
  <2>1. ud[x] \in Tasks /\ ud[x] # ud[o]
      BY <1>6 DEF OwnersInv
  <2>2. ud[x][2] # i
      BY <1>3, <1>6, <2>1 DEF Tasks
  <2>3. x \in In(O, ud, s)
      BY <1>6 DEF In
  <2>4. Cardinality(In(O, ud, s)) # 1
    <3>1. ASSUME NEW z, In(O, ud, s) = {z}
          PROVE  FALSE
        BY <1>4, <1>6, <2>3, <3>1
    <3> QED
        BY <1>4, <3>1, FS_Singleton, Zenon
  <2> QED
      BY <1>4, <1>5, <2>2, <2>4
<1>7. /\ PoolOK(q)
      /\ q \in Pools
      /\ q.active = P[s].active - 1
      /\ q.node = "none" => q = FreshPool
      /\ q.node # "none" => q.node = P[s].node /\ q.disattached = P[s].disattached
      /\ s = c => q.node # "none"
      /\ q.node = "busy" => q.active > 0
      /\ \A j, y : j # i /\ Holds(P[s], j, y) /\ P[s].active > 1 => q.node # "none" /\ Holds(q, j, y)
  <2>0. /\ P[s].node = "current" <=> s = c
        /\ P[s].node = "current" => ~P[s].disattached
        /\ P[s].node = "busy" => P[s].disattached
        /\ P[s].node \in {"current", "busy"}
        /\ P[s].disattached \in BOOLEAN
      BY <1>3 DEF PoolsInv, Pools
  <2>1. CASE P[s].active > 1
    <3>1. /\ PoolOK(pop(P[s], i))
          /\ pop(P[s], i).active = P[s].active - 1
          /\ pop(P[s], i).node = P[s].node
          /\ pop(P[s], i).disattached = P[s].disattached
          /\ \A j, y : j # i /\ Holds(P[s], j, y) => Holds(pop(P[s], i), j, y)
        BY <1>3, <2>1, PopKeeps
    <3>2. q \in Pools
        BY <1>2, <3>1 DEF PoolOK
    <3>3. q.active > 0
        BY <1>2, <1>5, <2>1, <3>1
    <3> QED
        BY <1>2, <1>3, <3>1, <3>2, <3>3
  <2>2. CASE P[s].active = 1
    <3>1. /\ PoolOK(q)
          /\ q.active = 0
          /\ P[s].disattached => q = FreshPool
          /\ ~P[s].disattached => q.node = P[s].node /\ q.disattached = P[s].disattached
        BY <1>2, <1>3, <2>2, PopLast
    <3>2. q \in Pools
        BY <3>1 DEF PoolOK
    <3>3. FreshPool.node = "none"
        BY DEF FreshPool
    <3>4. q.active = P[s].active - 1
        BY <2>2, <3>1
    <3> QED
        BY <1>5, <2>0, <2>2, <3>1, <3>2, <3>3, <3>4
  <2> QED
      BY <1>5, <2>1, <2>2
<1>8. /\ P2 \in [Sets -> Pools]
      /\ P2[s] = q
      /\ \A t \in Sets \ {s} : P2[t] = P[t]
    BY <1>1, <1>2, <1>3, <1>7
<1>9. /\ ud2 \in [Ops -> Tasks \cup {NoTask}]
      /\ \A x \in O \ {o} : ud2[x] = ud[x]
    OBVIOUS
<1>10. PoolsInv(P2, c)
  <2> SUFFICES ASSUME NEW t \in Sets
               PROVE  /\ PoolOK(P2[t])
                      /\ P2[t].node = "none" => P2[t] = FreshPool
                      /\ P2[t].node = "current" <=> t = c
                      /\ P2[t].node = "current" => ~P2[t].disattached
                      /\ P2[t].node = "busy" => P2[t].active > 0 /\ P2[t].disattached
      BY <1>8 DEF PoolsInv
  <2>1. CASE t = s
      BY <1>3, <1>7, <1>8, <2>1 DEF PoolsInv
  <2>2. CASE t # s
      BY <1>8, <2>2 DEF PoolsInv
  <2> QED
      BY <2>1, <2>2
<1>11. OwnersInv(P2, O \ {o}, ud2)
  <2>1. ASSUME NEW x \in O \ {o}
        PROVE  /\ ud2[x] \in Tasks
               /\ P2[ud2[x][1]].node # "none"
               /\ Holds(P2[ud2[x][1]], ud2[x][2], x)
    <3>1. /\ ud[x] \in Tasks
          /\ ud[x][1] \in Sets
          /\ P[ud[x][1]].node # "none"
          /\ Holds(P[ud[x][1]], ud[x][2], x)
          /\ ud2[x] = ud[x]
        BY <1>9 DEF OwnersInv, Tasks
    <3>2. CASE ud[x][1] = s
      <4>1. P[s].active > 1 /\ ud[x][2] # i
          BY <1>6, <3>2
      <4> QED
          BY <1>7, <1>8, <3>1, <3>2, <4>1
    <3>3. CASE ud[x][1] # s
        BY <1>8, <3>1, <3>3
    <3> QED
        BY <3>2, <3>3
  <2>2. \A x, y \in O \ {o} : ud2[x] = ud2[y] => x = y
      BY <1>9 DEF OwnersInv
  <2>3. ASSUME NEW t \in Sets
        PROVE  P2[t].active = Cardinality(In(O \ {o}, ud2, t))
    <3>1. CASE t = s
      <4>1. In(O \ {o}, ud2, t) = In(O, ud, t) \ {o}
          BY <1>9 DEF In
      <4>2. Cardinality(In(O, ud, s) \ {o}) = Cardinality(In(O, ud, s)) - 1
          BY <1>4, FS_RemoveElement, Zenon
      <4> QED
          BY <1>4, <1>7, <1>8, <3>1, <4>1, <4>2
    <3>2. CASE t # s
      <4>1. In(O \ {o}, ud2, t) = In(O, ud, t)
          BY <1>1, <1>9, <3>2 DEF In
      <4> QED
          BY <1>8, <3>2, <4>1 DEF OwnersInv
    <3> QED
        BY <3>1, <3>2
  <2> QED
      BY <2>1, <2>2, <2>3 DEF OwnersInv
<1> QED
    BY <1>9, <1>10, <1>11

-----------------------------------------------------------------------------
(***************************************************************************)
(* The submission queues.  q stands for sq or submitted, st for stage.     *)
(***************************************************************************)

(* Every operation in a queue is staged, and is there once. *)
StagedIn(q, st) ==
    /\ \A k \in 1 .. Len(q) : q[k].kind = "op" => st[q[k].op] = "staged"
    /\ \A j, k \in 1 .. Len(q) :
        q[j].kind = "op" /\ q[k].kind = "op" /\ q[j].op = q[k].op => j = k

(* An empty queue is in order.                                             *)
LEMMA StagedEmpty ==
    ASSUME NEW st PROVE StagedIn(<<>>, st)
BY DEF StagedIn

(* A step that unstages nothing keeps a queue in order.                    *)
LEMMA StagedMono ==
    ASSUME NEW q \in Seq(SQEs), NEW st, NEW st2, StagedIn(q, st),
           \A x \in Ops : st[x] = "staged" => st2[x] = "staged"
    PROVE  StagedIn(q, st2)
<1>1. \A x \in SQEs : x.op \in Ops
    BY DEF SQEs
<1>2. \A k \in 1 .. Len(q) : q[k] \in SQEs
    OBVIOUS
<1> QED
    BY <1>1, <1>2 DEF StagedIn

(* The SQEs of an idle operation are added. *)
LEMMA StagedQueue ==
    ASSUME NEW q \in Seq(SQEs), NEW st \in [Ops -> Stages], StagedIn(q, st),
           NEW o \in Ops, st[o] = "idle",
           NEW st2, st2 = [st EXCEPT ![o] = "staged"]
    PROVE  q \o Entries(o) \in Seq(SQEs) /\ StagedIn(q \o Entries(o), st2)
<1>1. PICK e : e = SQE("op", o, NoTask)
    OBVIOUS
<1>2. PICK l : l = SQE("link", o, NoTask)
    OBVIOUS
<1>3. /\ e \in SQEs /\ e.kind = "op" /\ e.op = o
      /\ l \in SQEs /\ l.kind = "link"
    BY <1>1, <1>2 DEF SQE, SQEs
<1>4. Entries(o) = <<e, l>> \/ Entries(o) = <<e>>
    BY <1>1, <1>2 DEF Entries
<1>5. PICK r : r = q \o Entries(o)
    OBVIOUS
<1>6. /\ r \in Seq(SQEs)
      /\ Len(q) \in Nat
      /\ \A k \in 1 .. Len(q) : r[k] = q[k]
      /\ r[Len(q) + 1] = e
      /\ \A k \in 1 .. Len(r) : \/ k \in 1 .. Len(q)
                                \/ k = Len(q) + 1
                                \/ (k = Len(q) + 2 /\ r[k] = l)
  <2>1. PICK t : t = Entries(o)
      OBVIOUS
  <2>2. /\ t \in Seq(SQEs)
        /\ t[1] = e
        /\ Len(t) = 1 \/ (Len(t) = 2 /\ t[2] = l)
    <3>1. CASE t = <<e, l>>
        BY <1>3, <3>1
    <3>2. CASE t = <<e>>
        BY <1>3, <3>2
    <3> QED
        BY <1>4, <2>1, <3>1, <3>2
  <2>3. r = q \o t
      BY <1>5, <2>1
  <2>4. r \in Seq(SQEs) /\ Len(q) \in Nat /\ Len(r) = Len(q) + Len(t)
      BY <2>2, <2>3
  <2>5. \A k \in 1 .. Len(q) : r[k] = q[k]
      BY <2>2, <2>3
  <2>6. r[Len(q) + 1] = e
      BY <2>2, <2>3
  <2>7. ASSUME Len(t) = 2
        PROVE  r[Len(q) + 2] = l
    <3>1. t[2] = l
        BY <2>2, <2>7
    <3>2. \A k \in 1 .. Len(t) : r[Len(q) + k] = t[k]
        BY <2>2, <2>3
    <3>3. 2 \in 1 .. Len(t)
        BY <2>7
    <3> QED
        BY <3>1, <3>2, <3>3
  <2>8. ASSUME NEW k \in 1 .. Len(r)
        PROVE  \/ k \in 1 .. Len(q)
               \/ k = Len(q) + 1
               \/ (k = Len(q) + 2 /\ r[k] = l)
    <3>1. CASE Len(t) = 1
        BY <2>4, <3>1
    <3>2. CASE Len(t) = 2
        BY <2>4, <2>7, <3>2
    <3> QED
        BY <2>2, <3>1, <3>2
  <2> QED
      BY <2>4, <2>5, <2>6, <2>8
<1>7. \A k \in 1 .. Len(q) : q[k].kind = "op" => st[q[k].op] = "staged" /\ q[k].op # o
    BY DEF StagedIn
<1>8. \A k \in 1 .. Len(q) : q[k] \in SQEs /\ q[k].op \in Ops
  <2>1. \A x \in SQEs : x.op \in Ops
      BY DEF SQEs
  <2> QED
      BY <2>1
<1>9. \A k \in 1 .. Len(r) : r[k].kind = "op" => st2[r[k].op] = "staged"
    BY <1>3, <1>6, <1>7, <1>8
<1>10. \A j, k \in 1 .. Len(r) : r[j].kind = "op" /\ r[k].kind = "op" /\ r[j].op = r[k].op => j = k
    BY <1>3, <1>6, <1>7 DEF StagedIn
<1> QED
    BY <1>5, <1>6, <1>9, <1>10 DEF StagedIn

(* A cancel is added. *)
LEMMA StagedCancel ==
    ASSUME NEW q \in Seq(SQEs), NEW st, StagedIn(q, st),
           NEW e \in SQEs, e.kind = "cancel"
    PROVE  Append(q, e) \in Seq(SQEs) /\ StagedIn(Append(q, e), st)
<1>1. PICK r : r = Append(q, e)
    OBVIOUS
<1>2. /\ r \in Seq(SQEs)
      /\ \A k \in 1 .. Len(r) : (k \in 1 .. Len(q) /\ r[k] = q[k]) \/ r[k] = e
    BY <1>1
<1> QED
    BY <1>1, <1>2 DEF StagedIn

(* The first SQE is taken; if it starts an operation, that one is no       *)
(* longer staged and no other SQE names it.                                *)
LEMMA StagedStart ==
    ASSUME NEW q \in Seq(SQEs), q # <<>>, NEW st, StagedIn(q, st), NEW st2,
           \A x \in Ops : st[x] = "staged" /\ ~(Head(q).kind = "op" /\ x = Head(q).op)
                            => st2[x] = "staged"
    PROVE  /\ Head(q) \in SQEs
           /\ Tail(q) \in Seq(SQEs)
           /\ StagedIn(Tail(q), st2)
           /\ Head(q).kind = "op" => st[Head(q).op] = "staged"
<1>1. PICK h, r : h = Head(q) /\ r = Tail(q)
    OBVIOUS
<1>2. /\ h = q[1]
      /\ 1 \in 1 .. Len(q)
      /\ h \in SQEs
      /\ r \in Seq(SQEs)
      /\ \A k \in 1 .. Len(r) : r[k] = q[k + 1] /\ k + 1 \in 1 .. Len(q) /\ k + 1 # 1
      /\ \A k \in 1 .. Len(r) : r[k].op \in Ops
  <2>1. \A x \in SQEs : x.op \in Ops
      BY DEF SQEs
  <2> QED
      BY <1>1, <2>1
<1>3. \A k \in 1 .. Len(r) : r[k].kind = "op" => st2[r[k].op] = "staged"
    BY <1>1, <1>2 DEF StagedIn
<1>4. \A j, k \in 1 .. Len(r) : r[j].kind = "op" /\ r[k].kind = "op" /\ r[j].op = r[k].op => j = k
  <2> SUFFICES ASSUME NEW j \in 1 .. Len(r), NEW k \in 1 .. Len(r),
                      r[j].kind = "op", r[k].kind = "op", r[j].op = r[k].op
               PROVE  j = k
      OBVIOUS
  <2>1. j + 1 = k + 1
      BY <1>2 DEF StagedIn
  <2> QED
      BY <2>1
<1> QED
    BY <1>1, <1>2, <1>3, <1>4 DEF StagedIn

-----------------------------------------------------------------------------
(***************************************************************************)
(* The inductive invariant.                                                *)
(***************************************************************************)

(* While the ring is open the sets are in order, every operation that owns *)
(* a slot finds itself there, and the counter is exact.                    *)
SlotsInv ==
    /\ PoolsInv(pool, set)
    /\ OwnersInv(pool, Outstanding, user_data)
    /\ reserved_slots = Cardinality(Outstanding)

(* Afterwards all memory is gone and nobody owns a slot. *)
ClosedInv ==
    /\ Outstanding = {}
    /\ pool = [s \in Sets |-> FreshPool]

(* The queue that is filled and the one the kernel works off. *)
QueuesInv ==
    /\ StagedIn(sq, stage)
    /\ StagedIn(submitted, stage)
    /\ submitted # <<>> => sq = <<>>

IInv ==
    /\ TypeOK
    /\ QueuesInv
    /\ ring_open => SlotsInv
    /\ ~ring_open => ClosedInv

(* Finitely many operations own a slot.                                    *)
LEMMA OutstandingFinite ==
    /\ Outstanding \in SUBSET Ops
    /\ IsFiniteSet(Outstanding)
    /\ Cardinality(Outstanding) \in Nat
<1>1. Outstanding \in SUBSET Ops /\ IsFiniteSet(Ops)
    BY TaskSlotsAssumption DEF Outstanding
<1>2. IsFiniteSet(Outstanding)
    BY <1>1, FS_Subset, Zenon
<1>3. Cardinality(Outstanding) \in Nat
    BY <1>2, FS_CardinalityType, Zenon
<1> QED
    BY <1>1, <1>2, <1>3

(* The type of the sets, in short. *)
LEMMA PoolType ==
    /\ TypeOK => pool \in [Sets -> Pools]
    /\ pool' \in [Sets -> Pools] => pool' \in [Sets -> [node : {"none", "current", "busy"},
                                                       index : 0 .. TotalTasksItems,
                                                       free : Seq(Slots),
                                                       active : 0 .. TotalTasksItems,
                                                       disattached : BOOLEAN,
                                                       data : [Slots -> Ops \cup {NoOp}]]]
BY DEF TypeOK, Pools

(* IO.init establishes the invariant.                                      *)
LEMMA InitInv == Init => IInv
<1> SUFFICES ASSUME Init
             PROVE  IInv
    OBVIOUS
<1>1. PICK s \in Sets : /\ set = s
                        /\ pool = [t \in Sets |-> IF t = s
                                                  THEN [FreshPool EXCEPT !.node = "current"]
                                                  ELSE FreshPool]
    BY DEF Init
<1> DEFINE fresh == [FreshPool EXCEPT !.node = "current"]
<1>2. /\ fresh \in Pools /\ PoolOK(fresh) /\ fresh.node = "current"
      /\ fresh.active = 0 /\ ~fresh.disattached
      /\ FreshPool \in Pools /\ PoolOK(FreshPool) /\ FreshPool.node = "none" /\ FreshPool.active = 0
  <2>1. PoolOK(fresh) /\ PoolOK(FreshPool) /\ FreshPool \in Pools
      BY FreshPoolOK
  <2> QED
      BY <2>1 DEF FreshPool, PoolOK
<1> HIDE DEF fresh
<1>3. /\ pool \in [Sets -> Pools]
      /\ pool[s] = fresh
      /\ \A t \in Sets \ {s} : pool[t] = FreshPool
    BY <1>1, <1>2 DEF fresh
<1>4. Outstanding = {}
    BY DEF Init, Outstanding, Owning
<1>5. PoolsInv(pool, set)
    BY <1>1, <1>2, <1>3 DEF PoolsInv
<1>6. OwnersInv(pool, Outstanding, user_data)
  <2>1. \A t : In(Outstanding, user_data, t) = {}
      BY <1>4 DEF In
  <2>2. Cardinality({}) = 0
      BY FS_EmptySet, Zenon
  <2>3. \A t \in Sets : pool[t].active = 0
      BY <1>2, <1>3
  <2> QED
      BY <1>4, <2>1, <2>2, <2>3 DEF OwnersInv
<1>7. reserved_slots = Cardinality(Outstanding)
  <2>1. Cardinality({}) = 0
      BY FS_EmptySet, Zenon
  <2> QED
      BY <1>4, <2>1 DEF Init
<1>8. QueuesInv
    BY StagedEmpty DEF Init, QueuesInv
<1>9. TypeOK
  <2>1. pool \in [Sets -> [node : {"none", "current", "busy"},
                           index : 0 .. TotalTasksItems,
                           free : Seq(Slots),
                           active : 0 .. TotalTasksItems,
                           disattached : BOOLEAN,
                           data : [Slots -> Ops \cup {NoOp}]]]
      BY <1>3 DEF Pools
  <2>2. /\ set \in Sets
        /\ sq \in Seq(SQEs)
        /\ submitted \in Seq(SQEs)
        /\ reserved_slots \in Int
        /\ stage \in [Ops -> Stages]
        /\ user_data \in [Ops -> Tasks \cup {NoTask}]
        /\ blocking_task_id \in [Ops -> Tasks \cup {NoTask}]
        /\ cancelled \subseteq Ops
        /\ refused \subseteq Ops
        /\ misfired \subseteq Ops
        /\ ring_open \in BOOLEAN
      BY <1>1 DEF Init, Stages
  <2> QED
      BY <2>1, <2>2 DEF TypeOK
<1>10. ring_open
    BY DEF Init
<1> QED
    BY <1>5, <1>6, <1>7, <1>8, <1>9, <1>10 DEF IInv, SlotsInv

(* A step that gives out and gives back no slot. *)
LEMMA SameSlots ==
    ASSUME IInv, pool' = pool, set' = set, reserved_slots' = reserved_slots,
           user_data' = user_data, ring_open' = ring_open, Outstanding' = Outstanding
    PROVE  /\ (ring_open => SlotsInv)'
           /\ (~ring_open => ClosedInv)'
BY DEF IInv, SlotsInv, ClosedInv

(* A completion appears in the CQ: the slot stays owned until harvest.     *)
LEMMA CompleteStep ==
    ASSUME IInv, NEW o \in Ops, KernelComplete(o)
    PROVE  IInv'
<1>1. TypeOK /\ QueuesInv
    BY DEF IInv
<1>2. TypeOK'
    BY <1>1 DEF KernelComplete, TypeOK, Stages
<1>3. Outstanding' = Outstanding
    BY <1>1 DEF KernelComplete, Outstanding, Owning, TypeOK
<1>4. \A x \in Ops : stage[x] = "staged" => stage'[x] = "staged"
    BY <1>1 DEF KernelComplete, TypeOK
<1>5. QueuesInv'
  <2>1. StagedIn(sq, stage') /\ StagedIn(submitted, stage')
      BY <1>1, <1>4, StagedMono DEF QueuesInv, TypeOK
  <2> QED
      BY <1>1, <2>1 DEF QueuesInv, KernelComplete
<1>6. (ring_open => SlotsInv)' /\ (~ring_open => ClosedInv)'
    BY <1>3, SameSlots DEF KernelComplete
<1> QED
    BY <1>2, <1>5, <1>6 DEF IInv

(* A callback runs: its slot was given back before.                        *)
LEMMA RunStep ==
    ASSUME IInv, NEW o \in Ops, run_callback(o)
    PROVE  IInv'
<1>1. TypeOK /\ QueuesInv
    BY DEF IInv
<1>2. TypeOK'
    BY <1>1 DEF run_callback, TypeOK, Stages
<1>3. Outstanding' = Outstanding
    BY <1>1 DEF run_callback, Outstanding, Owning, TypeOK
<1>4. \A x \in Ops : stage[x] = "staged" => stage'[x] = "staged"
    BY <1>1 DEF run_callback, TypeOK
<1>5. QueuesInv'
  <2>1. StagedIn(sq, stage') /\ StagedIn(submitted, stage')
      BY <1>1, <1>4, StagedMono DEF QueuesInv, TypeOK
  <2> QED
      BY <1>1, <2>1 DEF QueuesInv, run_callback
<1>6. (ring_open => SlotsInv)' /\ (~ring_open => ClosedInv)'
    BY <1>3, SameSlots DEF run_callback
<1> QED
    BY <1>2, <1>5, <1>6 DEF IInv

(* io_uring_enter takes over what was staged.                              *)
LEMMA FlushStep ==
    ASSUME IInv, flush_pending_sqes
    PROVE  IInv'
<1>1. TypeOK /\ QueuesInv
    BY DEF IInv
<1>2. TypeOK'
    BY <1>1 DEF flush_pending_sqes, Flush, TypeOK
<1>3. Outstanding' = Outstanding
    BY DEF flush_pending_sqes, Outstanding
<1>4. QueuesInv'
    BY <1>1, StagedEmpty DEF QueuesInv, flush_pending_sqes, Flush
<1>5. (ring_open => SlotsInv)' /\ (~ring_open => ClosedInv)'
    BY <1>3, SameSlots DEF flush_pending_sqes
<1> QED
    BY <1>2, <1>4, <1>5 DEF IInv

(* The kernel starts an operation: it stays an owner.                      *)
LEMMA StartStep ==
    ASSUME IInv, KernelStart
    PROVE  IInv'
<1>1. TypeOK /\ QueuesInv
    BY DEF IInv
<1>2. /\ submitted \in Seq(SQEs)
      /\ submitted # <<>>
      /\ stage \in [Ops -> Stages]
      /\ StagedIn(submitted, stage)
      /\ sq = <<>>
    BY <1>1 DEF TypeOK, QueuesInv, KernelStart
<1>3. PICK h : h = Head(submitted)
    OBVIOUS
<1>4. /\ submitted' = Tail(submitted)
      /\ stage' = [stage EXCEPT ![h.op] = IF h.kind = "op" THEN "inflight" ELSE @]
    BY <1>3 DEF KernelStart
<1>5. \A x \in Ops : stage[x] = "staged" /\ ~(h.kind = "op" /\ x = h.op) => stage'[x] = "staged"
    BY <1>2, <1>4
<1>6. /\ h \in SQEs
      /\ Tail(submitted) \in Seq(SQEs)
      /\ StagedIn(Tail(submitted), stage')
      /\ h.kind = "op" => stage[h.op] = "staged"
    BY <1>2, <1>3, <1>5, StagedStart
<1>7. h.op \in Ops
    BY <1>6 DEF SQEs
<1>8. stage' \in [Ops -> Stages]
    BY <1>2, <1>4, <1>7 DEF Stages
<1>9. Outstanding' = Outstanding
    BY <1>2, <1>4, <1>6, <1>7 DEF Outstanding, Owning
<1>10. TypeOK'
    BY <1>1, <1>4, <1>6, <1>8 DEF KernelStart, TypeOK
<1>11. QueuesInv'
  <2>1. sq' = <<>>
      BY <1>2 DEF KernelStart
  <2> QED
      BY <1>4, <1>6, <2>1, StagedEmpty DEF QueuesInv
<1>12. (ring_open => SlotsInv)' /\ (~ring_open => ClosedInv)'
    BY <1>9, SameSlots DEF KernelStart
<1> QED
    BY <1>10, <1>11, <1>12 DEF IInv

(* The kernel cancels an operation: it stays an owner until harvest.       *)
LEMMA KernelCancelStep ==
    ASSUME IInv, KernelCancel
    PROVE  IInv'
<1>1. TypeOK /\ QueuesInv
    BY DEF IInv
<1>2. /\ submitted \in Seq(SQEs)
      /\ submitted # <<>>
      /\ stage \in [Ops -> Stages]
      /\ StagedIn(submitted, stage)
      /\ sq = <<>>
    BY <1>1 DEF TypeOK, QueuesInv, KernelCancel
<1>3. PICK hit : /\ hit = {o \in Ops : stage[o] = "inflight" /\ user_data[o] = Head(submitted).id}
                 /\ stage' = [o \in Ops |-> IF o \in hit THEN "cq" ELSE stage[o]]
                 /\ misfired' = misfired \cup (hit \ {Head(submitted).op})
    BY DEF KernelCancel
<1>4. \A x \in Ops : stage[x] = "staged" => stage'[x] = "staged"
    BY <1>2, <1>3
<1>5. Tail(submitted) \in Seq(SQEs) /\ StagedIn(Tail(submitted), stage')
    BY <1>2, <1>4, StagedStart
<1>6. stage' \in [Ops -> Stages] /\ misfired' \subseteq Ops
    BY <1>1, <1>2, <1>3 DEF Stages, TypeOK
<1>7. Outstanding' = Outstanding
    BY <1>2, <1>3 DEF Outstanding, Owning
<1>8. TypeOK'
    BY <1>1, <1>5, <1>6 DEF KernelCancel, TypeOK
<1>9. QueuesInv'
  <2>1. sq' = <<>> /\ submitted' = Tail(submitted)
      BY <1>2 DEF KernelCancel
  <2> QED
      BY <1>5, <2>1, StagedEmpty DEF QueuesInv
<1>10. (ring_open => SlotsInv)' /\ (~ring_open => ClosedInv)'
    BY <1>7, SameSlots DEF KernelCancel
<1> QED
    BY <1>8, <1>9, <1>10 DEF IInv

(* IO.deinit releases all sets and settles all owners.                     *)
LEMMA DeinitStep ==
    ASSUME IInv, deinit
    PROVE  IInv'
<1>1. TypeOK /\ QueuesInv
    BY DEF IInv
<1>2. Outstanding' = {}
    BY DEF deinit, Outstanding, Owning, Callbacks
<1>3. Cardinality(Callbacks) \in Nat
  <2>1. Callbacks \in SUBSET Ops /\ IsFiniteSet(Ops)
      BY TaskSlotsAssumption DEF Callbacks
  <2>2. IsFiniteSet(Callbacks)
      BY <2>1, FS_Subset, Zenon
  <2> QED
      BY <2>2, FS_CardinalityType, Zenon
<1>4. stage' \in [Ops -> Stages]
    BY <1>1 DEF deinit, TypeOK, Stages
<1>5. pool' \in [Sets -> Pools]
    BY FreshPoolOK DEF deinit
<1>6. TypeOK'
  <2>1. reserved_slots' \in Int
      BY <1>1, <1>3 DEF deinit, TypeOK
  <2>2. /\ set' \in Sets
        /\ blocking_task_id' \in [Ops -> Tasks \cup {NoTask}]
        /\ cancelled' \subseteq Ops
        /\ refused' \subseteq Ops
        /\ misfired' \subseteq Ops
      BY <1>1 DEF deinit, TypeOK
  <2>3. user_data' \in [Ops -> Tasks \cup {NoTask}]
      BY DEF deinit
  <2>4. sq' \in Seq(SQEs) /\ submitted' \in Seq(SQEs)
      BY DEF deinit
  <2>5. ring_open' \in BOOLEAN
      BY DEF deinit
  <2> QED
      BY <1>4, <1>5, <2>1, <2>2, <2>3, <2>4, <2>5, PoolType DEF TypeOK
<1>7. QueuesInv'
  <2>1. sq' = <<>> /\ submitted' = <<>>
      BY DEF deinit
  <2> QED
      BY <2>1, StagedEmpty DEF QueuesInv
<1>8. ~ring_open' /\ pool' = [s \in Sets |-> FreshPool]
    BY DEF deinit
<1> QED
    BY <1>2, <1>6, <1>7, <1>8 DEF IInv, ClosedInv

(* fetch_completed_tasks gives back one slot and one reservation.          *)
LEMMA FetchStep ==
    ASSUME IInv, NEW o \in Ops, fetch_completed_task(o)
    PROVE  IInv'
<1>1. TypeOK /\ QueuesInv
    BY DEF IInv
<1>2. /\ stage[o] = "cq"
      /\ stage \in [Ops -> Stages]
      /\ stage' = [stage EXCEPT ![o] = IF o \in Bare THEN "idle" ELSE "ready"]
      /\ pool' = [pool EXCEPT ![user_data[o][1]] = pop(pool[user_data[o][1]], user_data[o][2])]
      /\ user_data' = [user_data EXCEPT ![o] = NoTask]
      /\ set' = set
      /\ ring_open /\ ring_open'
      /\ reserved_slots' = reserved_slots - 1
    BY <1>1 DEF fetch_completed_task, Harvest, Ready, TypeOK
<1>3. SlotsInv
    BY <1>2 DEF IInv
<1>4. /\ o \in Outstanding
      /\ Outstanding' = Outstanding \ {o}
    BY <1>2 DEF Outstanding, Owning
<1>5. /\ PoolsInv(pool', set)
      /\ OwnersInv(pool', Outstanding \ {o}, user_data')
      /\ user_data' \in [Ops -> Tasks \cup {NoTask}]
  <2>1. /\ set \in Sets
        /\ user_data \in [Ops -> Tasks \cup {NoTask}]
        /\ PoolsInv(pool, set)
        /\ OwnersInv(pool, Outstanding, user_data)
      BY <1>1, <1>3 DEF TypeOK, SlotsInv
  <2>2. Outstanding \in SUBSET Ops /\ o \in Outstanding
      BY <1>4, OutstandingFinite
  <2>3. \A P2, ud2 :
            /\ P2 = [pool EXCEPT ![user_data[o][1]] = pop(pool[user_data[o][1]], user_data[o][2])]
            /\ ud2 = [user_data EXCEPT ![o] = NoTask]
            => /\ PoolsInv(P2, set)
               /\ OwnersInv(P2, Outstanding \ {o}, ud2)
               /\ ud2 \in [Ops -> Tasks \cup {NoTask}]
      BY <2>1, <2>2, PopStep
  <2> QED
      BY <1>2, <2>3, Zenon
<1>6. reserved_slots' = Cardinality(Outstanding')
  <2>1. Cardinality(Outstanding \ {o}) = Cardinality(Outstanding) - 1
      BY <1>4, OutstandingFinite, FS_RemoveElement, Zenon
  <2> QED
      BY <1>2, <1>3, <1>4, <2>1 DEF SlotsInv
<1>7. SlotsInv'
    BY <1>2, <1>4, <1>5, <1>6 DEF SlotsInv
<1>8. QueuesInv'
  <2>1. \A x \in Ops : stage[x] = "staged" => stage'[x] = "staged"
      BY <1>2
  <2>2. StagedIn(sq, stage') /\ StagedIn(submitted, stage')
      BY <1>1, <2>1, StagedMono DEF QueuesInv, TypeOK
  <2> QED
      BY <1>1, <2>2 DEF QueuesInv, fetch_completed_task, Harvest
<1>9. TypeOK'
  <2>1. pool' \in [Sets -> Pools]
      BY <1>5 DEF PoolsInv
  <2>2. stage' \in [Ops -> Stages]
      BY <1>2 DEF Stages
  <2>3. reserved_slots' \in Int
      BY <1>1, <1>2 DEF TypeOK
  <2>4. blocking_task_id' \in [Ops -> Tasks \cup {NoTask}] /\ cancelled' \subseteq Ops
      BY <1>1 DEF fetch_completed_task, TypeOK
  <2>5. /\ set' \in Sets
        /\ sq' \in Seq(SQEs)
        /\ submitted' \in Seq(SQEs)
        /\ refused' \subseteq Ops
        /\ misfired' \subseteq Ops
        /\ ring_open' \in BOOLEAN
      BY <1>1 DEF fetch_completed_task, Harvest, TypeOK
  <2> QED
      BY <1>5, <2>1, <2>2, <2>3, <2>4, <2>5, PoolType DEF TypeOK
<1> QED
    BY <1>2, <1>7, <1>8, <1>9 DEF IInv

(* What get_blocking_tasks_set leaves behind, in the state it is called in. *)
LEMMA SwitchInv ==
    ASSUME IInv, ring_open, NEW s \in Sets, get_blocking_tasks_set(s)
    PROVE  /\ PoolsInv(PoolsWith(s), s)
           /\ OwnersInv(PoolsWith(s), Outstanding, user_data)
           /\ free(PoolsWith(s)[s])
<1>1. /\ set \in Sets
      /\ PoolsInv(pool, set)
      /\ OwnersInv(pool, Outstanding, user_data)
    BY DEF IInv, TypeOK, SlotsInv
<1>2. IF free(pool[set]) THEN s = set ELSE pool[s].node = "none"
    BY DEF get_blocking_tasks_set
<1>3. \A P2 : P2 = (IF s = set THEN pool
                    ELSE [pool EXCEPT ![set].disattached = TRUE,
                                      ![set].node = "busy",
                                      ![s] = [FreshPool EXCEPT !.node = "current"]])
              => PoolsInv(P2, s) /\ OwnersInv(P2, Outstanding, user_data) /\ free(P2[s])
    BY <1>1, <1>2, SwitchOK
<1> QED
    BY <1>3, Zenon DEF PoolsWith

(* A cancel may put a full set aside, and takes no slot.                   *)
LEMMA CancelStep ==
    ASSUME IInv, NEW o \in Ops, cancel(o)
    PROVE  IInv'
<1>1. TypeOK /\ QueuesInv
    BY DEF IInv
<1>2. PICK s \in Sets : get_blocking_tasks_set(s) /\ set' = s /\ pool' = PoolsWith(s)
    BY DEF cancel
<1>3. /\ ring_open /\ ring_open'
      /\ submitted = <<>>
      /\ stage' = stage
      /\ user_data' = user_data
      /\ reserved_slots' = reserved_slots
    BY DEF cancel, Ready
<1>4. Outstanding' = Outstanding
    BY <1>3 DEF Outstanding
<1>5. PoolsInv(pool', set') /\ OwnersInv(pool', Outstanding, user_data)
    BY <1>2, <1>3, SwitchInv, Zenon
<1>6. SlotsInv'
    BY <1>3, <1>4, <1>5 DEF IInv, SlotsInv
<1>7. PICK e : e = SQE("cancel", o, blocking_task_id[o])
    OBVIOUS
<1>8. e \in SQEs /\ e.kind = "cancel"
    BY <1>1, <1>7 DEF SQE, SQEs, TypeOK
<1>9. Append(sq, e) \in Seq(SQEs) /\ StagedIn(Append(sq, e), stage)
    BY <1>1, <1>8, StagedCancel DEF TypeOK, QueuesInv
<1>10. \/ sq' = <<>> /\ submitted' = Append(sq, e)
       \/ sq' = Append(sq, e) /\ submitted' = submitted
       \/ sq' = sq /\ submitted' = submitted
    BY <1>7 DEF cancel, Flush
<1>11. QueuesInv'
    BY <1>1, <1>3, <1>9, <1>10, StagedEmpty DEF QueuesInv
<1>12. TypeOK'
  <2>1. pool' \in [Sets -> Pools]
      BY <1>5 DEF PoolsInv
  <2>2. sq' \in Seq(SQEs) /\ submitted' \in Seq(SQEs)
    <3>1. <<>> \in Seq(SQEs) /\ sq \in Seq(SQEs) /\ submitted \in Seq(SQEs)
        BY <1>1 DEF TypeOK
    <3> QED
        BY <1>9, <1>10, <3>1, Zenon
  <2>3. /\ set' \in Sets
        /\ reserved_slots' \in Int
        /\ stage' \in [Ops -> Stages]
        /\ user_data' \in [Ops -> Tasks \cup {NoTask}]
        /\ blocking_task_id' \in [Ops -> Tasks \cup {NoTask}]
        /\ cancelled' \subseteq Ops
        /\ refused' \subseteq Ops
        /\ misfired' \subseteq Ops
        /\ ring_open' \in BOOLEAN
      BY <1>1, <1>2 DEF cancel, TypeOK
  <2> QED
      BY <2>1, <2>2, <2>3, PoolType DEF TypeOK
<1> QED
    BY <1>3, <1>6, <1>11, <1>12 DEF IInv

(* queue_unlocked takes one slot and one reservation, refused or not.      *)
LEMMA QueueStep ==
    ASSUME IInv, NEW o \in Ops, queue(o)
    PROVE  IInv'
<1>1. TypeOK /\ QueuesInv
    BY DEF IInv
<1>2. PICK s \in Sets :
        /\ get_blocking_tasks_set(s)
        /\ set' = s
        /\ pool' = [PoolsWith(s) EXCEPT ![s] = push(PoolsWith(s)[s], o)]
        /\ user_data' = [user_data EXCEPT ![o] = <<s, SlotFor(PoolsWith(s)[s])>>]
    BY DEF queue
<1>3. /\ ring_open /\ ring_open'
      /\ submitted = <<>>
      /\ stage[o] = "idle"
      /\ stage \in [Ops -> Stages]
      /\ stage' = [stage EXCEPT ![o] = "staged"]
      /\ reserved_slots' = reserved_slots + 1
    BY <1>1 DEF queue, Ready, TypeOK
<1>4. o \notin Outstanding /\ Outstanding' = Outstanding \cup {o}
    BY <1>3 DEF Outstanding, Owning
<1>5. /\ PoolsInv(pool', s)
      /\ OwnersInv(pool', Outstanding \cup {o}, user_data')
      /\ user_data' \in [Ops -> Tasks \cup {NoTask}]
  <2>1. /\ PoolsInv(PoolsWith(s), s)
        /\ OwnersInv(PoolsWith(s), Outstanding, user_data)
        /\ free(PoolsWith(s)[s])
      BY <1>2, <1>3, SwitchInv
  <2>2. /\ Outstanding \in SUBSET Ops
        /\ user_data \in [Ops -> Tasks \cup {NoTask}]
      BY <1>1, OutstandingFinite DEF TypeOK
  <2>3. \A P, P2, ud2 :
            /\ P = PoolsWith(s)
            /\ P2 = [P EXCEPT ![s] = push(P[s], o)]
            /\ ud2 = [user_data EXCEPT ![o] = <<s, SlotFor(P[s])>>]
            => /\ PoolsInv(P2, s)
               /\ OwnersInv(P2, Outstanding \cup {o}, ud2)
               /\ ud2 \in [Ops -> Tasks \cup {NoTask}]
      BY <1>4, <2>1, <2>2, PushStep
  <2> QED
      BY <1>2, <2>3, Zenon
<1>6. reserved_slots' = Cardinality(Outstanding')
  <2>1. Cardinality(Outstanding \cup {o}) = Cardinality(Outstanding) + 1
      BY <1>4, OutstandingFinite, FS_AddElement, Zenon
  <2> QED
      BY <1>3, <1>4, <2>1 DEF IInv, SlotsInv
<1>7. SlotsInv'
    BY <1>2, <1>4, <1>5, <1>6 DEF SlotsInv
<1>8. PICK q : q = sq \o Entries(o)
    OBVIOUS
<1>9. q \in Seq(SQEs) /\ StagedIn(q, stage')
    BY <1>1, <1>3, <1>8, StagedQueue DEF TypeOK, QueuesInv
<1>10. \/ sq' = q /\ submitted' = submitted
       \/ sq' = <<>> /\ submitted' = q
    BY <1>8 DEF queue, Flush
<1>11. QueuesInv'
    BY <1>3, <1>9, <1>10, StagedEmpty DEF QueuesInv
<1>12. TypeOK'
  <2>1. pool' \in [Sets -> Pools]
      BY <1>5 DEF PoolsInv
  <2>2. sq' \in Seq(SQEs) /\ submitted' \in Seq(SQEs)
    <3>1. <<>> \in Seq(SQEs) /\ sq \in Seq(SQEs) /\ submitted \in Seq(SQEs)
        BY <1>1 DEF TypeOK
    <3> QED
        BY <1>9, <1>10, <3>1, Zenon
  <2>3. stage' \in [Ops -> Stages] /\ reserved_slots' \in Int
      BY <1>1, <1>3 DEF Stages, TypeOK
  <2>4. refused' \subseteq Ops
      BY <1>1 DEF queue, TypeOK
  <2>5. blocking_task_id' \in [Ops -> Tasks \cup {NoTask}]
    <3>1. user_data'[o] \in Tasks \cup {NoTask}
        BY <1>5
    <3>2. blocking_task_id' = blocking_task_id \/ Remember(o)
        BY DEF queue
    <3> QED
        BY <1>1, <3>1, <3>2 DEF Remember, TypeOK
  <2>6. /\ set' \in Sets
        /\ cancelled' \subseteq Ops
        /\ misfired' \subseteq Ops
        /\ ring_open' \in BOOLEAN
      BY <1>1, <1>2 DEF queue, TypeOK
  <2> QED
      BY <1>5, <2>1, <2>2, <2>3, <2>4, <2>5, <2>6, PoolType DEF TypeOK
<1> QED
    BY <1>3, <1>7, <1>11, <1>12 DEF IInv

(* The slot of an operation that found no room in the SQ is given back at  *)
(* once: a push followed by a pop.                                         *)
LEMMA QueueFullStep ==
    ASSUME IInv, NEW o \in Ops, queue_full(o)
    PROVE  IInv'
<1>1. TypeOK /\ QueuesInv
    BY DEF IInv
<1>2. PICK s \in Sets :
        /\ get_blocking_tasks_set(s)
        /\ set' = s
        /\ pool' = [PoolsWith(s) EXCEPT ![s] = pop(push(PoolsWith(s)[s], o), SlotFor(PoolsWith(s)[s]))]
    BY DEF queue_full
<1>3. /\ ring_open /\ ring_open'
      /\ stage[o] = "idle"
      /\ stage' = stage
      /\ user_data' = user_data
      /\ reserved_slots' = reserved_slots
    BY DEF queue_full, Ready
<1>4. o \notin Outstanding /\ Outstanding' = Outstanding
    BY <1>3 DEF Outstanding, Owning
<1>5. PICK P : P = PoolsWith(s)
    OBVIOUS
<1>6. /\ PoolsInv(P, s)
      /\ OwnersInv(P, Outstanding, user_data)
      /\ free(P[s])
    BY <1>2, <1>3, <1>5, SwitchInv
<1>7. /\ Outstanding \in SUBSET Ops
      /\ user_data \in [Ops -> Tasks \cup {NoTask}]
    BY <1>1, OutstandingFinite DEF TypeOK
<1>8. PICK i, P2, ud2, P3, ud3 :
        /\ i = SlotFor(P[s])
        /\ P2 = [P EXCEPT ![s] = push(P[s], o)]
        /\ ud2 = [user_data EXCEPT ![o] = <<s, SlotFor(P[s])>>]
        /\ P3 = [P2 EXCEPT ![ud2[o][1]] = pop(P2[ud2[o][1]], ud2[o][2])]
        /\ ud3 = [ud2 EXCEPT ![o] = NoTask]
    OBVIOUS
<1>9. /\ PoolsInv(P2, s)
      /\ OwnersInv(P2, Outstanding \cup {o}, ud2)
      /\ ud2 \in [Ops -> Tasks \cup {NoTask}]
    BY <1>4, <1>6, <1>7, <1>8, PushStep
<1>10. /\ PoolsInv(P3, s)
       /\ OwnersInv(P3, (Outstanding \cup {o}) \ {o}, ud3)
  <2>1. PICK O : O = Outstanding \cup {o}
      OBVIOUS
  <2>2. O \in SUBSET Ops /\ o \in O /\ OwnersInv(P2, O, ud2)
      BY <1>7, <1>9, <2>1
  <2>3. \A Q, u :
            /\ Q = [P2 EXCEPT ![ud2[o][1]] = pop(P2[ud2[o][1]], ud2[o][2])]
            /\ u = [ud2 EXCEPT ![o] = NoTask]
            => PoolsInv(Q, s) /\ OwnersInv(Q, O \ {o}, u)
      BY <1>9, <2>2, PopStep
  <2> QED
      BY <1>8, <2>1, <2>3, Zenon
<1>11. OwnersInv(P3, Outstanding, user_data)
  <2>1. (Outstanding \cup {o}) \ {o} = Outstanding
      BY <1>4
  <2>2. \A x \in Outstanding : user_data[x] = ud3[x]
      BY <1>4, <1>7, <1>8, <1>9
  <2> QED
      BY <1>10, <2>1, <2>2, OwnersDepend
<1>12. pool' = P3
  <2>1. P \in [Sets -> Pools]
      BY <1>6 DEF PoolsInv
  <2>2. ud2[o][1] = s /\ ud2[o][2] = i
      BY <1>7, <1>8
  <2>3. P2[s] = push(P[s], o)
      BY <1>8, <2>1
  <2>4. P3 = [P EXCEPT ![s] = pop(push(P[s], o), i)]
    <3>1. P3 = [P2 EXCEPT ![s] = pop(push(P[s], o), i)]
        BY <1>8, <2>2, <2>3, Zenon
    <3> QED
        BY <1>8, <2>1, <3>1
  <2> QED
      BY <1>2, <1>5, <1>8, <2>4
<1>13. SlotsInv'
    BY <1>2, <1>3, <1>4, <1>10, <1>11, <1>12 DEF IInv, SlotsInv
<1>14. QueuesInv'
    BY <1>1 DEF QueuesInv, queue_full
<1>15. TypeOK'
  <2>1. pool' \in [Sets -> Pools]
      BY <1>10, <1>12 DEF PoolsInv
  <2>2. /\ set' \in Sets
        /\ reserved_slots' \in Int
        /\ sq' \in Seq(SQEs)
        /\ submitted' \in Seq(SQEs)
        /\ stage' \in [Ops -> Stages]
        /\ user_data' \in [Ops -> Tasks \cup {NoTask}]
        /\ blocking_task_id' \in [Ops -> Tasks \cup {NoTask}]
        /\ cancelled' \subseteq Ops
        /\ refused' \subseteq Ops
        /\ misfired' \subseteq Ops
        /\ ring_open' \in BOOLEAN
      BY <1>1, <1>2 DEF queue_full, TypeOK
  <2> QED
      BY <2>1, <2>2, PoolType DEF TypeOK
<1> QED
    BY <1>3, <1>13, <1>14, <1>15 DEF IInv

(* Every step keeps the invariant.                                         *)
LEMMA NextInv == IInv /\ [Next]_vars => IInv'
<1> SUFFICES ASSUME IInv, [Next]_vars
             PROVE  IInv'
    OBVIOUS
<1>1. CASE \E o \in Ops : queue(o)
    BY <1>1, QueueStep
<1>2. CASE \E o \in Ops : queue_full(o)
    BY <1>2, QueueFullStep
<1>3. CASE \E o \in Ops : cancel(o)
    BY <1>3, CancelStep
<1>4. CASE flush_pending_sqes
    BY <1>4, FlushStep
<1>5. CASE KernelStart
    BY <1>5, StartStep
<1>6. CASE KernelCancel
    BY <1>6, KernelCancelStep
<1>7. CASE \E o \in Ops : KernelComplete(o)
    BY <1>7, CompleteStep
<1>8. CASE \E o \in Ops : fetch_completed_task(o)
    BY <1>8, FetchStep
<1>9. CASE \E o \in Ops : run_callback(o)
    BY <1>9, RunStep
<1>10. CASE deinit
    BY <1>10, DeinitStep
<1>11. CASE UNCHANGED vars
  <2>1. Outstanding' = Outstanding
      BY <1>11 DEF vars, Outstanding
  <2>2. (ring_open => SlotsInv)' /\ (~ring_open => ClosedInv)'
      BY <1>11, <2>1, SameSlots DEF vars
  <2>3. TypeOK' /\ QueuesInv'
      BY <1>11 DEF vars, IInv, TypeOK, QueuesInv
  <2> QED
      BY <2>2, <2>3 DEF IInv
<1> QED
    BY <1>1, <1>2, <1>3, <1>4, <1>5, <1>6, <1>7, <1>8, <1>9, <1>10, <1>11 DEF Next

(* The properties that the runs check follow from the invariant. *)
LEMMA InvImplies ==
    IInv => /\ TypeOK
            /\ CompletionFindsItsCallback
            /\ ReservedSlotsExact
            /\ SetsReleasedWhenEmpty
            /\ CloseSettlesEveryOp
<1> SUFFICES ASSUME IInv
             PROVE  /\ CompletionFindsItsCallback
                    /\ ReservedSlotsExact
                    /\ SetsReleasedWhenEmpty
                    /\ CloseSettlesEveryOp
    BY DEF IInv
<1>1. CASE ring_open
  <2>1. SlotsInv
      BY <1>1 DEF IInv
  <2>2. CompletionFindsItsCallback
      BY <2>1 DEF SlotsInv, OwnersInv, Holds, CompletionFindsItsCallback
  <2>3. ReservedSlotsExact
      BY <2>1 DEF SlotsInv, ReservedSlotsExact
  <2>4. \A s : OutstandingIn(s) = In(Outstanding, user_data, s)
      BY DEF OutstandingIn, In
  <2>5. SetsReleasedWhenEmpty
      BY <2>1, <2>4 DEF SlotsInv, OwnersInv, PoolsInv, SetsReleasedWhenEmpty
  <2> QED
      BY <1>1, <2>2, <2>3, <2>5 DEF CloseSettlesEveryOp
<1>2. CASE ~ring_open
  <2>1. Outstanding = {} /\ pool = [s \in Sets |-> FreshPool]
      BY <1>2 DEF IInv, ClosedInv
  <2>2. \A s \in Sets : pool[s].node = "none"
      BY <2>1 DEF FreshPool
  <2>3. SetsReleasedWhenEmpty
      BY <1>2, <2>2 DEF SetsReleasedWhenEmpty
  <2> QED
      BY <1>2, <2>1, <2>3 DEF CompletionFindsItsCallback, ReservedSlotsExact, CloseSettlesEveryOp
<1> QED
    BY <1>1, <1>2

(* IInv is an invariant of the slot bookkeeping. *)
THEOREM SlotsInvariant == Spec => []IInv
<1>1. Init => IInv
    BY InitInv
<1>2. IInv /\ [Next]_vars => IInv'
    BY NextInv
<1> QED
    BY <1>1, <1>2, PTL DEF Spec

(* Whatever is queued, cancelled, refused, completed and torn down, the    *)
(* user_data of a completion leads to the slot that holds the callback it  *)
(* was queued with; reserved_slots is exact; a set put aside is released   *)
(* by its last task; closing leaves no operation behind.                   *)
THEOREM SlotsSafety ==
    Spec => [](/\ TypeOK
               /\ CompletionFindsItsCallback
               /\ ReservedSlotsExact
               /\ SetsReleasedWhenEmpty
               /\ CloseSettlesEveryOp)
<1>1. Spec => []IInv
    BY SlotsInvariant
<1>2. IInv => /\ TypeOK
              /\ CompletionFindsItsCallback
              /\ ReservedSlotsExact
              /\ SetsReleasedWhenEmpty
              /\ CloseSettlesEveryOp
    BY InvImplies
<1> QED
    BY <1>1, <1>2, PTL

(* Loop.reserved_slots is the number of operations that own a slot.        *)
THEOREM ReservedSlots == Spec => []ReservedSlotsExact
    BY SlotsSafety, PTL

(* IO.deinit settles every operation.                                      *)
THEOREM CloseSettles == Spec => []CloseSettlesEveryOp
    BY SlotsSafety, PTL

(* get_blocking_tasks_set puts a set aside only when all its slots are in  *)
(* use.                                                                    *)
THEOREM PutAsideOnlyWhenFull == Spec => SetPutAsideOnlyWhenFull
<1> DEFINE Full == \A s \in Sets :
                     pool[s].node = "current" /\ pool'[s].node = "busy"
                         => Cardinality(OutstandingIn(s)) = TotalTasksItems
<1>1. ASSUME IInv, IInv', [Next]_vars
      PROVE  Full
  <2> SUFFICES ASSUME NEW s \in Sets, pool[s].node = "current", pool'[s].node = "busy"
               PROVE  Cardinality(OutstandingIn(s)) = TotalTasksItems
      OBVIOUS
  <2>1. FreshPool.node = "none"
      BY DEF FreshPool
  <2>2. ring_open
    <3>1. ~ring_open => pool[s] = FreshPool
        BY <1>1 DEF IInv, ClosedInv
    <3> QED
        BY <2>1, <3>1
  <2>3. ring_open'
    <3>1. (~ring_open)' => pool'[s] = FreshPool
        BY <1>1 DEF IInv, ClosedInv
    <3> QED
        BY <2>1, <3>1
  <2>4. s = set /\ s # set'
    <3>1. PoolsInv(pool, set) /\ PoolsInv(pool', set')
        BY <1>1, <2>2, <2>3 DEF IInv, SlotsInv
    <3> QED
        BY <3>1 DEF PoolsInv
  <2>5. ~free(pool[set])
    <3>1. \/ \E o \in Ops : queue(o) \/ queue_full(o) \/ cancel(o)
          \/ set' = set
        BY <1>1 DEF Next, vars, flush_pending_sqes, KernelStart, KernelCancel, KernelComplete,
                    fetch_completed_task, Harvest, run_callback, deinit
    <3>2. \E t \in Sets : get_blocking_tasks_set(t) /\ set' = t
        BY <2>4, <3>1 DEF queue, queue_full, cancel
    <3> QED
        BY <2>4, <3>2 DEF get_blocking_tasks_set
  <2>6. PoolOK(pool[s]) /\ pool[s].active = Cardinality(In(Outstanding, user_data, s))
      BY <1>1, <2>2 DEF IInv, SlotsInv, PoolsInv, OwnersInv
  <2>7. pool[s].active = TotalTasksItems
      BY <2>4, <2>5, <2>6, TaskSlotsAssumption DEF PoolOK, Pools, free
  <2>8. OutstandingIn(s) = In(Outstanding, user_data, s)
      BY DEF OutstandingIn, In
  <2> QED
      BY <2>6, <2>7, <2>8
<1>2. Spec => []IInv
    BY SlotsInvariant
<1> QED
    BY <1>1, <1>2, PTL DEF Spec, SetPutAsideOnlyWhenFull

-----------------------------------------------------------------------------
(***************************************************************************)
(* Cancellation.  ids stands for blocking_task_id.                         *)
(***************************************************************************)

(* An id that an owner remembers is that of its operation under way.       *)
IdsInv(ids, st, ud) ==
    \A o \in Ops : ids[o] # NoTask =>
        o \notin Bare /\ st[o] \in Owning /\ ids[o] = ud[o]

(* A cancel can be left in the SQ by a submission that failed, until after *)
(* its operation was harvested and the slot given to another one.  That    *)
(* one is then staged behind the cancel.                                   *)
Behind(q, st, ud) ==
    \A i \in 1 .. Len(q) : q[i].kind = "cancel" =>
        \A o \in Ops : o # q[i].op /\ st[o] \in Owning /\ ud[o] = q[i].id =>
            /\ st[o] = "staged"
            /\ \A j \in 1 .. i : ~(q[j].kind = "op" /\ q[j].op = o)

CancelInv ==
    /\ ring_open => IdsInv(blocking_task_id, stage, user_data)
    /\ Behind(sq, stage, user_data)
    /\ Behind(submitted, stage, user_data)
    /\ misfired = {}

(* An empty queue holds no cancel.                                         *)
LEMMA BehindEmpty ==
    ASSUME NEW st, NEW ud PROVE Behind(<<>>, st, ud)
BY DEF Behind

(* A step that makes no operation an owner and unstages none.              *)
LEMMA BehindMono ==
    ASSUME NEW q \in Seq(SQEs), NEW st, NEW ud, NEW st2, NEW ud2, Behind(q, st, ud),
           \A o \in Ops : st2[o] \in Owning =>
                /\ st[o] \in Owning /\ ud2[o] = ud[o]
                /\ st[o] = "staged" => st2[o] = "staged"
    PROVE  Behind(q, st2, ud2)
BY DEF Behind

(* The kernel takes the first SQE.                                         *)
LEMMA BehindTail ==
    ASSUME NEW q \in Seq(SQEs), q # <<>>, NEW st, NEW ud, NEW st2, Behind(q, st, ud),
           \A o \in Ops : st2[o] \in Owning => st[o] \in Owning,
           \A o \in Ops : st[o] = "staged" /\ ~(Head(q).kind = "op" /\ Head(q).op = o)
                            => st2[o] = "staged"
    PROVE  Behind(Tail(q), st2, ud)
<1>1. PICK h, r : h = Head(q) /\ r = Tail(q)
    OBVIOUS
<1>2. /\ h = q[1] /\ Len(r) \in Nat
      /\ \A k \in 1 .. Len(r) : r[k] = q[k + 1] /\ k + 1 \in 1 .. Len(q)
    BY <1>1
<1> SUFFICES ASSUME NEW i \in 1 .. Len(r), r[i].kind = "cancel", NEW o \in Ops,
                    o # r[i].op, st2[o] \in Owning, ud[o] = r[i].id
             PROVE  /\ st2[o] = "staged"
                    /\ \A j \in 1 .. i : ~(r[j].kind = "op" /\ r[j].op = o)
    BY <1>1 DEF Behind
<1>3. /\ st[o] = "staged"
      /\ \A j \in 1 .. i + 1 : ~(q[j].kind = "op" /\ q[j].op = o)
    BY <1>2 DEF Behind
<1>4. 1 \in 1 .. i + 1 /\ \A j \in 1 .. i : j + 1 \in 1 .. i + 1 /\ j \in 1 .. Len(r)
    OBVIOUS
<1>5. st2[o] = "staged"
    BY <1>1, <1>2, <1>3, <1>4
<1>6. \A j \in 1 .. i : ~(r[j].kind = "op" /\ r[j].op = o)
    BY <1>2, <1>3, <1>4
<1> QED
    BY <1>5, <1>6

(* An operation is queued behind the cancels that are there.               *)
LEMMA BehindQueue ==
    ASSUME NEW q \in Seq(SQEs), NEW st \in [Ops -> Stages], NEW o \in Ops, st[o] = "idle",
           NEW ud \in [Ops -> Tasks \cup {NoTask}], NEW x,
           StagedIn(q, st), Behind(q, st, ud)
    PROVE  Behind(q \o Entries(o), [st EXCEPT ![o] = "staged"], [ud EXCEPT ![o] = x])
<1>1. PICK r, st2, ud2 : /\ r = q \o Entries(o)
                         /\ st2 = [st EXCEPT ![o] = "staged"]
                         /\ ud2 = [ud EXCEPT ![o] = x]
    OBVIOUS
<1>2. PICK t : t = Entries(o)
    OBVIOUS
<1>3. t \in Seq(SQEs) /\ \A k \in 1 .. Len(t) : t[k].kind # "cancel"
  <2>1. PICK e, l : e = SQE("op", o, NoTask) /\ l = SQE("link", o, NoTask)
      OBVIOUS
  <2>2. e \in SQEs /\ l \in SQEs /\ e.kind # "cancel" /\ l.kind # "cancel"
      BY <2>1 DEF SQE, SQEs
  <2>3. t = <<e, l>> \/ t = <<e>>
      BY <1>2, <2>1 DEF Entries
  <2>4. CASE t = <<e, l>>
      BY <2>2, <2>4
  <2>5. CASE t = <<e>>
      BY <2>2, <2>5
  <2> QED
      BY <2>3, <2>4, <2>5
<1>4. /\ Len(q) \in Nat /\ Len(t) \in Nat /\ Len(r) = Len(q) + Len(t)
      /\ \A k \in 1 .. Len(q) : r[k] = q[k]
      /\ \A k \in 1 .. Len(t) : r[Len(q) + k] = t[k]
    BY <1>1, <1>2, <1>3
<1>5. ASSUME NEW i \in 1 .. Len(r), r[i].kind = "cancel"
      PROVE  i \in 1 .. Len(q)
  <2> SUFFICES ASSUME i \notin 1 .. Len(q) PROVE FALSE
      OBVIOUS
  <2>1. i - Len(q) \in 1 .. Len(t) /\ Len(q) + (i - Len(q)) = i
      BY <1>4
  <2>2. r[i] = t[i - Len(q)]
      BY <1>4, <2>1
  <2> QED
      BY <1>3, <1>5, <2>1, <2>2
<1> SUFFICES ASSUME NEW i \in 1 .. Len(r), r[i].kind = "cancel", NEW y \in Ops,
                    y # r[i].op, st2[y] \in Owning, ud2[y] = r[i].id
             PROVE  /\ st2[y] = "staged"
                    /\ \A j \in 1 .. i : ~(r[j].kind = "op" /\ r[j].op = y)
    BY <1>1 DEF Behind
<1>6. i \in 1 .. Len(q) /\ r[i] = q[i]
    BY <1>4, <1>5
<1>7. \A j \in 1 .. i : j \in 1 .. Len(q) /\ r[j] = q[j]
    BY <1>4, <1>6
<1>8. CASE y = o
  <2>1. st2[y] = "staged"
      BY <1>1, <1>8
  <2> QED
      BY <1>7, <1>8, <2>1 DEF StagedIn
<1>9. CASE y # o
  <2>1. st2[y] = st[y] /\ ud2[y] = ud[y]
      BY <1>1, <1>9
  <2>2. /\ st[y] = "staged"
        /\ \A j \in 1 .. i : ~(q[j].kind = "op" /\ q[j].op = y)
      BY <1>6, <2>1 DEF Behind
  <2> QED
      BY <1>7, <2>1, <2>2
<1> QED
    BY <1>8, <1>9

(* A cancel of the only operation with its id is added.                    *)
LEMMA BehindCancel ==
    ASSUME NEW q \in Seq(SQEs), NEW st, NEW ud, Behind(q, st, ud),
           NEW e \in SQEs, \A o \in Ops : st[o] \in Owning /\ ud[o] = e.id => o = e.op
    PROVE  Behind(Append(q, e), st, ud)
<1>1. PICK r : r = Append(q, e)
    OBVIOUS
<1>2. /\ Len(q) \in Nat /\ Len(r) = Len(q) + 1
      /\ r[Len(q) + 1] = e /\ \A k \in 1 .. Len(q) : r[k] = q[k]
    BY <1>1
<1> SUFFICES ASSUME NEW i \in 1 .. Len(r), r[i].kind = "cancel", NEW o \in Ops,
                    o # r[i].op, st[o] \in Owning, ud[o] = r[i].id
             PROVE  /\ st[o] = "staged"
                    /\ \A j \in 1 .. i : ~(r[j].kind = "op" /\ r[j].op = o)
    BY <1>1 DEF Behind
<1>3. i # Len(q) + 1
    BY <1>2
<1>4. i \in 1 .. Len(q) /\ \A j \in 1 .. i : j \in 1 .. Len(q)
    BY <1>2, <1>3
<1> QED
    BY <1>2, <1>4 DEF Behind

(* Every step keeps it, if every owner that remembers an id forgets it     *)
(* when the operation is harvested.                                        *)
LEMMA CancelInvStep ==
    ASSUME Ops \ Bare \subseteq ClearAtHarvest, IInv, CancelInv, [Next]_vars
    PROVE  CancelInv'
<1>1. /\ TypeOK /\ QueuesInv
      /\ sq \in Seq(SQEs) /\ submitted \in Seq(SQEs)
      /\ stage \in [Ops -> Stages]
      /\ user_data \in [Ops -> Tasks \cup {NoTask}]
      /\ blocking_task_id \in [Ops -> Tasks \cup {NoTask}]
    BY DEF IInv, TypeOK
<1>2. /\ Behind(sq, stage, user_data) /\ Behind(submitted, stage, user_data)
      /\ misfired = {}
      /\ ring_open => IdsInv(blocking_task_id, stage, user_data)
    BY DEF CancelInv
<1>3. ASSUME NEW o \in Ops, queue(o)
      PROVE  CancelInv'
  <2>1. PICK x : user_data' = [user_data EXCEPT ![o] = x]
      BY <1>3 DEF queue
  <2>2. /\ stage[o] = "idle" /\ stage' = [stage EXCEPT ![o] = "staged"]
        /\ UNCHANGED <<misfired, ring_open>> /\ ring_open /\ submitted = <<>>
        /\ \/ sq' = sq \o Entries(o) /\ submitted' = <<>>
           \/ sq' = <<>> /\ submitted' = sq \o Entries(o)
        /\ Remember(o) \/ UNCHANGED blocking_task_id
      BY <1>3 DEF queue, Ready, Flush
  <2>3. Behind(sq \o Entries(o), stage', user_data')
      BY <1>1, <1>2, <2>1, <2>2, BehindQueue DEF QueuesInv
  <2>4. Behind(sq', stage', user_data') /\ Behind(submitted', stage', user_data')
      BY <2>2, <2>3, BehindEmpty
  <2>5. \A y \in Ops : y # o => /\ stage'[y] = stage[y] /\ user_data'[y] = user_data[y]
                                /\ blocking_task_id'[y] = blocking_task_id[y]
      BY <1>1, <2>1, <2>2 DEF Remember
  <2>6. stage'[o] \in Owning /\ blocking_task_id[o] = NoTask
      BY <1>1, <1>2, <2>2 DEF IdsInv, Owning
  <2>7. blocking_task_id'[o] # NoTask => o \notin Bare /\ blocking_task_id'[o] = user_data'[o]
      BY <1>1, <2>2, <2>6 DEF Remember
  <2>8. IdsInv(blocking_task_id', stage', user_data')
      BY <1>2, <2>2, <2>5, <2>6, <2>7 DEF IdsInv
  <2> QED
      BY <1>2, <2>2, <2>4, <2>8 DEF CancelInv
<1>4. ASSUME NEW o \in Ops, queue_full(o)
      PROVE  CancelInv'
    BY <1>4 DEF queue_full, CancelInv
<1>5. ASSUME NEW o \in Ops, cancel(o)
      PROVE  CancelInv'
  <2>1. PICK e : e = SQE("cancel", o, blocking_task_id[o])
      OBVIOUS
  <2>2. /\ ring_open /\ submitted = <<>> /\ blocking_task_id[o] # NoTask
        /\ UNCHANGED <<stage, user_data, blocking_task_id, misfired, ring_open>>
        /\ \/ sq' = <<>> /\ submitted' = Append(sq, e)
           \/ sq' = Append(sq, e) /\ submitted' = <<>>
           \/ UNCHANGED <<sq, submitted>>
      BY <1>5, <2>1 DEF cancel, Ready, Flush
  <2>3. stage[o] \in Owning /\ blocking_task_id[o] = user_data[o]
      BY <1>2, <2>2 DEF IdsInv
  <2>4. e \in SQEs /\ e.op = o /\ e.id = user_data[o]
      BY <1>1, <2>1, <2>3 DEF SQE, SQEs
  <2>5. OwnersInv(pool, Outstanding, user_data)
      BY <2>2 DEF IInv, SlotsInv
  <2>6. \A y \in Ops : stage[y] \in Owning /\ user_data[y] = e.id => y = e.op
      BY <2>3, <2>4, <2>5 DEF OwnersInv, Outstanding
  <2>7. Behind(Append(sq, e), stage, user_data)
      BY <1>1, <1>2, <2>4, <2>6, BehindCancel
  <2>8. Behind(sq', stage, user_data) /\ Behind(submitted', stage, user_data)
      BY <1>2, <2>2, <2>7, BehindEmpty
  <2> QED
      BY <1>2, <2>2, <2>8 DEF CancelInv
<1>6. CASE flush_pending_sqes
  <2>1. /\ sq' = <<>> /\ submitted' = sq
        /\ UNCHANGED <<stage, user_data, blocking_task_id, misfired, ring_open>>
      BY <1>6 DEF flush_pending_sqes, Flush
  <2> QED
      BY <1>2, <2>1, BehindEmpty DEF CancelInv
<1>7. CASE KernelStart
  <2>1. PICK h : h = Head(submitted)
      OBVIOUS
  <2>2. /\ submitted # <<>> /\ submitted' = Tail(submitted) /\ sq = <<>>
        /\ stage' = [stage EXCEPT ![h.op] = IF h.kind = "op" THEN "inflight" ELSE @]
        /\ UNCHANGED <<sq, user_data, blocking_task_id, misfired, ring_open>>
      BY <1>1, <1>7, <2>1 DEF KernelStart, QueuesInv
  <2>3. /\ h \in SQEs /\ h.op \in Ops
        /\ h.kind = "op" => stage[h.op] = "staged"
    <3>1. h = submitted[1] /\ 1 \in 1 .. Len(submitted) /\ h \in SQEs
        BY <1>1, <2>1, <2>2
    <3>2. h.op \in Ops
        BY <3>1 DEF SQEs
    <3> QED
        BY <1>1, <3>1, <3>2 DEF QueuesInv, StagedIn
  <2>4. \A o \in Ops : /\ stage'[o] \in Owning <=> stage[o] \in Owning
                       /\ stage[o] = "staged" /\ ~(h.kind = "op" /\ h.op = o)
                            => stage'[o] = "staged"
      BY <1>1, <2>2, <2>3 DEF Owning
  <2>5. Behind(Tail(submitted), stage', user_data)
      BY <1>1, <1>2, <2>1, <2>2, <2>4, BehindTail
  <2>6. ring_open => IdsInv(blocking_task_id, stage', user_data)
      BY <1>2, <2>4 DEF IdsInv
  <2> QED
      BY <1>2, <2>2, <2>5, <2>6, BehindEmpty DEF CancelInv
<1>8. CASE KernelCancel
  <2>1. PICK h : h = Head(submitted)
      OBVIOUS
  <2>2. PICK hit : /\ hit = {o \in Ops : stage[o] = "inflight" /\ user_data[o] = h.id}
                   /\ stage' = [o \in Ops |-> IF o \in hit THEN "cq" ELSE stage[o]]
                   /\ misfired' = misfired \cup (hit \ {h.op})
      BY <1>8, <2>1 DEF KernelCancel
  <2>3. /\ submitted # <<>> /\ h.kind = "cancel" /\ submitted' = Tail(submitted) /\ sq = <<>>
        /\ UNCHANGED <<sq, user_data, blocking_task_id, ring_open>>
      BY <1>1, <1>8, <2>1 DEF KernelCancel, QueuesInv
  <2>4. h = submitted[1] /\ 1 \in 1 .. Len(submitted)
      BY <1>1, <2>1, <2>3
  <2>5. hit \subseteq {h.op}
      BY <1>2, <2>2, <2>3, <2>4 DEF Behind, Owning
  <2>6. misfired' = {}
      BY <1>2, <2>2, <2>5
  <2>7. \A o \in Ops : /\ stage'[o] \in Owning <=> stage[o] \in Owning
                       /\ stage[o] = "staged" => stage'[o] = "staged"
      BY <2>2 DEF Owning
  <2>8. Behind(Tail(submitted), stage', user_data)
      BY <1>1, <1>2, <2>3, <2>7, BehindTail
  <2>9. ring_open => IdsInv(blocking_task_id, stage', user_data)
      BY <1>2, <2>7 DEF IdsInv
  <2> QED
      BY <2>3, <2>6, <2>8, <2>9, BehindEmpty DEF CancelInv
<1>9. ASSUME NEW o \in Ops, KernelComplete(o)
      PROVE  CancelInv'
  <2>1. /\ stage[o] = "inflight" /\ stage' = [stage EXCEPT ![o] = "cq"]
        /\ UNCHANGED <<sq, submitted, user_data, blocking_task_id, misfired, ring_open>>
      BY <1>9 DEF KernelComplete
  <2>2. \A y \in Ops : /\ stage'[y] \in Owning <=> stage[y] \in Owning
                       /\ stage[y] = "staged" => stage'[y] = "staged"
      BY <1>1, <2>1 DEF Owning
  <2>3. Behind(sq, stage', user_data) /\ Behind(submitted, stage', user_data)
      BY <1>1, <1>2, <2>2, BehindMono
  <2>4. ring_open => IdsInv(blocking_task_id, stage', user_data)
      BY <1>2, <2>2 DEF IdsInv
  <2> QED
      BY <1>2, <2>1, <2>3, <2>4 DEF CancelInv
<1>10. ASSUME NEW o \in Ops, fetch_completed_task(o) \/ run_callback(o)
       PROVE  CancelInv'
  <2>1. /\ stage' = [stage EXCEPT ![o] = stage'[o]] /\ stage'[o] \in {"idle", "ready"}
        /\ user_data' = [user_data EXCEPT ![o] = NoTask] \/ UNCHANGED user_data
        /\ UNCHANGED <<sq, submitted, ring_open>> /\ misfired' \subseteq misfired
      BY <1>1, <1>10 DEF fetch_completed_task, Harvest, run_callback
  <2>2. \A y \in Ops : y # o => stage'[y] = stage[y] /\ user_data'[y] = user_data[y]
      BY <1>1, <2>1
  <2>3. stage'[o] \notin Owning
      BY <2>1 DEF Owning
  <2>4. Behind(sq, stage', user_data') /\ Behind(submitted, stage', user_data')
      BY <1>1, <1>2, <2>2, <2>3, BehindMono
  <2>5. \/ blocking_task_id' = [blocking_task_id EXCEPT ![o] = NoTask]
        \/ o \in Bare /\ UNCHANGED blocking_task_id
      BY <1>10 DEF fetch_completed_task, run_callback
  <2>6. ring_open => IdsInv(blocking_task_id', stage', user_data')
      BY <1>1, <1>2, <2>2, <2>5 DEF IdsInv
  <2> QED
      BY <1>2, <2>1, <2>4, <2>6 DEF CancelInv
<1>11. CASE deinit
  <2>1. sq' = <<>> /\ submitted' = <<>> /\ UNCHANGED misfired /\ ring_open' = FALSE
      BY <1>11 DEF deinit
  <2> QED
      BY <1>2, <2>1, BehindEmpty DEF CancelInv
<1>12. CASE UNCHANGED vars
    BY <1>12 DEF vars, CancelInv
<1> QED
    BY <1>3, <1>4, <1>5, <1>6, <1>7, <1>8, <1>9, <1>10, <1>11, <1>12 DEF Next

(* If every owner that remembers an id forgets it at the harvest, as the   *)
(* completion batch does for stream reads, a cancel never reaches another  *)
(* operation, not even one that was given the slot while the cancel was    *)
(* still in the SQ.  (An owner that keeps it until its callback, as a      *)
(* timer handle does, is not covered: there the property fails.)           *)
THEOREM CancelIsPrecise ==
    ASSUME Ops \ Bare \subseteq ClearAtHarvest
    PROVE  Spec => []CancelHitsOwnOp
<1>1. Init => CancelInv
    BY BehindEmpty DEF Init, CancelInv, IdsInv
<1>2. IInv /\ CancelInv /\ [Next]_vars => CancelInv'
    BY CancelInvStep
<1>3. CancelInv => CancelHitsOwnOp
    BY DEF CancelInv, CancelHitsOwnOp
<1> QED
    BY <1>1, <1>2, <1>3, SlotsInvariant, PTL DEF Spec
=============================================================================
