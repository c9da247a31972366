----------------------------- MODULE TaskProofs -----------------------------
(***************************************************************************)
(* Proofs about Task, for any number of tasks, futures, listeners and      *)
(* cancellations: a suspended task is stepped again exactly once, and a    *)
(* CancelledError reaches the task that it was requested for, and no       *)
(* other.                                                                  *)
(***************************************************************************)
EXTENDS Task, FiniteSetTheorems, SequenceTheorems, TLAPS

Entries == [cb : Tasks \cup Listeners, cancelled : BOOLEAN, executed : BOOLEAN]

Scheduled ==
    ({"send", "throw"} \X Tasks) \cup ({"set"} \X Objects)
        \cup ({"call"} \X Listeners)

TaskTypes ==
    /\ status \in [Objects -> {"new", "pending", "finished", "canceled"}]
    /\ exception \in [Objects -> {"none", "error", "fatal"}]
    /\ callbacks \in [Objects -> Seq(Entries)]
    /\ fut_waiter \in [Tasks -> Objects \cup {None}]
    /\ must_cancel \in [Tasks -> BOOLEAN]
    /\ coro \in [Tasks -> {"suspended", "running", "done"}]
    /\ awaiting \in [Tasks -> Objects \cup {None}]
    /\ ready \in Seq(Scheduled)
    /\ pc \in {"off", "idle", "callbacks", "running"}
    /\ resolving \in Objects \cup {None}
    /\ at \in Nat \ {0}
    /\ owed \in [Tasks -> BOOLEAN]
    /\ received \in [Tasks -> {"none"} \cup Exceptions]

(* Whether a callback of C is in the queue q, and whether at most one is.  *)
In(q, C) == \E i \in 1 .. Len(q) : q[i] \in C
Once(q, C) == \A i, j \in 1 .. Len(q) : q[i] \in C /\ q[j] \in C => i = j

StepsOf(t) == {<<"send", t>>, <<"throw", t>>}
RunOf(f) == {<<"set", f>>}

(* The done callbacks of f will be run, or are being run.                  *)
Live(f) == Pending(f) \/ f = resolving \/ In(ready, RunOf(f))

(* The entry i of f is still to be run, and is the one of t.               *)
Wake(f, i, t) ==
    /\ i \in 1 .. Len(callbacks[f])
    /\ callbacks[f][i].cb = t
    /\ i >= (IF f = resolving THEN at ELSE 1)
    /\ Live(f)

(* The done callbacks of a future are run once, after it is done.          *)
QueueInv ==
    \A f \in Objects :
        /\ Once(ready, RunOf(f))
        /\ In(ready, RunOf(f)) => Done(f) /\ f # resolving

(* The entry of a task is never removed.                                   *)
EntryInv ==
    \A f \in Objects :
        /\ status[f] = "new" => callbacks[f] = <<>>
        /\ \A i \in 1 .. Len(callbacks[f]) :
            callbacks[f][i].cancelled => callbacks[f][i].cb \in Listeners

(* Who runs: the coroutine of the current task, which is not done, or the  *)
(* done callbacks of a future that is.                                     *)
PcInv ==
    /\ resolving # None => Done(resolving)
    /\ pc \in {"idle", "off"} => resolving = None
    /\ pc = "callbacks" => resolving # None
    /\ \A t \in Tasks :
        /\ coro[t] = "running" <=> pc = "running" /\ current = t
        /\ coro[t] = "running" => Pending(t)
        /\ status[t] = "new" => coro[t] = "suspended"

(* The ways in which t is stepped again: one of them at most.              *)
WakeInv(t) ==
    /\ Once(ready, StepsOf(t))
    /\ \A f, g \in Objects : \A i, j \in Nat :
        Wake(f, i, t) /\ Wake(g, j, t) => f = g /\ i = j
    /\ In(ready, StepsOf(t)) => \A f \in Objects : \A i \in Nat : ~Wake(f, i, t)
    /\ Pending(t) /\ coro[t] = "suspended" =>
        \/ In(ready, StepsOf(t))
        \/ \E f \in Objects : \E i \in Nat : Wake(f, i, t)
    /\ coro[t] # "suspended" \/ status[t] = "new" =>
        /\ ~In(ready, StepsOf(t))
        /\ \A f \in Objects : \A i \in Nat : ~Wake(f, i, t)
    /\ fut_waiter[t] # None => \E i \in Nat : Wake(fut_waiter[t], i, t)

(* What is owed to a task that is not done is marked in it, or on its way  *)
(* with the future that it waits for.                                      *)
CancelOk(t) ==
    /\ fut_waiter[t] # None => awaiting[t] = fut_waiter[t]
    /\ ~Done(t) /\ must_cancel[t] => owed[t]
    /\ ~Done(t) /\ owed[t] =>
        \/ must_cancel[t]
        \/ fut_waiter[t] # None /\ status[fut_waiter[t]] = "canceled"

CancelInv ==
    /\ \A f \in Objects : status[f] # "finished" => exception[f] = "none"
    /\ \A t \in Tasks : CancelOk(t)

(* What a step may do to a task: a coroutine that is resumed gets the      *)
(* CancelledError that is owed, and only one that is owed or comes from    *)
(* what it awaits; a task that is owed one does not end with a result.     *)
Told(t) ==
    /\ coro[t] = "suspended" /\ coro'[t] = "running" =>
        /\ owed[t] => received'[t] = "cancelled"
        /\ received'[t] = "cancelled" =>
            owed[t] \/ (awaiting[t] # None /\ status[awaiting[t]] = "canceled")
    /\ owed[t] /\ Pending(t) /\ status'[t] = "finished" => exception'[t] # "none"

SchedInv ==
    /\ TaskTypes
    /\ QueueInv
    /\ EntryInv
    /\ PcInv
    /\ \A t \in Tasks : WakeInv(t)

TaskInv == SchedInv /\ CancelInv

-----------------------------------------------------------------------------
(* The kinds of callbacks are told apart.                                  *)
LEMMA Kinds ==
    ASSUME NEW t, NEW u, NEW f, NEW g, NEW l
    PROVE  /\ <<"send", t>> \in StepsOf(u) <=> t = u
           /\ <<"throw", t>> \in StepsOf(u) <=> t = u
           /\ <<"set", f>> \notin StepsOf(u)
           /\ <<"call", l>> \notin StepsOf(u)
           /\ <<"set", f>> \in RunOf(g) <=> f = g
           /\ <<"send", t>> \notin RunOf(f)
           /\ <<"throw", t>> \notin RunOf(f)
           /\ <<"call", l>> \notin RunOf(f)
BY DEF StepsOf, RunOf

(* A callback is put into the queue.                                       *)
LEMMA AppendIn ==
    ASSUME NEW S, NEW q \in Seq(S), NEW c \in S, NEW C
    PROVE  /\ Append(q, c) \in Seq(S)
           /\ In(Append(q, c), C) <=> In(q, C) \/ c \in C
           /\ Once(q, C) /\ ~(In(q, C) /\ c \in C) => Once(Append(q, c), C)
<1> DEFINE r == Append(q, c)
<1>1. /\ r \in Seq(S) /\ Len(r) = Len(q) + 1 /\ Len(q) \in Nat
      /\ r[Len(q) + 1] = c /\ \A i \in 1 .. Len(q) : r[i] = q[i]
  OBVIOUS
<1> HIDE DEF r
<1>2. \A i \in 1 .. Len(r) : i \in 1 .. Len(q) \/ i = Len(q) + 1
  BY <1>1
<1>3. Len(q) + 1 \in 1 .. Len(r) /\ \A i \in 1 .. Len(q) : i \in 1 .. Len(r)
  BY <1>1
<1>4. In(r, C) <=> In(q, C) \/ c \in C
  BY <1>1, <1>2, <1>3 DEF In
<1>5. ASSUME Once(q, C), ~(In(q, C) /\ c \in C) PROVE Once(r, C)
  BY <1>1, <1>2, <1>5 DEF In, Once
<1> QED BY <1>1, <1>4, <1>5 DEF r

(* The first callback is taken out of the queue.                           *)
LEMMA TailIn ==
    ASSUME NEW S, NEW q \in Seq(S), q # <<>>, NEW C
    PROVE  /\ Tail(q) \in Seq(S)
           /\ Head(q) \in S
           /\ Head(q) \in C => In(q, C)
           /\ Once(q, C) => Once(Tail(q), C)
           /\ Once(q, C) /\ Head(q) \in C => ~In(Tail(q), C)
           /\ Head(q) \notin C => (In(Tail(q), C) <=> In(q, C))
<1> DEFINE r == Tail(q)
<1>1. /\ r \in Seq(S) /\ Len(r) = Len(q) - 1 /\ Len(q) \in Nat \ {0}
      /\ Head(q) = q[1] /\ Head(q) \in S
      /\ \A i \in 1 .. Len(r) : r[i] = q[i + 1]
  BY HeadTailProperties, EmptySeq
<1> HIDE DEF r
<1>2. /\ 1 \in 1 .. Len(q)
      /\ \A i \in 1 .. Len(r) : i + 1 \in 1 .. Len(q) /\ i + 1 # 1
      /\ \A i, j \in 1 .. Len(r) : i + 1 = j + 1 => i = j
      /\ \A i \in 1 .. Len(q) : i # 1 => i - 1 \in 1 .. Len(r) /\ (i - 1) + 1 = i
  BY <1>1
<1>3. Head(q) \in C => In(q, C)
  BY <1>1, <1>2 DEF In
<1>4. Once(q, C) => Once(r, C)
  BY <1>1, <1>2 DEF Once
<1>5. Once(q, C) /\ Head(q) \in C => ~In(r, C)
  BY <1>1, <1>2 DEF Once, In
<1>6. ASSUME Head(q) \notin C PROVE In(r, C) <=> In(q, C)
  <2>1. In(r, C) => In(q, C)
    BY <1>1, <1>2 DEF In
  <2>2. ASSUME In(q, C) PROVE In(r, C)
    <3>1. PICK i \in 1 .. Len(q) : q[i] \in C
      BY <2>2 DEF In
    <3>2. i # 1
      BY <1>1, <1>6, <3>1
    <3>3. i - 1 \in 1 .. Len(r) /\ r[i - 1] = q[i]
      BY <1>1, <1>2, <3>2
    <3> QED BY <3>1, <3>3 DEF In
  <2> QED BY <2>1, <2>2
<1> QED BY <1>1, <1>3, <1>4, <1>5, <1>6 DEF r

(* A task that a step does not concern.                                    *)
LEMMA WakeFrame ==
    ASSUME TaskTypes, NEW u \in Tasks, WakeInv(u),
           In(ready', StepsOf(u)) <=> In(ready, StepsOf(u)),
           Once(ready', StepsOf(u)),
           \A f \in Objects : \A i \in Nat : Wake(f, i, u)' <=> Wake(f, i, u),
           coro'[u] = coro[u],
           status'[u] = "pending" => status[u] = "pending",
           status'[u] = "new" => status[u] = "new",
           fut_waiter'[u] = fut_waiter[u]
    PROVE  WakeInv(u)'
<1>1. fut_waiter[u] \in Objects \cup {None}
  BY DEF TaskTypes
<1>2. ASSUME fut_waiter'[u] # None
      PROVE  \E i \in Nat : Wake(fut_waiter[u], i, u)'
  <2>1. PICK f \in Objects : f = fut_waiter[u]
    BY <1>1, <1>2
  <2>2. PICK i \in Nat : Wake(f, i, u)
    BY <1>2, <2>1 DEF WakeInv
  <2>3. Wake(f, i, u)'
    BY <2>2
  <2>4. f = fut_waiter'[u]
    BY <2>1
  <2>5. Wake(fut_waiter[u], i, u)'
    BY <2>3, <2>4 DEF Wake, Live, Pending
  <2> QED BY <2>5
<1> QED BY <1>2 DEF WakeInv, Pending

-----------------------------------------------------------------------------
(* Types.                                                                  *)

(* A future is resolved, and its callbacks are announced.                  *)
LEMMA AnnounceTypes ==
    ASSUME TaskTypes, NEW f \in Objects, NEW s \in {"finished", "canceled"},
           NEW queue, call_done_callbacks(f, s, queue)
    PROVE  /\ status' \in [Objects -> {"new", "pending", "finished", "canceled"}]
           /\ ready' \in Seq(Scheduled)
<1>1. <<"set", f>> \in Scheduled
  BY DEF Scheduled
<1>2. Append(ready, <<"set", f>>) \in Seq(Scheduled)
  BY <1>1, AppendIn DEF TaskTypes
<1> QED BY <1>2 DEF TaskTypes, call_done_callbacks

(* set_result, set_exception and cancel.                                   *)
LEMMA ResolveTypes ==
    ASSUME TaskTypes, NEW f \in Objects, NEW e \in {"error", "fatal"},
           set_result(f) \/ set_exception(f, e) \/ future_cancel(f)
    PROVE  /\ status' \in [Objects -> {"new", "pending", "finished", "canceled"}]
           /\ ready' \in Seq(Scheduled)
           /\ exception' \in [Objects -> {"none", "error", "fatal"}]
<1>1. /\ call_done_callbacks(f, "finished", callbacks[f])
         \/ call_done_callbacks(f, "canceled", callbacks[f])
      /\ exception' = exception \/ exception' = [exception EXCEPT ![f] = e]
  BY DEF set_result, set_exception, future_cancel
<1>2. exception' \in [Objects -> {"none", "error", "fatal"}]
  BY <1>1 DEF TaskTypes
<1> QED BY <1>1, <1>2, AnnounceTypes

(* An entry of a future is appended or changed.                            *)
LEMMA EntryTypes ==
    ASSUME TaskTypes, NEW f \in Objects
    PROVE  /\ \A c \in Tasks \cup Listeners :
                [callbacks EXCEPT ![f] = Append(@, Waiter(c))]
                    \in [Objects -> Seq(Entries)]
           /\ \A i \in 1 .. Len(callbacks[f]) :
                /\ [callbacks EXCEPT ![f][i].cancelled = TRUE]
                    \in [Objects -> Seq(Entries)]
                /\ [callbacks EXCEPT ![f][i].executed = TRUE]
                    \in [Objects -> Seq(Entries)]
<1>1. callbacks[f] \in Seq(Entries)
  BY DEF TaskTypes
<1>2. ASSUME NEW c \in Tasks \cup Listeners
      PROVE  [callbacks EXCEPT ![f] = Append(@, Waiter(c))]
                \in [Objects -> Seq(Entries)]
  <2>1. Waiter(c) \in Entries
    BY DEF Waiter, Entries
  <2>2. Append(callbacks[f], Waiter(c)) \in Seq(Entries)
    BY <1>1, <2>1, AppendIn
  <2> QED BY <2>2 DEF TaskTypes
<1>3. ASSUME NEW i \in 1 .. Len(callbacks[f])
      PROVE  /\ [callbacks EXCEPT ![f][i].cancelled = TRUE]
                    \in [Objects -> Seq(Entries)]
             /\ [callbacks EXCEPT ![f][i].executed = TRUE]
                    \in [Objects -> Seq(Entries)]
  <2> DEFINE q == callbacks[f]
             x == [q[i] EXCEPT !.cancelled = TRUE]
             y == [q[i] EXCEPT !.executed = TRUE]
  <2>1. q[i] \in Entries
    BY <1>1, ElementOfSeq
  <2>2. x \in Entries /\ y \in Entries
    BY <2>1 DEF Entries
  <2>3. /\ [callbacks EXCEPT ![f][i].cancelled = TRUE]
            = [callbacks EXCEPT ![f] = [q EXCEPT ![i] = x]]
        /\ [callbacks EXCEPT ![f][i].executed = TRUE]
            = [callbacks EXCEPT ![f] = [q EXCEPT ![i] = y]]
    OBVIOUS
  <2> HIDE DEF x, y
  <2>4. [q EXCEPT ![i] = x] \in Seq(Entries) /\ [q EXCEPT ![i] = y] \in Seq(Entries)
    BY <1>1, <2>2, ExceptSeq
  <2>5. \A r \in Seq(Entries) :
            [callbacks EXCEPT ![f] = r] \in [Objects -> Seq(Entries)]
    BY DEF TaskTypes
  <2> QED BY <2>3, <2>4, <2>5
<1> QED BY <1>2, <1>3

(* The callback under way is over.                                         *)
LEMMA ReturnEnds ==
    ASSUME NEW e, Return(e)
    PROVE  /\ pc' \in {"off", "idle", "callbacks"}
           /\ pc' \in {"off", "idle"} <=> resolving = None
BY DEF Return

(* The coroutine is entered, or the task is done already.                  *)
LEMMA EnterTypes ==
    ASSUME TaskTypes, NEW t \in Tasks, NEW e \in {"none", "error", "fatal"},
           Enter(t, e)
    PROVE  /\ pc' \in {"off", "idle", "callbacks", "running"}
           /\ must_cancel' \in [Tasks -> BOOLEAN]
           /\ coro' \in [Tasks -> {"suspended", "running", "done"}]
           /\ received' \in [Tasks -> {"none"} \cup Exceptions]
           /\ owed' \in [Tasks -> BOOLEAN]
<1> DEFINE thrown == IF must_cancel[t] THEN "cancelled" ELSE e
<1>1. must_cancel' \in [Tasks -> BOOLEAN]
  BY DEF Enter, TaskTypes
<1>2. CASE ~Pending(t)
  BY <1>1, <1>2, ReturnEnds DEF Enter, TaskTypes
<1>3. CASE Pending(t)
  <2>1. Awaited(t) \in {"none"} \cup Exceptions
    BY DEF Awaited, TaskTypes, Exceptions
  <2>2. /\ pc' = "running" /\ coro' = [coro EXCEPT ![t] = "running"]
        /\ received' = [received EXCEPT
                ![t] = IF thrown # "none" THEN thrown ELSE Awaited(t)]
        /\ owed' = [owed EXCEPT ![t] = @ /\ received'[t] # "cancelled"]
    BY <1>3 DEF Enter
  <2>3. thrown \in {"none"} \cup Exceptions
    BY DEF Exceptions
  <2> HIDE DEF thrown
  <2>4. received' \in [Tasks -> {"none"} \cup Exceptions]
    BY <2>1, <2>2, <2>3 DEF TaskTypes
  <2>5. owed' \in [Tasks -> BOOLEAN]
    BY <2>2 DEF TaskTypes
  <2> QED BY <1>1, <2>2, <2>4, <2>5 DEF TaskTypes
<1> QED BY <1>2, <1>3

(* The next callback is taken.                                             *)
LEMMA TakeTypes ==
    ASSUME TaskTypes, NEW kind, NEW x, Take(kind, x)
    PROVE  ready' \in Seq(Scheduled)
BY TailIn DEF Take, TaskTypes

(* The steps of Python code keep the types.                                *)
LEMMA PythonTypes ==
    ASSUME TaskTypes, PythonStep
    PROVE  TaskTypes'
<1>1. ASSUME NEW f \in Futures, create_future(f) PROVE TaskTypes'
  BY <1>1 DEF TaskTypes, create_future, Objects, taskvars, runvars, history
<1>2. ASSUME NEW f \in Futures, resolve(f) PROVE TaskTypes'
  <2>1. f \in Objects
    BY DEF Objects
  <2>2. /\ status' \in [Objects -> {"new", "pending", "finished", "canceled"}]
        /\ ready' \in Seq(Scheduled)
        /\ exception' \in [Objects -> {"none", "error", "fatal"}]
    BY <1>2, <2>1, ResolveTypes DEF resolve
  <2> QED BY <1>2, <2>2 DEF TaskTypes, resolve, taskvars, history
<1>3. ASSUME NEW t \in Tasks, create_task(t) PROVE TaskTypes'
  <2>1. <<"send", t>> \in Scheduled
    BY DEF Scheduled
  <2>2. ready' \in Seq(Scheduled)
    BY <1>3, <2>1, AppendIn DEF create_task, TaskTypes
  <2> QED BY <1>3, <2>2 DEF TaskTypes, create_task, taskvars, history
<1>4. ASSUME NEW t \in Tasks, task_cancel(t) PROVE TaskTypes'
  <2> DEFINE last == EndOfPath(t)
             w == fut_waiter[last]
  <2>1. /\ owed' = [owed EXCEPT ![last] = TRUE]
        /\ \/ w \in Futures /\ future_cancel(w) /\ UNCHANGED must_cancel
           \/ /\ must_cancel' = [must_cancel EXCEPT ![last] = TRUE]
              /\ UNCHANGED <<status, exception, ready>>
        /\ UNCHANGED <<callbacks, fut_waiter, coro, awaiting, pc, current,
                       resolving, at, raised, received, fatal>>
    BY <1>4 DEF task_cancel
  <2> HIDE DEF last, w
  <2>2. /\ status' \in [Objects -> {"new", "pending", "finished", "canceled"}]
        /\ ready' \in Seq(Scheduled)
        /\ exception' \in [Objects -> {"none", "error", "fatal"}]
        /\ must_cancel' \in [Tasks -> BOOLEAN]
    <3>1. CASE w \in Futures /\ future_cancel(w) /\ UNCHANGED must_cancel
      <4>1. w \in Objects
        BY <3>1 DEF Objects
      <4> QED BY <3>1, <4>1, ResolveTypes DEF TaskTypes
    <3>2. CASE /\ must_cancel' = [must_cancel EXCEPT ![last] = TRUE]
               /\ UNCHANGED <<status, exception, ready>>
      BY <3>2 DEF TaskTypes
    <3> QED BY <2>1, <3>1, <3>2
  <2>3. owed' \in [Tasks -> BOOLEAN]
    BY <2>1 DEF TaskTypes
  <2> QED BY <2>1, <2>2, <2>3 DEF TaskTypes
<1>5. ASSUME NEW t \in Tasks, task_uncancel(t) PROVE TaskTypes'
  <2>1. must_cancel' \in [Tasks -> BOOLEAN] /\ owed' \in [Tasks -> BOOLEAN]
    BY <1>5 DEF TaskTypes, task_uncancel
  <2> QED BY <1>5, <2>1 DEF TaskTypes, task_uncancel, futvars, runvars
<1>6. ASSUME NEW f \in Objects, NEW l \in Listeners, add_done_callback(f, l)
      PROVE  TaskTypes'
  <2>1. <<"call", l>> \in Scheduled
    BY DEF Scheduled
  <2>2. /\ ready' = ready \/ ready' = Append(ready, <<"call", l>>)
        /\ \/ callbacks' = callbacks
           \/ callbacks' = [callbacks EXCEPT ![f] = Append(@, Waiter(l))]
    BY <1>6 DEF add_done_callback
  <2>3. ready' \in Seq(Scheduled)
    <3>1. ready \in Seq(Scheduled)
      BY DEF TaskTypes
    <3>2. Append(ready, <<"call", l>>) \in Seq(Scheduled)
      BY <2>1, <3>1, AppendIn
    <3> QED BY <2>2, <3>1, <3>2
  <2>4. callbacks' \in [Objects -> Seq(Entries)]
    <3>1. callbacks \in [Objects -> Seq(Entries)]
      BY DEF TaskTypes
    <3>2. [callbacks EXCEPT ![f] = Append(@, Waiter(l))] \in [Objects -> Seq(Entries)]
      BY EntryTypes
    <3> QED BY <2>2, <3>1, <3>2
  <2> QED BY <1>6, <2>3, <2>4 DEF TaskTypes, add_done_callback, taskvars, history
<1>7. ASSUME NEW f \in Objects, NEW l \in Listeners, remove_done_callback(f, l)
      PROVE  TaskTypes'
  <2>1. DOMAIN callbacks[f] = 1 .. Len(callbacks[f])
    BY DEF TaskTypes
  <2>2. callbacks' \in [Objects -> Seq(Entries)]
    <3>1. PICK i \in 1 .. Len(callbacks[f]) :
            callbacks' = [callbacks EXCEPT ![f][i].cancelled = TRUE]
      BY <1>7, <2>1 DEF remove_done_callback
    <3>2. [callbacks EXCEPT ![f][i].cancelled = TRUE] \in [Objects -> Seq(Entries)]
      BY EntryTypes
    <3> QED BY <3>1, <3>2
  <2> QED BY <1>7, <2>2 DEF TaskTypes, remove_done_callback, taskvars, runvars, history
<1> QED BY <1>1, <1>2, <1>3, <1>4, <1>5, <1>6, <1>7 DEF PythonStep

(* The entry that is run next is one of the future's.                      *)
LEMMA EntryIsThere ==
    ASSUME TaskTypes, PcInv, NextEntry
    PROVE  /\ resolving \in Objects
           /\ at \in 1 .. Len(callbacks[resolving])
           /\ at' \in Nat \ {0}
           /\ exception[resolving] \in {"none", "error", "fatal"}
BY DEF TaskTypes, PcInv, NextEntry

(* The steps of the loop that run callbacks keep the types.                *)
LEMMA LoopTypes ==
    ASSUME TaskTypes, PcInv,
           \/ \E t \in Tasks : execute_task_send(t) \/ execute_task_throw(t)
           \/ \E f \in Objects : run_set_callbacks(f)
           \/ \E l \in Listeners : execute_handle(l)
           \/ skip_callback \/ call_listener \/ wakeup_task \/ callbacks_done
           \/ start
    PROVE  TaskTypes'
<1>1. ASSUME NEW t \in Tasks, execute_task_send(t) \/ execute_task_throw(t)
      PROVE  TaskTypes'
  <2>1. ready' \in Seq(Scheduled)
    BY <1>1, TakeTypes DEF execute_task_send, execute_task_throw
  <2>2. Enter(t, "none") \/ Enter(t, "error")
    BY <1>1 DEF execute_task_send, execute_task_throw
  <2>3. /\ pc' \in {"off", "idle", "callbacks", "running"}
        /\ must_cancel' \in [Tasks -> BOOLEAN]
        /\ coro' \in [Tasks -> {"suspended", "running", "done"}]
        /\ received' \in [Tasks -> {"none"} \cup Exceptions]
        /\ owed' \in [Tasks -> BOOLEAN]
    BY <2>2, EnterTypes
  <2> QED BY <1>1, <2>1, <2>3 DEF TaskTypes, execute_task_send, execute_task_throw, futvars
<1>2. ASSUME NEW f \in Objects, run_set_callbacks(f) PROVE TaskTypes'
  <2>1. ready' \in Seq(Scheduled)
    BY <1>2, TakeTypes DEF run_set_callbacks
  <2> QED BY <1>2, <2>1 DEF TaskTypes, run_set_callbacks, futvars, taskvars, history
<1>3. ASSUME NEW l \in Listeners, execute_handle(l) PROVE TaskTypes'
  <2>1. ready' \in Seq(Scheduled)
    BY <1>3, TakeTypes DEF execute_handle
  <2>2. pc' \in {"off", "idle", "callbacks"}
    BY <1>3, ReturnEnds DEF execute_handle
  <2> QED BY <1>3, <2>1, <2>2 DEF TaskTypes, execute_handle, futvars, taskvars, history
<1>4. CASE skip_callback
  BY <1>4, EntryIsThere DEF TaskTypes, skip_callback, futvars, taskvars, history
<1>5. CASE call_listener
  <2>1. NextEntry /\ callbacks' = [callbacks EXCEPT ![resolving][at].executed = TRUE]
    BY <1>5 DEF call_listener
  <2>2. callbacks' \in [Objects -> Seq(Entries)]
    BY <2>1, EntryIsThere, EntryTypes
  <2>3. pc' \in {"off", "idle", "callbacks"} /\ at' \in Nat \ {0}
    BY <1>5, <2>1, ReturnEnds, EntryIsThere DEF call_listener
  <2> QED BY <1>5, <2>2, <2>3 DEF TaskTypes, call_listener, taskvars, history
<1>6. CASE wakeup_task
  <2>1. /\ NextEntry /\ callbacks' = [callbacks EXCEPT ![resolving][at].executed = TRUE]
        /\ Entry.cb \in Tasks /\ Enter(Entry.cb, exception[resolving])
        /\ fut_waiter' = [fut_waiter EXCEPT ![Entry.cb] = None]
        /\ UNCHANGED <<status, exception, cancel_requests, awaiting, ready,
                       resolving, fatal>>
    BY <1>6 DEF wakeup_task
  <2>2. callbacks' \in [Objects -> Seq(Entries)]
    BY <2>1, EntryIsThere, EntryTypes
  <2>3. fut_waiter' \in [Tasks -> Objects \cup {None}]
    BY <2>1 DEF TaskTypes
  <2>4. /\ pc' \in {"off", "idle", "callbacks", "running"}
        /\ must_cancel' \in [Tasks -> BOOLEAN]
        /\ coro' \in [Tasks -> {"suspended", "running", "done"}]
        /\ received' \in [Tasks -> {"none"} \cup Exceptions]
        /\ owed' \in [Tasks -> BOOLEAN]
    BY <2>1, EnterTypes, EntryIsThere
  <2>5. at' \in Nat \ {0}
    BY <2>1, EntryIsThere
  <2> QED BY <2>1, <2>2, <2>3, <2>4, <2>5 DEF TaskTypes
<1>7. CASE callbacks_done
  BY <1>7 DEF TaskTypes, callbacks_done, futvars, taskvars, history
<1>8. CASE start
  BY <1>8 DEF TaskTypes, start, futvars, taskvars
<1> QED BY <1>1, <1>2, <1>3, <1>4, <1>5, <1>6, <1>7, <1>8

(* The ends of a step keep the types.                                      *)
LEMMA StepTypes ==
    ASSUME TaskTypes, NEW t \in Tasks, Step(t)
    PROVE  TaskTypes'
<1>1. /\ t \in Objects /\ <<"send", t>> \in Scheduled /\ <<"throw", t>> \in Scheduled
  BY DEF Objects, Scheduled
<1>2. ASSUME NEW c \in {"suspended", "done"}, Leave(t, c)
      PROVE  /\ coro' \in [Tasks -> {"suspended", "running", "done"}]
             /\ received' \in [Tasks -> {"none"} \cup Exceptions]
  BY <1>2 DEF Leave, TaskTypes
<1>3. ASSUME Finish(t)
      PROVE  /\ coro' \in [Tasks -> {"suspended", "running", "done"}]
             /\ received' \in [Tasks -> {"none"} \cup Exceptions]
             /\ fut_waiter' \in [Tasks -> Objects \cup {None}]
             /\ awaiting' \in [Tasks -> Objects \cup {None}]
             /\ owed' \in [Tasks -> BOOLEAN]
             /\ UNCHANGED <<callbacks, must_cancel, resolving, at>>
  <2>1. Leave(t, "done")
    BY <1>3 DEF Finish
  <2> QED BY <1>2, <1>3, <2>1 DEF Finish, TaskTypes
<1>4. ASSUME coro_returns(t) \/ \E e \in Exceptions : coro_raises(t, e)
      PROVE  TaskTypes'
  <2>1. Finish(t) /\ pc' \in {"off", "idle", "callbacks"}
    BY <1>4, ReturnEnds DEF coro_returns, coro_raises
  <2>2. \/ set_result(t) \/ future_cancel(t)
        \/ set_exception(t, "error") \/ set_exception(t, "fatal")
    BY <1>4 DEF coro_returns, coro_raises, Exceptions
  <2>3. /\ status' \in [Objects -> {"new", "pending", "finished", "canceled"}]
        /\ ready' \in Seq(Scheduled)
        /\ exception' \in [Objects -> {"none", "error", "fatal"}]
    BY <1>1, <2>2, ResolveTypes
  <2> QED BY <1>3, <2>1, <2>3 DEF TaskTypes
<1>5. ASSUME coro_yields(t) \/ coro_yields_badly(t) PROVE TaskTypes'
  <2>1. Leave(t, "suspended") /\ pc' \in {"off", "idle", "callbacks"}
    BY <1>5, ReturnEnds DEF coro_yields, coro_yields_badly
  <2>2. ready' = Append(ready, <<"send", t>>) \/ ready' = Append(ready, <<"throw", t>>)
    BY <1>5 DEF coro_yields, coro_yields_badly
  <2>3. ready' \in Seq(Scheduled)
    <3>1. ready \in Seq(Scheduled)
      BY DEF TaskTypes
    <3>2. /\ Append(ready, <<"send", t>>) \in Seq(Scheduled)
          /\ Append(ready, <<"throw", t>>) \in Seq(Scheduled)
      BY <1>1, <3>1, AppendIn
    <3> QED BY <2>2, <3>2
  <2>4. awaiting' \in [Tasks -> Objects \cup {None}]
    BY <1>5 DEF coro_yields, coro_yields_badly, TaskTypes
  <2> QED BY <1>2, <1>5, <2>1, <2>3, <2>4
          DEF TaskTypes, coro_yields, coro_yields_badly, futvars
<1>6. ASSUME coro_yields_object(t) PROVE TaskTypes'
  <2>1. Leave(t, "suspended") /\ pc' \in {"off", "idle", "callbacks"}
    BY <1>6, ReturnEnds DEF coro_yields_object
  <2>2. /\ status' \in [Objects -> {"new", "pending", "finished", "canceled"}]
        /\ ready' \in Seq(Scheduled)
        /\ exception' \in [Objects -> {"none", "error", "fatal"}]
    BY <1>1, <1>6, ResolveTypes DEF coro_yields_object
  <2>3. owed' \in [Tasks -> BOOLEAN]
    BY <1>6 DEF TaskTypes, coro_yields_object
  <2> QED BY <1>2, <1>6, <2>1, <2>2, <2>3 DEF TaskTypes, coro_yields_object
<1>7. ASSUME NEW f \in Objects, coro_awaits(t, f) PROVE TaskTypes'
  <2>1. Leave(t, "suspended") /\ pc' \in {"off", "idle", "callbacks"}
    BY <1>7, ReturnEnds DEF coro_awaits
  <2>2. \/ call_done_callbacks(f, "canceled", callbacks'[f])
        \/ UNCHANGED <<status, ready>>
    BY <1>7 DEF coro_awaits
  <2>3. /\ status' \in [Objects -> {"new", "pending", "finished", "canceled"}]
        /\ ready' \in Seq(Scheduled)
    BY <2>2, AnnounceTypes DEF TaskTypes
  <2>4. callbacks' \in [Objects -> Seq(Entries)]
    <3>1. [callbacks EXCEPT ![f] = Append(@, Waiter(t))] \in [Objects -> Seq(Entries)]
      BY EntryTypes
    <3> QED BY <1>7, <3>1 DEF coro_awaits
  <2>5. /\ awaiting' \in [Tasks -> Objects \cup {None}]
        /\ fut_waiter' \in [Tasks -> Objects \cup {None}]
    BY <1>7 DEF coro_awaits, TaskTypes
  <2> QED BY <1>2, <1>7, <2>1, <2>3, <2>4, <2>5 DEF TaskTypes, coro_awaits
<1> QED BY <1>4, <1>5, <1>6, <1>7 DEF Step, Exceptions

-----------------------------------------------------------------------------
(* Wake-ups.                                                               *)

(* The entries are the same, and so is whether they will be run.           *)
LEMMA WakeSame ==
    ASSUME TaskTypes, NEW u \in Tasks,
           \A f \in Objects :
                /\ Len(callbacks'[f]) = Len(callbacks[f])
                /\ \A i \in 1 .. Len(callbacks[f]) :
                    callbacks'[f][i].cb = callbacks[f][i].cb,
           UNCHANGED <<resolving, at>>,
           \A f \in Objects : (Live(f)' <=> Live(f)) \/ callbacks[f] = <<>>
    PROVE  \A f \in Objects : \A i \in Nat : Wake(f, i, u)' <=> Wake(f, i, u)
<1> SUFFICES ASSUME NEW f \in Objects, NEW i \in Nat
             PROVE  Wake(f, i, u)' <=> Wake(f, i, u)
  OBVIOUS
<1>1. CASE callbacks[f] = <<>>
  <2>1. Len(callbacks[f]) = 0 /\ Len(callbacks'[f]) = 0
    BY <1>1
  <2> QED BY <2>1 DEF Wake
<1>2. CASE Live(f)' <=> Live(f)
  BY <1>2 DEF Wake
<1> QED BY <1>1, <1>2

(* A pending future is resolved: if it has done callbacks, they will run.  *)
LEMMA Announce ==
    ASSUME TaskTypes, QueueInv, PcInv, NEW f \in Objects, Pending(f),
           NEW s \in {"finished", "canceled"}, NEW queue,
           call_done_callbacks(f, s, queue), UNCHANGED resolving
    PROVE  /\ \A u \in Tasks :
                /\ In(ready', StepsOf(u)) <=> In(ready, StepsOf(u))
                /\ Once(ready, StepsOf(u)) => Once(ready', StepsOf(u))
           /\ QueueInv'
           /\ f # resolving
           /\ status'[f] = s
           /\ \A g \in Objects \ {f} :
                status'[g] = status[g] /\ (Live(g)' <=> Live(g))
           /\ Live(f)' <=> queue # <<>>
           /\ resolving # None => status'[resolving] \in {"finished", "canceled"}
<1>1. /\ status' = [status EXCEPT ![f] = s]
      /\ ready' = IF queue = <<>> THEN ready ELSE Append(ready, <<"set", f>>)
  BY DEF call_done_callbacks
<1>2. status'[f] = s /\ \A g \in Objects \ {f} : status'[g] = status[g]
  BY <1>1 DEF TaskTypes
<1>3. f # resolving /\ f # None
  BY TaskAssumption DEF PcInv, Pending, Done, Objects
<1>4. ~In(ready, RunOf(f))
  BY DEF QueueInv, Pending, Done
<1>5. resolving # None => status'[resolving] \in {"finished", "canceled"}
  BY <1>2, <1>3 DEF PcInv, Done, TaskTypes
<1>6. CASE queue = <<>>
  <2>1. ready' = ready
    BY <1>1, <1>6
  <2>2. QueueInv'
    BY <1>2, <2>1 DEF QueueInv, Done
  <2>3. \A g \in Objects \ {f} : Live(g)' <=> Live(g)
    BY <1>2, <2>1 DEF Live, Pending
  <2>4. ~Live(f)'
    BY <1>2, <1>3, <1>4, <2>1 DEF Live, Pending
  <2> QED BY <1>2, <1>3, <1>5, <1>6, <2>1, <2>2, <2>3, <2>4
<1>7. CASE queue # <<>>
  <2>1. ready' = Append(ready, <<"set", f>>) /\ ready \in Seq(Scheduled)
        /\ <<"set", f>> \in Scheduled
    BY <1>1, <1>7 DEF TaskTypes, Scheduled
  <2>2. \A u \in Tasks :
            /\ In(ready', StepsOf(u)) <=> In(ready, StepsOf(u))
            /\ Once(ready, StepsOf(u)) => Once(ready', StepsOf(u))
    <3> SUFFICES ASSUME NEW u \in Tasks
                 PROVE  /\ In(ready', StepsOf(u)) <=> In(ready, StepsOf(u))
                        /\ Once(ready, StepsOf(u)) => Once(ready', StepsOf(u))
      OBVIOUS
    <3>1. <<"set", f>> \notin StepsOf(u)
      BY Kinds
    <3> QED BY <2>1, <3>1, AppendIn
  <2>3. \A g \in Objects :
            /\ In(ready', RunOf(g)) <=> In(ready, RunOf(g)) \/ f = g
            /\ Once(ready', RunOf(g))
    <3> SUFFICES ASSUME NEW g \in Objects
                 PROVE  /\ In(ready', RunOf(g)) <=> In(ready, RunOf(g)) \/ f = g
                        /\ Once(ready', RunOf(g))
      OBVIOUS
    <3>1. Once(ready, RunOf(g))
      BY DEF QueueInv
    <3>2. <<"set", f>> \in RunOf(g) <=> f = g
      BY Kinds
    <3> QED BY <1>4, <2>1, <3>1, <3>2, AppendIn
  <2>4. QueueInv'
    BY <1>2, <1>3, <2>3 DEF QueueInv, Done
  <2>5. \A g \in Objects \ {f} : Live(g)' <=> Live(g)
    BY <1>2, <2>3 DEF Live, Pending
  <2>6. Live(f)'
    BY <2>3 DEF Live
  <2> QED BY <1>2, <1>3, <1>5, <1>7, <2>2, <2>4, <2>5, <2>6
<1> QED BY <1>6, <1>7

(* The same when the entries do not change: nobody's wake-up does either.  *)
LEMMA AnnounceKeeps ==
    ASSUME SchedInv, NEW f \in Objects, Pending(f),
           NEW s \in {"finished", "canceled"},
           call_done_callbacks(f, s, callbacks[f]),
           UNCHANGED <<callbacks, resolving, at>>
    PROVE  /\ \A u \in Tasks :
                /\ In(ready', StepsOf(u)) <=> In(ready, StepsOf(u))
                /\ Once(ready', StepsOf(u))
                /\ \A g \in Objects : \A i \in Nat : Wake(g, i, u)' <=> Wake(g, i, u)
           /\ QueueInv'
           /\ EntryInv'
           /\ f # resolving
           /\ status'[f] = s
           /\ \A g \in Objects \ {f} : status'[g] = status[g]
           /\ resolving # None => status'[resolving] \in {"finished", "canceled"}
<1> TaskTypes /\ QueueInv /\ PcInv /\ EntryInv /\ \A u \in Tasks : WakeInv(u)
  BY DEF SchedInv
<1>1. /\ \A u \in Tasks :
            /\ In(ready', StepsOf(u)) <=> In(ready, StepsOf(u))
            /\ Once(ready, StepsOf(u)) => Once(ready', StepsOf(u))
      /\ QueueInv'
      /\ f # resolving
      /\ status'[f] = s
      /\ \A g \in Objects \ {f} :
            status'[g] = status[g] /\ (Live(g)' <=> Live(g))
      /\ Live(f)' <=> callbacks[f] # <<>>
      /\ resolving # None => status'[resolving] \in {"finished", "canceled"}
  BY Announce
<1>2. \A g \in Objects : (Live(g)' <=> Live(g)) \/ callbacks[g] = <<>>
  <2>1. Live(f)
    BY DEF Live
  <2> QED BY <1>1, <2>1
<1>3. \A u \in Tasks : \A g \in Objects : \A i \in Nat : Wake(g, i, u)' <=> Wake(g, i, u)
  BY <1>2, WakeSame
<1>4. EntryInv'
  BY <1>1 DEF EntryInv
<1>5. \A u \in Tasks : Once(ready', StepsOf(u))
  BY <1>1 DEF WakeInv
<1> QED BY <1>1, <1>3, <1>4, <1>5

(* A callback that steps nobody and resolves nobody.                       *)
LEMMA QuietCallback ==
    ASSUME SchedInv, NEW c \in Scheduled, ready' = Append(ready, c),
           \A u \in Tasks : c \notin StepsOf(u),
           \A f \in Objects : c \notin RunOf(f)
    PROVE  /\ \A u \in Tasks :
                /\ In(ready', StepsOf(u)) <=> In(ready, StepsOf(u))
                /\ Once(ready', StepsOf(u))
           /\ \A f \in Objects :
                /\ In(ready', RunOf(f)) <=> In(ready, RunOf(f))
                /\ Once(ready', RunOf(f))
<1>1. ready \in Seq(Scheduled)
  BY DEF SchedInv, TaskTypes
<1>2. ASSUME NEW u \in Tasks
      PROVE  /\ In(ready', StepsOf(u)) <=> In(ready, StepsOf(u))
             /\ Once(ready', StepsOf(u))
  <2>1. Once(ready, StepsOf(u))
    BY DEF SchedInv, WakeInv
  <2> QED BY <1>1, <2>1, AppendIn
<1>3. ASSUME NEW f \in Objects
      PROVE  /\ In(ready', RunOf(f)) <=> In(ready, RunOf(f))
             /\ Once(ready', RunOf(f))
  <2>1. Once(ready, RunOf(f))
    BY DEF SchedInv, QueueInv
  <2> QED BY <1>1, <2>1, AppendIn
<1> QED BY <1>2, <1>3

(* create_future                                                           *)
LEMMA CreateFutureKeeps ==
    ASSUME SchedInv, NEW f \in Futures, create_future(f)
    PROVE  SchedInv'
<1> TaskTypes /\ QueueInv /\ PcInv /\ EntryInv /\ \A u \in Tasks : WakeInv(u)
  BY DEF SchedInv
<1>1. TaskTypes'
  BY PythonTypes DEF PythonStep
<1>2. /\ f \in Objects /\ f \notin Tasks /\ status[f] = "new"
      /\ status' = [status EXCEPT ![f] = "pending"]
      /\ UNCHANGED <<callbacks, ready, resolving, at, pc, current, coro, fut_waiter>>
  BY TaskAssumption DEF create_future, Objects, runvars, taskvars
<1>3. status'[f] = "pending" /\ \A g \in Objects \ {f} : status'[g] = status[g]
  BY <1>2 DEF TaskTypes
<1>4. callbacks[f] = <<>> /\ f # resolving /\ ~In(ready, RunOf(f))
  BY <1>2, TaskAssumption DEF EntryInv, PcInv, QueueInv, Done, Objects
<1>5. QueueInv'
  BY <1>2, <1>3, <1>4 DEF QueueInv, Done
<1>6. EntryInv'
  BY <1>2, <1>3 DEF EntryInv
<1>7. PcInv'
  <2>1. \A t \in Tasks : status'[t] = status[t]
    BY <1>2, <1>3 DEF Objects
  <2>2. resolving # None => status'[resolving] = status[resolving]
    BY <1>3, <1>4 DEF TaskTypes
  <2> QED BY <1>2, <2>1, <2>2 DEF PcInv, Pending, Done
<1>8. ASSUME NEW u \in Tasks PROVE WakeInv(u)'
  <2>1. \A g \in Objects : (Live(g)' <=> Live(g)) \/ callbacks[g] = <<>>
    BY <1>2, <1>3, <1>4 DEF Live, Pending
  <2>2. \A g \in Objects : \A i \in Nat : Wake(g, i, u)' <=> Wake(g, i, u)
    BY <1>2, <2>1, WakeSame
  <2>3. status'[u] = status[u]
    BY <1>2, <1>3 DEF Objects
  <2>4. Once(ready, StepsOf(u))
    BY DEF WakeInv
  <2> QED BY <1>2, <2>2, <2>3, <2>4, WakeFrame
<1> QED BY <1>1, <1>5, <1>6, <1>7, <1>8 DEF SchedInv

(* A future that is no task is resolved from Python code, or by a          *)
(* cancellation.                                                           *)
LEMMA FutureResolved ==
    ASSUME SchedInv, TaskTypes', NEW f \in Futures, Pending(f),
           NEW s \in {"finished", "canceled"},
           call_done_callbacks(f, s, callbacks[f]),
           UNCHANGED <<callbacks, resolving, at, pc, current, coro, fut_waiter>>
    PROVE  SchedInv'
<1> TaskTypes /\ QueueInv /\ PcInv /\ EntryInv /\ \A u \in Tasks : WakeInv(u)
  BY DEF SchedInv
<1>1. f \in Objects /\ f \notin Tasks
  BY TaskAssumption DEF Objects
<1>2. /\ \A u \in Tasks :
            /\ In(ready', StepsOf(u)) <=> In(ready, StepsOf(u))
            /\ Once(ready', StepsOf(u))
            /\ \A g \in Objects : \A i \in Nat : Wake(g, i, u)' <=> Wake(g, i, u)
      /\ QueueInv'
      /\ EntryInv'
      /\ \A g \in Objects \ {f} : status'[g] = status[g]
      /\ resolving # None => status'[resolving] \in {"finished", "canceled"}
  BY <1>1, AnnounceKeeps
<1>3. \A u \in Tasks : status'[u] = status[u]
  BY <1>1, <1>2 DEF Objects
<1>4. PcInv'
  BY <1>2, <1>3 DEF PcInv, Pending, Done
<1>5. ASSUME NEW u \in Tasks PROVE WakeInv(u)'
  BY <1>2, <1>3, WakeFrame
<1> QED BY <1>2, <1>4, <1>5 DEF SchedInv

(* resolve                                                                 *)
LEMMA ResolveKeeps ==
    ASSUME SchedInv, NEW f \in Futures, resolve(f)
    PROVE  SchedInv'
<1>1. TaskTypes'
  BY PythonTypes DEF PythonStep, SchedInv
<1>2. /\ Pending(f)
      /\ UNCHANGED <<callbacks, resolving, at, pc, current, coro, fut_waiter>>
      /\ \/ call_done_callbacks(f, "finished", callbacks[f])
         \/ call_done_callbacks(f, "canceled", callbacks[f])
  BY DEF resolve, taskvars, set_result, set_exception, future_cancel
<1> QED BY <1>1, <1>2, FutureResolved

(* create_task: its first step is the one in the queue.                    *)
LEMMA CreateTaskKeeps ==
    ASSUME SchedInv, NEW t \in Tasks, create_task(t)
    PROVE  SchedInv'
<1> TaskTypes /\ QueueInv /\ PcInv /\ EntryInv /\ \A u \in Tasks : WakeInv(u)
  BY DEF SchedInv
<1>1. TaskTypes'
  BY PythonTypes DEF PythonStep
<1>2. /\ t \in Objects /\ status[t] = "new" /\ <<"send", t>> \in Scheduled
      /\ status' = [status EXCEPT ![t] = "pending"]
      /\ ready' = Append(ready, <<"send", t>>) /\ ready \in Seq(Scheduled)
      /\ UNCHANGED <<callbacks, resolving, at, pc, current, coro, fut_waiter>>
  BY DEF create_task, Objects, taskvars, Scheduled, TaskTypes
<1>3. status'[t] = "pending" /\ \A g \in Objects \ {t} : status'[g] = status[g]
  BY <1>2 DEF TaskTypes
<1>4. callbacks[t] = <<>> /\ t # resolving /\ ~In(ready, RunOf(t))
  BY <1>2, TaskAssumption DEF EntryInv, PcInv, QueueInv, Done, Objects
<1>5. \A g \in Objects :
        /\ In(ready', RunOf(g)) <=> In(ready, RunOf(g))
        /\ Once(ready', RunOf(g))
  <2> SUFFICES ASSUME NEW g \in Objects
               PROVE  /\ In(ready', RunOf(g)) <=> In(ready, RunOf(g))
                      /\ Once(ready', RunOf(g))
    OBVIOUS
  <2>1. <<"send", t>> \notin RunOf(g) /\ Once(ready, RunOf(g))
    BY Kinds DEF QueueInv
  <2> QED BY <1>2, <2>1, AppendIn
<1>6. QueueInv'
  BY <1>2, <1>3, <1>4, <1>5 DEF QueueInv, Done
<1>7. EntryInv'
  BY <1>2, <1>3 DEF EntryInv
<1>8. PcInv'
  <2>1. \A u \in Tasks : u # t => status'[u] = status[u]
    BY <1>2, <1>3 DEF Objects
  <2>2. resolving # None => status'[resolving] = status[resolving]
    BY <1>3, <1>4 DEF TaskTypes
  <2> QED BY <1>2, <1>3, <2>1, <2>2 DEF PcInv, Pending, Done
<1>9. \A u \in Tasks : \A g \in Objects : \A i \in Nat : Wake(g, i, u)' <=> Wake(g, i, u)
  <2>1. \A g \in Objects : (Live(g)' <=> Live(g)) \/ callbacks[g] = <<>>
    BY <1>2, <1>3, <1>4, <1>5 DEF Live, Pending
  <2> QED BY <1>2, <2>1, WakeSame
<1>10. ASSUME NEW u \in Tasks, u # t PROVE WakeInv(u)'
  <2>1. <<"send", t>> \notin StepsOf(u) /\ Once(ready, StepsOf(u))
    BY <1>10, Kinds DEF WakeInv
  <2>2. /\ In(ready', StepsOf(u)) <=> In(ready, StepsOf(u))
        /\ Once(ready', StepsOf(u))
    BY <1>2, <2>1, AppendIn
  <2>3. status'[u] = status[u]
    BY <1>2, <1>3, <1>10 DEF Objects
  <2> QED BY <1>2, <1>9, <2>2, <2>3, WakeFrame
<1>11. WakeInv(t)'
  <2>1. <<"send", t>> \in StepsOf(t) /\ ~In(ready, StepsOf(t)) /\ Once(ready, StepsOf(t))
        /\ \A g \in Objects : \A i \in Nat : ~Wake(g, i, t)
    BY <1>2, Kinds DEF WakeInv
  <2>2. In(ready', StepsOf(t)) /\ Once(ready', StepsOf(t))
    BY <1>2, <2>1, AppendIn
  <2>3. \A g \in Objects : \A i \in Nat : ~Wake(g, i, t)'
    BY <1>9, <2>1
  <2>4. fut_waiter[t] = None
    BY <2>1 DEF WakeInv, TaskTypes
  <2>5. coro'[t] = "suspended" /\ fut_waiter'[t] = None
    <3>1. coro[t] = "suspended"
      BY <1>2 DEF PcInv
    <3> QED BY <1>2, <2>4, <3>1
  <2> QED BY <1>3, <2>2, <2>3, <2>5 DEF WakeInv
<1> QED BY <1>1, <1>6, <1>7, <1>8, <1>10, <1>11 DEF SchedInv

(* task_cancel: the future at the end of the path, or a mark.              *)
LEMMA CancelKeeps ==
    ASSUME SchedInv, NEW t \in Tasks, task_cancel(t)
    PROVE  SchedInv'
<1>1. TaskTypes'
  BY PythonTypes DEF PythonStep, SchedInv
<1>2. UNCHANGED <<callbacks, resolving, at, pc, current, coro, fut_waiter>>
  BY DEF task_cancel
<1>3. \/ \E w \in Futures :
            Pending(w) /\ call_done_callbacks(w, "canceled", callbacks[w])
      \/ UNCHANGED <<status, ready>>
  BY DEF task_cancel, future_cancel, Pending
<1>4. CASE UNCHANGED <<status, ready>>
  <2>1. \A f \in Objects : Live(f)' <=> Live(f)
    BY <1>2, <1>4 DEF Live, Pending
  <2>2. \A u \in Tasks : WakeInv(u)'
    <3> SUFFICES ASSUME NEW u \in Tasks PROVE WakeInv(u)'
      OBVIOUS
    <3>1. WakeInv(u) /\ TaskTypes /\ Once(ready, StepsOf(u))
      BY DEF SchedInv, WakeInv
    <3>2. \A g \in Objects : \A i \in Nat : Wake(g, i, u)' <=> Wake(g, i, u)
      BY <1>2, <2>1, <3>1, WakeSame
    <3> QED BY <1>2, <1>4, <3>1, <3>2, WakeFrame
  <2>3. QueueInv' /\ EntryInv' /\ PcInv'
    BY <1>2, <1>4 DEF SchedInv, QueueInv, EntryInv, PcInv, Done, Pending
  <2> QED BY <1>1, <2>2, <2>3 DEF SchedInv
<1> QED BY <1>1, <1>2, <1>3, <1>4, FutureResolved

(* Nothing that concerns the wake-ups changes.                             *)
LEMMA SchedStutters ==
    ASSUME SchedInv, TaskTypes',
           UNCHANGED <<status, callbacks, ready, resolving, at, pc, current,
                       coro, fut_waiter>>
    PROVE  SchedInv'
BY DEF SchedInv, QueueInv, EntryInv, PcInv, WakeInv, Wake, Live, Done, Pending

(* add_done_callback and remove_done_callback: entries of no task.         *)
LEMMA ListenerKeeps ==
    ASSUME SchedInv, NEW f \in Objects, NEW l \in Listeners,
           add_done_callback(f, l) \/ remove_done_callback(f, l)
    PROVE  SchedInv'
<1> TaskTypes /\ QueueInv /\ PcInv /\ EntryInv /\ \A u \in Tasks : WakeInv(u)
  BY DEF SchedInv
<1>1. TaskTypes' /\ callbacks[f] \in Seq(Entries)
  BY PythonTypes DEF PythonStep, TaskTypes
<1>2. UNCHANGED <<status, resolving, at, pc, current, coro, fut_waiter>>
  BY DEF add_done_callback, remove_done_callback, taskvars, runvars
<1>3. PcInv'
  BY <1>2 DEF PcInv, Done, Pending
<1>4. CASE callbacks' = callbacks /\ ready' = Append(ready, <<"call", l>>)
  <2>1. <<"call", l>> \in Scheduled
    BY DEF Scheduled
  <2>2. /\ \A u \in Tasks :
            /\ In(ready', StepsOf(u)) <=> In(ready, StepsOf(u))
            /\ Once(ready', StepsOf(u))
        /\ \A g \in Objects :
            /\ In(ready', RunOf(g)) <=> In(ready, RunOf(g))
            /\ Once(ready', RunOf(g))
    BY <1>4, <2>1, QuietCallback, Kinds
  <2>3. QueueInv' /\ EntryInv'
    BY <1>2, <1>4, <2>2 DEF QueueInv, EntryInv, Done
  <2>4. \A g \in Objects : Live(g)' <=> Live(g)
    BY <1>2, <2>2 DEF Live, Pending
  <2>5. ASSUME NEW u \in Tasks PROVE WakeInv(u)'
    <3>1. \A g \in Objects : \A i \in Nat : Wake(g, i, u)' <=> Wake(g, i, u)
      BY <1>2, <1>4, <2>4, WakeSame
    <3> QED BY <1>2, <2>2, <3>1, WakeFrame
  <2> QED BY <1>1, <1>3, <2>3, <2>5 DEF SchedInv
<1>5. ASSUME UNCHANGED ready, EntryInv',
             \A u \in Tasks : \A g \in Objects : \A i \in Nat :
                Wake(g, i, u)' <=> Wake(g, i, u)
      PROVE  SchedInv'
  <2>1. QueueInv'
    BY <1>2, <1>5 DEF QueueInv, Done
  <2>2. ASSUME NEW u \in Tasks PROVE WakeInv(u)'
    <3>1. Once(ready, StepsOf(u))
      BY DEF WakeInv
    <3> QED BY <1>2, <1>5, <3>1, WakeFrame
  <2> QED BY <1>1, <1>3, <1>5, <2>1, <2>2 DEF SchedInv
<1>6. CASE /\ UNCHANGED ready /\ Pending(f)
           /\ callbacks' = [callbacks EXCEPT ![f] = Append(@, Waiter(l))]
  <2>1. /\ Len(callbacks'[f]) = Len(callbacks[f]) + 1 /\ Len(callbacks[f]) \in Nat
        /\ callbacks'[f][Len(callbacks[f]) + 1] = Waiter(l)
        /\ \A i \in 1 .. Len(callbacks[f]) : callbacks'[f][i] = callbacks[f][i]
        /\ \A g \in Objects \ {f} : callbacks'[g] = callbacks[g]
    BY <1>1, <1>6 DEF TaskTypes
  <2>2. Waiter(l).cb = l /\ ~Waiter(l).cancelled /\ l \notin Tasks
    BY TaskAssumption DEF Waiter
  <2>3. \A i \in 1 .. Len(callbacks'[f]) :
            i \in 1 .. Len(callbacks[f]) \/ i = Len(callbacks[f]) + 1
    BY <2>1
  <2>4. EntryInv'
    <3> SUFFICES ASSUME NEW g \in Objects
                 PROVE  /\ status'[g] = "new" => callbacks'[g] = <<>>
                        /\ \A i \in 1 .. Len(callbacks'[g]) :
                            callbacks'[g][i].cancelled
                                => callbacks'[g][i].cb \in Listeners
      BY DEF EntryInv
    <3>1. CASE g = f
      BY <1>2, <1>6, <2>1, <2>2, <2>3, <3>1 DEF EntryInv, Pending
    <3>2. CASE g # f
      BY <1>2, <2>1, <3>2 DEF EntryInv
    <3> QED BY <3>1, <3>2
  <2>5. ASSUME NEW u \in Tasks, NEW g \in Objects, NEW i \in Nat
        PROVE  Wake(g, i, u)' <=> Wake(g, i, u)
    <3>1. Live(g)' <=> Live(g)
      BY <1>2, <1>6 DEF Live, Pending
    <3>2. CASE g # f
      BY <1>2, <2>1, <3>1, <3>2 DEF Wake
    <3>3. CASE g = f
      <4>1. /\ i \in 1 .. Len(callbacks'[f]) /\ callbacks'[f][i].cb = u
            <=> i \in 1 .. Len(callbacks[f]) /\ callbacks[f][i].cb = u
        BY <2>1, <2>2, <2>3
      <4> QED BY <1>2, <3>1, <3>3, <4>1 DEF Wake
    <3> QED BY <3>2, <3>3
  <2> QED BY <1>5, <1>6, <2>4, <2>5
<1>7. ASSUME NEW k \in 1 .. Len(callbacks[f]), callbacks[f][k].cb = l, UNCHANGED ready,
             callbacks' = [callbacks EXCEPT ![f][k].cancelled = TRUE]
      PROVE  SchedInv'
  <2> DEFINE x == [callbacks[f][k] EXCEPT !.cancelled = TRUE]
  <2>1. callbacks[f][k] \in Entries
    BY <1>1, ElementOfSeq
  <2>2. x.cb = l
    BY <1>7, <2>1 DEF Entries
  <2>3. callbacks' = [callbacks EXCEPT ![f] = [callbacks[f] EXCEPT ![k] = x]]
    BY <1>7
  <2> HIDE DEF x
  <2>4. /\ Len(callbacks'[f]) = Len(callbacks[f])
        /\ callbacks'[f][k] = x
        /\ \A i \in 1 .. Len(callbacks[f]) : i # k => callbacks'[f][i] = callbacks[f][i]
        /\ \A g \in Objects \ {f} : callbacks'[g] = callbacks[g]
    BY <1>1, <2>3 DEF TaskTypes
  <2>5. EntryInv'
    <3> SUFFICES ASSUME NEW g \in Objects
                 PROVE  /\ status'[g] = "new" => callbacks'[g] = <<>>
                        /\ \A i \in 1 .. Len(callbacks'[g]) :
                            callbacks'[g][i].cancelled
                                => callbacks'[g][i].cb \in Listeners
      BY DEF EntryInv
    <3>1. CASE g = f
      <4>1. status[f] # "new"
        BY <1>1, <1>7 DEF EntryInv
      <4> QED BY <1>2, <2>2, <2>4, <3>1, <4>1 DEF EntryInv
    <3>2. CASE g # f
      BY <1>2, <2>4, <3>2 DEF EntryInv
    <3> QED BY <3>1, <3>2
  <2>6. \A g \in Objects :
            /\ Len(callbacks'[g]) = Len(callbacks[g])
            /\ \A i \in 1 .. Len(callbacks[g]) :
                callbacks'[g][i].cb = callbacks[g][i].cb
    BY <1>7, <2>2, <2>4
  <2>7. \A g \in Objects : Live(g)' <=> Live(g)
    BY <1>2, <1>7 DEF Live, Pending
  <2>8. \A u \in Tasks : \A g \in Objects : \A i \in Nat :
            Wake(g, i, u)' <=> Wake(g, i, u)
    BY <1>2, <2>6, <2>7, WakeSame
  <2> QED BY <1>5, <1>7, <2>5, <2>8
<1>8. CASE add_done_callback(f, l)
  BY <1>4, <1>6, <1>8 DEF add_done_callback
<1>9. CASE remove_done_callback(f, l)
  <2>1. DOMAIN callbacks[f] = 1 .. Len(callbacks[f])
    BY <1>1
  <2> QED BY <1>7, <1>9, <2>1 DEF remove_done_callback, runvars
<1> QED BY <1>8, <1>9

(* Python code keeps the wake-ups.                                         *)
LEMMA PythonKeeps ==
    ASSUME SchedInv, PythonStep
    PROVE  SchedInv'
<1>1. ASSUME NEW t \in Tasks, task_uncancel(t) PROVE SchedInv'
  <2>1. TaskTypes'
    BY PythonTypes DEF SchedInv
  <2> QED BY <1>1, <2>1, SchedStutters DEF task_uncancel, futvars, runvars
<1> QED BY <1>1, CreateFutureKeeps, ResolveKeeps, CreateTaskKeeps, CancelKeeps,
           ListenerKeeps DEF PythonStep

-----------------------------------------------------------------------------
(* Wake-ups: the callbacks that the loop runs.                             *)

(* Between two callbacks no coroutine runs and no future is resolving.     *)
LEMMA TakenFromQueue ==
    ASSUME SchedInv, NEW kind, NEW x, Take(kind, x)
    PROVE  /\ pc = "idle" /\ resolving = None
           /\ \A u \in Tasks : coro[u] # "running"
           /\ \A u \in Tasks :
                /\ Once(ready', StepsOf(u))
                /\ <<kind, x>> \in StepsOf(u) =>
                    In(ready, StepsOf(u)) /\ ~In(ready', StepsOf(u))
                /\ <<kind, x>> \notin StepsOf(u) =>
                    (In(ready', StepsOf(u)) <=> In(ready, StepsOf(u)))
           /\ \A f \in Objects :
                /\ Once(ready', RunOf(f))
                /\ <<kind, x>> \in RunOf(f) =>
                    In(ready, RunOf(f)) /\ ~In(ready', RunOf(f))
                /\ <<kind, x>> \notin RunOf(f) =>
                    (In(ready', RunOf(f)) <=> In(ready, RunOf(f)))
<1>1. /\ pc = "idle" /\ ready # <<>> /\ Head(ready) = <<kind, x>>
      /\ ready' = Tail(ready) /\ ready \in Seq(Scheduled)
  BY DEF Take, SchedInv, TaskTypes
<1>2. resolving = None /\ \A u \in Tasks : coro[u] # "running"
  BY <1>1 DEF SchedInv, PcInv
<1>3. ASSUME NEW C, Once(ready, C)
      PROVE  /\ Once(ready', C)
             /\ <<kind, x>> \in C => In(ready, C) /\ ~In(ready', C)
             /\ <<kind, x>> \notin C => (In(ready', C) <=> In(ready, C))
  BY <1>1, <1>3, TailIn
<1>4. /\ \A u \in Tasks : Once(ready, StepsOf(u))
      /\ \A f \in Objects : Once(ready, RunOf(f))
  BY DEF SchedInv, WakeInv, QueueInv
<1> QED BY <1>1, <1>2, <1>3, <1>4

(* What Enter does to the coroutines.                                      *)
LEMMA EnterRuns ==
    ASSUME TaskTypes, NEW t \in Tasks, NEW e, Enter(t, e)
    PROVE  /\ \A u \in Tasks \ {t} : coro'[u] = coro[u]
           /\ Pending(t) => /\ coro'[t] = "running"
                            /\ pc' = "running"
                            /\ current' = t
           /\ ~Pending(t) => /\ UNCHANGED <<coro, current>>
                             /\ pc' \in {"off", "idle", "callbacks"}
                             /\ pc' \in {"off", "idle"} <=> resolving = None
BY ReturnEnds DEF Enter, TaskTypes

(* A step of a task: from the queue.                                       *)
LEMMA SendKeeps ==
    ASSUME SchedInv, NEW t \in Tasks, execute_task_send(t) \/ execute_task_throw(t)
    PROVE  SchedInv'
<1> TaskTypes /\ QueueInv /\ PcInv /\ EntryInv /\ \A u \in Tasks : WakeInv(u)
  BY DEF SchedInv
<1>1. TaskTypes'
  BY LoopTypes
<1>2. /\ Take("send", t) \/ Take("throw", t)
      /\ Enter(t, "none") \/ Enter(t, "error")
      /\ UNCHANGED <<status, callbacks, fut_waiter, resolving, at>>
  BY DEF execute_task_send, execute_task_throw, futvars
<1>3. /\ pc = "idle" /\ resolving = None
      /\ \A u \in Tasks : coro[u] # "running"
      /\ \A u \in Tasks : Once(ready', StepsOf(u))
      /\ In(ready, StepsOf(t)) /\ ~In(ready', StepsOf(t))
      /\ \A u \in Tasks \ {t} : In(ready', StepsOf(u)) <=> In(ready, StepsOf(u))
      /\ \A f \in Objects :
            Once(ready', RunOf(f)) /\ (In(ready', RunOf(f)) <=> In(ready, RunOf(f)))
  <2>1. ASSUME NEW k \in {"send", "throw"}
        PROVE  /\ \A u \in Tasks : <<k, t>> \in StepsOf(u) <=> t = u
               /\ \A f \in Objects : <<k, t>> \notin RunOf(f)
    BY DEF StepsOf, RunOf
  <2>2. CASE Take("send", t)
    BY <2>1, <2>2, TakenFromQueue
  <2>3. CASE Take("throw", t)
    BY <2>1, <2>3, TakenFromQueue
  <2> QED BY <1>2, <2>2, <2>3
<1>4. /\ \A u \in Tasks \ {t} : coro'[u] = coro[u]
      /\ Pending(t) => coro'[t] = "running" /\ pc' = "running" /\ current' = t
      /\ ~Pending(t) => /\ UNCHANGED <<coro, current>>
                        /\ pc' \in {"off", "idle"}
  BY <1>2, <1>3, EnterRuns
<1>5. QueueInv' /\ EntryInv'
  BY <1>2, <1>3 DEF QueueInv, EntryInv, Done
<1>6. PcInv'
  <2>1. CASE Pending(t)
    BY <1>2, <1>3, <1>4, <2>1 DEF PcInv, Pending, Done
  <2>2. CASE ~Pending(t)
    BY <1>2, <1>3, <1>4, <2>2 DEF PcInv, Pending, Done
  <2> QED BY <2>1, <2>2
<1>7. ASSUME NEW u \in Tasks, NEW g \in Objects, NEW i \in Nat
      PROVE  Wake(g, i, u)' <=> Wake(g, i, u)
  <2>1. \A f \in Objects : Live(f)' <=> Live(f)
    BY <1>2, <1>3 DEF Live, Pending
  <2> QED BY <1>2, <2>1, WakeSame
<1>8. ASSUME NEW u \in Tasks \ {t} PROVE WakeInv(u)'
  BY <1>2, <1>3, <1>4, <1>7, WakeFrame
<1>9. WakeInv(t)'
  <2>1. /\ \A g \in Objects : \A i \in Nat : ~Wake(g, i, t)
        /\ fut_waiter[t] = None
    BY <1>3 DEF WakeInv, TaskTypes
  <2>2. \A g \in Objects : \A i \in Nat : ~Wake(g, i, t)'
    BY <1>7, <2>1
  <2>3. fut_waiter'[t] = None /\ ~(status'[t] = "pending" /\ coro'[t] = "suspended")
    BY <1>2, <1>4, <2>1 DEF Pending
  <2> QED BY <1>3, <2>2, <2>3 DEF WakeInv, Pending
<1> QED BY <1>1, <1>5, <1>6, <1>8, <1>9 DEF SchedInv

(* The handle of a listener.                                               *)
LEMMA HandleKeeps ==
    ASSUME SchedInv, NEW l \in Listeners, execute_handle(l)
    PROVE  SchedInv'
<1> TaskTypes /\ QueueInv /\ PcInv /\ EntryInv /\ \A u \in Tasks : WakeInv(u)
  BY DEF SchedInv
<1>1. TaskTypes'
  BY LoopTypes
<1>2. /\ Take("call", l)
      /\ UNCHANGED <<status, callbacks, fut_waiter, coro, current, resolving, at>>
  BY DEF execute_handle, futvars, taskvars
<1>3. /\ pc = "idle" /\ resolving = None
      /\ \A u \in Tasks : coro[u] # "running"
      /\ \A u \in Tasks :
            Once(ready', StepsOf(u)) /\ (In(ready', StepsOf(u)) <=> In(ready, StepsOf(u)))
      /\ \A f \in Objects :
            Once(ready', RunOf(f)) /\ (In(ready', RunOf(f)) <=> In(ready, RunOf(f)))
  <2>1. /\ \A u \in Tasks : <<"call", l>> \notin StepsOf(u)
        /\ \A f \in Objects : <<"call", l>> \notin RunOf(f)
    BY DEF StepsOf, RunOf
  <2> QED BY <1>2, <2>1, TakenFromQueue
<1>4. pc' \in {"off", "idle"}
  BY <1>3, ReturnEnds DEF execute_handle
<1>5. QueueInv' /\ EntryInv' /\ PcInv'
  BY <1>2, <1>3, <1>4 DEF QueueInv, EntryInv, PcInv, Done, Pending
<1>6. ASSUME NEW u \in Tasks PROVE WakeInv(u)'
  <2>1. \A f \in Objects : Live(f)' <=> Live(f)
    BY <1>2, <1>3 DEF Live, Pending
  <2>2. \A g \in Objects : \A i \in Nat : Wake(g, i, u)' <=> Wake(g, i, u)
    BY <1>2, <2>1, WakeSame
  <2> QED BY <1>2, <1>3, <2>2, WakeFrame
<1> QED BY <1>1, <1>5, <1>6 DEF SchedInv

(* The done callbacks of a future begin to run.                            *)
LEMMA RunSetKeeps ==
    ASSUME SchedInv, NEW f \in Objects, run_set_callbacks(f)
    PROVE  SchedInv'
<1> TaskTypes /\ QueueInv /\ PcInv /\ EntryInv /\ \A u \in Tasks : WakeInv(u)
  BY DEF SchedInv
<1>1. TaskTypes'
  BY LoopTypes
<1>2. /\ Take("set", f) /\ pc' = "callbacks" /\ resolving' = f /\ at' = 1
      /\ UNCHANGED <<status, callbacks, fut_waiter, coro, current>>
  BY DEF run_set_callbacks, futvars, taskvars
<1>3. /\ pc = "idle" /\ resolving = None
      /\ \A u \in Tasks : coro[u] # "running"
      /\ \A u \in Tasks :
            Once(ready', StepsOf(u)) /\ (In(ready', StepsOf(u)) <=> In(ready, StepsOf(u)))
      /\ \A g \in Objects : Once(ready', RunOf(g))
      /\ \A g \in Objects \ {f} : In(ready', RunOf(g)) <=> In(ready, RunOf(g))
      /\ In(ready, RunOf(f)) /\ ~In(ready', RunOf(f))
  <2>1. /\ \A u \in Tasks : <<"set", f>> \notin StepsOf(u)
        /\ \A g \in Objects : <<"set", f>> \in RunOf(g) <=> f = g
    BY DEF StepsOf, RunOf
  <2> QED BY <1>2, <2>1, TakenFromQueue
<1>4. Done(f) /\ f # None
  BY <1>3, TaskAssumption DEF QueueInv, Objects
<1>5. QueueInv'
  BY <1>2, <1>3 DEF QueueInv, Done
<1>6. EntryInv' /\ PcInv'
  BY <1>2, <1>3, <1>4 DEF EntryInv, PcInv, Done, Pending
<1>7. ASSUME NEW u \in Tasks PROVE WakeInv(u)'
  <2>1. \A g \in Objects : (Live(g)' <=> Live(g)) /\ g # resolving
    <3>1. \A g \in Objects : g # resolving
      BY <1>3, TaskAssumption DEF Objects
    <3> QED BY <1>2, <1>3, <3>1 DEF Live, Pending
  <2>2. \A g \in Objects : \A i \in Nat : Wake(g, i, u)' <=> Wake(g, i, u)
    BY <1>2, <2>1 DEF Wake
  <2> QED BY <1>2, <1>3, <2>2, WakeFrame
<1> QED BY <1>1, <1>5, <1>6, <1>7 DEF SchedInv

(* The next entry is run or passed over: it is no longer to be run.        *)
LEMMA EntryPassed ==
    ASSUME SchedInv, NextEntry,
           \/ UNCHANGED callbacks
           \/ callbacks' = [callbacks EXCEPT ![resolving][at].executed = TRUE],
           UNCHANGED <<status, ready, resolving>>
    PROVE  /\ EntryInv' /\ QueueInv'
           /\ \A u \in Tasks : \A g \in Objects : \A i \in Nat :
                Wake(g, i, u)' <=> Wake(g, i, u) /\ ~(g = resolving /\ i = at)
           /\ Wake(resolving, at, Entry.cb)
<1> TaskTypes /\ QueueInv /\ PcInv /\ EntryInv
  BY DEF SchedInv
<1>1. /\ resolving \in Objects /\ at \in 1 .. Len(callbacks[resolving])
      /\ at' = at + 1 /\ at \in Nat /\ callbacks[resolving] \in Seq(Entries)
  BY EntryIsThere DEF NextEntry, TaskTypes
<1>2. \A g \in Objects :
        /\ Len(callbacks'[g]) = Len(callbacks[g])
        /\ callbacks[g] = <<>> => callbacks'[g] = <<>>
        /\ \A i \in 1 .. Len(callbacks[g]) :
            /\ callbacks'[g][i].cb = callbacks[g][i].cb
            /\ callbacks'[g][i].cancelled = callbacks[g][i].cancelled
  <2>1. CASE UNCHANGED callbacks
    BY <2>1
  <2>2. CASE callbacks' = [callbacks EXCEPT ![resolving][at].executed = TRUE]
    <3> DEFINE x == [callbacks[resolving][at] EXCEPT !.executed = TRUE]
    <3>1. callbacks[resolving][at] \in Entries
      BY <1>1, ElementOfSeq
    <3>2. /\ x.cb = callbacks[resolving][at].cb
          /\ x.cancelled = callbacks[resolving][at].cancelled
      BY <3>1 DEF Entries
    <3>3. callbacks' = [callbacks EXCEPT
                            ![resolving] = [callbacks[resolving] EXCEPT ![at] = x]]
      BY <2>2
    <3> HIDE DEF x
    <3>4. /\ Len(callbacks'[resolving]) = Len(callbacks[resolving])
          /\ callbacks'[resolving][at] = x
          /\ \A i \in 1 .. Len(callbacks[resolving]) :
                i # at => callbacks'[resolving][i] = callbacks[resolving][i]
          /\ \A g \in Objects \ {resolving} : callbacks'[g] = callbacks[g]
      BY <1>1, <3>3 DEF TaskTypes
    <3>5. callbacks[resolving] # <<>>
      BY <1>1
    <3> QED BY <3>2, <3>4, <3>5
  <2> QED BY <2>1, <2>2
<1>3. EntryInv' /\ QueueInv'
  BY <1>2 DEF EntryInv, QueueInv, Done
<1>4. \A g \in Objects : Live(g)' <=> Live(g)
  BY DEF Live, Pending
<1>5. ASSUME NEW u \in Tasks, NEW g \in Objects, NEW i \in Nat
      PROVE  Wake(g, i, u)' <=> Wake(g, i, u) /\ ~(g = resolving /\ i = at)
  <2>1. CASE g = resolving
    <3>1. i >= at + 1 <=> i >= at /\ i # at
      BY <1>1
    <3> QED BY <1>1, <1>2, <1>4, <2>1, <3>1 DEF Wake
  <2>2. CASE g # resolving
    BY <1>2, <1>4, <2>2 DEF Wake
  <2> QED BY <2>1, <2>2
<1>6. Wake(resolving, at, Entry.cb)
  BY <1>1 DEF Wake, Live, Entry
<1> QED BY <1>3, <1>5, <1>6

(* A removed entry, or the one of a listener.                              *)
LEMMA ListenerEntryKeeps ==
    ASSUME SchedInv, skip_callback \/ call_listener
    PROVE  SchedInv'
<1> TaskTypes /\ QueueInv /\ PcInv /\ EntryInv /\ \A u \in Tasks : WakeInv(u)
  BY DEF SchedInv
<1>1. TaskTypes'
  BY LoopTypes
<1>2. /\ NextEntry
      /\ \/ UNCHANGED callbacks
         \/ callbacks' = [callbacks EXCEPT ![resolving][at].executed = TRUE]
      /\ UNCHANGED <<status, ready, resolving, coro, current, fut_waiter>>
      /\ Entry.cancelled \/ Entry.cb \in Listeners
  BY DEF skip_callback, call_listener, futvars, taskvars
<1>3. /\ EntryInv' /\ QueueInv'
      /\ \A u \in Tasks : \A g \in Objects : \A i \in Nat :
            Wake(g, i, u)' <=> Wake(g, i, u) /\ ~(g = resolving /\ i = at)
  BY <1>2, EntryPassed
<1>4. /\ resolving \in Objects /\ at \in 1 .. Len(callbacks[resolving])
      /\ pc = "callbacks" /\ resolving # None
  BY <1>2, EntryIsThere, TaskAssumption DEF NextEntry, Objects
<1>5. callbacks[resolving][at].cb \in Listeners
  BY <1>2, <1>4 DEF EntryInv, Entry
<1>6. \A u \in Tasks : ~Wake(resolving, at, u)
  BY <1>5, TaskAssumption DEF Wake
<1>7. pc' = "callbacks"
  BY <1>4 DEF skip_callback, call_listener, Return
<1>8. PcInv'
  BY <1>2, <1>4, <1>7 DEF PcInv, Done, Pending
<1>9. ASSUME NEW u \in Tasks PROVE WakeInv(u)'
  <2>1. \A g \in Objects : \A i \in Nat : Wake(g, i, u)' <=> Wake(g, i, u)
    BY <1>3, <1>6
  <2>2. Once(ready, StepsOf(u))
    BY DEF WakeInv
  <2> QED BY <1>2, <2>1, <2>2, WakeFrame
<1> QED BY <1>1, <1>3, <1>8, <1>9 DEF SchedInv

(* wakeup_task: the entry was the one wake-up of its task.                 *)
LEMMA WakeupKeeps ==
    ASSUME SchedInv, wakeup_task
    PROVE  SchedInv'
<1> TaskTypes /\ QueueInv /\ PcInv /\ EntryInv /\ \A u \in Tasks : WakeInv(u)
  BY DEF SchedInv
<1>1. TaskTypes'
  BY LoopTypes
<1> PICK t \in Tasks : t = Entry.cb
  BY DEF wakeup_task
<1>2. /\ NextEntry /\ Enter(t, exception[resolving])
      /\ callbacks' = [callbacks EXCEPT ![resolving][at].executed = TRUE]
      /\ fut_waiter' = [fut_waiter EXCEPT ![t] = None]
      /\ UNCHANGED <<status, ready, resolving>>
  BY DEF wakeup_task
<1>3. /\ EntryInv' /\ QueueInv'
      /\ \A u \in Tasks : \A g \in Objects : \A i \in Nat :
            Wake(g, i, u)' <=> Wake(g, i, u) /\ ~(g = resolving /\ i = at)
      /\ Wake(resolving, at, t)
  BY <1>2, EntryPassed
<1>4. /\ resolving \in Objects /\ at \in Nat
      /\ pc = "callbacks" /\ resolving # None
  BY <1>2, EntryIsThere, TaskAssumption DEF NextEntry, Objects
<1>5. callbacks[resolving][at].cb = t
  BY DEF Entry
<1>6. /\ \A u \in Tasks \ {t} : coro'[u] = coro[u]
      /\ Pending(t) => coro'[t] = "running" /\ pc' = "running" /\ current' = t
      /\ ~Pending(t) => UNCHANGED <<coro, current>> /\ pc' = "callbacks"
  BY <1>2, <1>4, EnterRuns
<1>7. PcInv'
  <2>1. \A u \in Tasks : coro[u] # "running"
    BY <1>4 DEF PcInv
  <2>2. CASE Pending(t)
    BY <1>2, <1>4, <1>6, <2>1, <2>2 DEF PcInv, Pending, Done
  <2>3. CASE ~Pending(t)
    BY <1>2, <1>4, <1>6, <2>1, <2>3 DEF PcInv, Pending, Done
  <2> QED BY <2>2, <2>3
<1>8. ASSUME NEW u \in Tasks \ {t} PROVE WakeInv(u)'
  <2>1. ~Wake(resolving, at, u)
    BY <1>5 DEF Wake
  <2>2. \A g \in Objects : \A i \in Nat : Wake(g, i, u)' <=> Wake(g, i, u)
    BY <1>3, <2>1
  <2>3. Once(ready, StepsOf(u)) /\ fut_waiter'[u] = fut_waiter[u]
    BY <1>2 DEF WakeInv, TaskTypes
  <2> QED BY <1>2, <1>6, <2>2, <2>3, WakeFrame
<1>9. WakeInv(t)'
  <2>1. \A g \in Objects : \A i \in Nat : ~Wake(g, i, t)'
    BY <1>2, <1>3, <1>4 DEF WakeInv
  <2>2. Once(ready', StepsOf(t)) /\ ~In(ready', StepsOf(t))
    BY <1>2, <1>3, <1>4 DEF WakeInv
  <2>3. fut_waiter'[t] = None /\ ~(status'[t] = "pending" /\ coro'[t] = "suspended")
    BY <1>2, <1>6 DEF Pending, TaskTypes
  <2> QED BY <2>1, <2>2, <2>3 DEF WakeInv, Pending
<1> QED BY <1>1, <1>3, <1>7, <1>8, <1>9 DEF SchedInv

(* All done callbacks ran: there is no entry behind the last.              *)
LEMMA CallbacksDoneKeeps ==
    ASSUME SchedInv, callbacks_done
    PROVE  SchedInv'
<1> TaskTypes /\ QueueInv /\ PcInv /\ EntryInv /\ \A u \in Tasks : WakeInv(u)
  BY DEF SchedInv
<1>1. TaskTypes'
  BY LoopTypes
<1>2. /\ pc = "callbacks" /\ at > Len(callbacks[resolving])
      /\ pc' = "idle" /\ resolving' = None /\ at' = 1
      /\ UNCHANGED <<status, callbacks, fut_waiter, coro, current, ready>>
  BY DEF callbacks_done, futvars, taskvars
<1>3. /\ resolving \in Objects /\ resolving # None /\ Done(resolving)
      /\ \A g \in Objects : g # None
      /\ \A u \in Tasks : coro[u] # "running"
      /\ Len(callbacks[resolving]) \in Nat /\ at \in Nat
  BY <1>2, TaskAssumption DEF PcInv, TaskTypes, Objects
<1>4. QueueInv' /\ EntryInv' /\ PcInv'
  BY <1>2, <1>3 DEF QueueInv, EntryInv, PcInv, Done, Pending
<1>5. ASSUME NEW u \in Tasks PROVE WakeInv(u)'
  <2>1. ASSUME NEW g \in Objects, NEW i \in Nat
        PROVE  Wake(g, i, u)' <=> Wake(g, i, u)
    <3>1. CASE g = resolving
      <4>1. ~Wake(g, i, u)
        BY <1>2, <1>3, <3>1 DEF Wake
      <4>2. ~In(ready, RunOf(g))
        BY <3>1 DEF QueueInv
      <4>3. ~Live(g)'
        BY <1>2, <1>3, <3>1, <4>2 DEF Live, Pending, Done
      <4> QED BY <4>1, <4>3 DEF Wake
    <3>2. CASE g # resolving
      <4>1. Live(g)' <=> Live(g)
        BY <1>2, <1>3, <3>2 DEF Live, Pending
      <4> QED BY <1>2, <1>3, <3>2, <4>1 DEF Wake
    <3> QED BY <3>1, <3>2
  <2>2. Once(ready, StepsOf(u))
    BY DEF WakeInv
  <2> QED BY <1>2, <2>1, <2>2, WakeFrame
<1> QED BY <1>1, <1>4, <1>5 DEF SchedInv

(* start                                                                   *)
LEMMA StartKeeps ==
    ASSUME SchedInv, start
    PROVE  SchedInv'
<1> TaskTypes /\ QueueInv /\ PcInv /\ EntryInv /\ \A u \in Tasks : WakeInv(u)
  BY DEF SchedInv
<1>1. TaskTypes'
  BY LoopTypes
<1>2. /\ pc = "off" /\ pc' = "idle"
      /\ UNCHANGED <<status, callbacks, fut_waiter, coro, current, ready, resolving, at>>
  BY DEF start, futvars, taskvars
<1>3. QueueInv' /\ EntryInv' /\ PcInv'
  BY <1>2 DEF QueueInv, EntryInv, PcInv, Done, Pending
<1>4. \A u \in Tasks : WakeInv(u)'
  BY <1>2 DEF WakeInv, Wake, Live, Pending
<1> QED BY <1>1, <1>3, <1>4 DEF SchedInv

-----------------------------------------------------------------------------
(* Wake-ups: the ends of a step.                                           *)

(* The task whose coroutine runs has no wake-up and waits for nothing.     *)
LEMMA Running ==
    ASSUME SchedInv, NEW t \in Tasks, NEW c, Leave(t, c)
    PROVE  /\ coro[t] = "running" /\ Pending(t)
           /\ ~In(ready, StepsOf(t)) /\ Once(ready, StepsOf(t))
           /\ \A g \in Objects : \A i \in Nat : ~Wake(g, i, t)
           /\ fut_waiter[t] = None
           /\ coro'[t] = c
           /\ \A u \in Tasks \ {t} : coro[u] # "running" /\ coro'[u] = coro[u]
           /\ t \in Objects /\ t # resolving
<1> TaskTypes /\ PcInv /\ WakeInv(t)
  BY DEF SchedInv
<1>1. coro[t] = "running" /\ Pending(t)
  BY DEF Leave, PcInv
<1>2. /\ ~In(ready, StepsOf(t)) /\ Once(ready, StepsOf(t))
      /\ \A g \in Objects : \A i \in Nat : ~Wake(g, i, t)
  BY <1>1 DEF WakeInv
<1>3. fut_waiter[t] = None
  BY <1>2 DEF WakeInv, TaskTypes
<1>4. coro'[t] = c /\ \A u \in Tasks \ {t} : coro[u] # "running" /\ coro'[u] = coro[u]
  BY DEF Leave, TaskTypes, PcInv
<1>5. t \in Objects /\ t # None
  BY TaskAssumption DEF Objects
<1>6. t # resolving
  BY <1>1, <1>5 DEF PcInv, Done, Pending
<1> QED BY <1>1, <1>2, <1>3, <1>4, <1>5, <1>6

(* The task ends: its coroutine returns, raises, or yields no future.      *)
LEMMA EndKeeps ==
    ASSUME SchedInv, TaskTypes', NEW t \in Tasks, NEW c \in {"suspended", "done"},
           Leave(t, c), NEW s \in {"finished", "canceled"},
           call_done_callbacks(t, s, callbacks[t]),
           fut_waiter' = fut_waiter \/ fut_waiter' = [fut_waiter EXCEPT ![t] = None],
           pc' \in {"off", "idle", "callbacks"},
           pc' \in {"off", "idle"} <=> resolving = None,
           UNCHANGED <<callbacks, resolving, at>>
    PROVE  SchedInv'
<1> TaskTypes /\ QueueInv /\ PcInv /\ EntryInv /\ \A u \in Tasks : WakeInv(u)
  BY DEF SchedInv
<1>1. /\ coro[t] = "running" /\ Pending(t)
      /\ ~In(ready, StepsOf(t))
      /\ \A g \in Objects : \A i \in Nat : ~Wake(g, i, t)
      /\ fut_waiter[t] = None /\ coro'[t] = c
      /\ \A u \in Tasks \ {t} : coro[u] # "running" /\ coro'[u] = coro[u]
      /\ t \in Objects /\ t # resolving
  BY Running
<1>2. /\ \A u \in Tasks :
            /\ In(ready', StepsOf(u)) <=> In(ready, StepsOf(u))
            /\ Once(ready', StepsOf(u))
            /\ \A g \in Objects : \A i \in Nat : Wake(g, i, u)' <=> Wake(g, i, u)
      /\ QueueInv' /\ EntryInv' /\ status'[t] = s
      /\ \A g \in Objects \ {t} : status'[g] = status[g]
      /\ resolving # None => status'[resolving] \in {"finished", "canceled"}
  BY <1>1, AnnounceKeeps
<1>3. \A u \in Tasks : fut_waiter'[u] = fut_waiter[u]
  BY <1>1 DEF TaskTypes
<1>4. \A u \in Tasks \ {t} : status'[u] = status[u]
  BY <1>2 DEF Objects
<1>5. PcInv'
  BY <1>1, <1>2, <1>4 DEF PcInv, Pending, Done
<1>6. ASSUME NEW u \in Tasks \ {t} PROVE WakeInv(u)'
  BY <1>1, <1>2, <1>3, <1>4, WakeFrame
<1>7. WakeInv(t)'
  BY <1>1, <1>2, <1>3 DEF WakeInv, Pending
<1> QED BY <1>2, <1>5, <1>6, <1>7 DEF SchedInv

(* The coroutine yields: the next step is the one in the queue.            *)
LEMMA YieldKeeps ==
    ASSUME SchedInv, NEW t \in Tasks, coro_yields(t) \/ coro_yields_badly(t)
    PROVE  SchedInv'
<1> TaskTypes /\ QueueInv /\ PcInv /\ EntryInv /\ \A u \in Tasks : WakeInv(u)
  BY DEF SchedInv
<1>1. TaskTypes'
  BY StepTypes DEF Step
<1>2. /\ Leave(t, "suspended") /\ Return("none")
      /\ UNCHANGED <<status, callbacks, resolving, at, fut_waiter>>
  BY DEF coro_yields, coro_yields_badly, futvars
<1>3. PICK k \in {"send", "throw"} : ready' = Append(ready, <<k, t>>)
  BY DEF coro_yields, coro_yields_badly
<1>4. /\ <<k, t>> \in Scheduled /\ ready \in Seq(Scheduled)
      /\ \A u \in Tasks : <<k, t>> \in StepsOf(u) <=> t = u
      /\ \A f \in Objects : <<k, t>> \notin RunOf(f)
  BY DEF Scheduled, StepsOf, RunOf, TaskTypes
<1>5. /\ coro[t] = "running" /\ Pending(t)
      /\ ~In(ready, StepsOf(t)) /\ Once(ready, StepsOf(t))
      /\ \A g \in Objects : \A i \in Nat : ~Wake(g, i, t)
      /\ fut_waiter[t] = None /\ coro'[t] = "suspended"
      /\ \A u \in Tasks \ {t} : coro[u] # "running" /\ coro'[u] = coro[u]
  BY <1>2, Running
<1>6. \A f \in Objects :
        /\ In(ready', RunOf(f)) <=> In(ready, RunOf(f))
        /\ Once(ready', RunOf(f))
  <2> SUFFICES ASSUME NEW f \in Objects
               PROVE  /\ In(ready', RunOf(f)) <=> In(ready, RunOf(f))
                      /\ Once(ready', RunOf(f))
    OBVIOUS
  <2>1. Once(ready, RunOf(f))
    BY DEF QueueInv
  <2> QED BY <1>3, <1>4, <2>1, AppendIn
<1>7. QueueInv' /\ EntryInv'
  BY <1>2, <1>6 DEF QueueInv, EntryInv, Done
<1>8. PcInv'
  <2>1. /\ pc' \in {"off", "idle", "callbacks"}
        /\ pc' \in {"off", "idle"} <=> resolving = None
    BY <1>2, ReturnEnds
  <2> QED BY <1>2, <1>5, <2>1 DEF PcInv, Pending, Done
<1>9. \A u \in Tasks : \A g \in Objects : \A i \in Nat : Wake(g, i, u)' <=> Wake(g, i, u)
  <2>1. \A g \in Objects : Live(g)' <=> Live(g)
    BY <1>2, <1>6 DEF Live, Pending
  <2> QED BY <1>2, <2>1, WakeSame
<1>10. ASSUME NEW u \in Tasks \ {t} PROVE WakeInv(u)'
  <2>1. <<k, t>> \notin StepsOf(u) /\ Once(ready, StepsOf(u))
    BY <1>4 DEF WakeInv
  <2>2. /\ In(ready', StepsOf(u)) <=> In(ready, StepsOf(u))
        /\ Once(ready', StepsOf(u))
    BY <1>3, <1>4, <2>1, AppendIn
  <2> QED BY <1>2, <1>5, <1>9, <2>2, WakeFrame
<1>11. WakeInv(t)'
  <2>1. <<k, t>> \in StepsOf(t)
    BY <1>4
  <2>2. In(ready', StepsOf(t)) /\ Once(ready', StepsOf(t))
    BY <1>3, <1>4, <1>5, <2>1, AppendIn
  <2>3. /\ \A g \in Objects : \A i \in Nat : ~Wake(g, i, t)'
        /\ fut_waiter'[t] = None /\ status'[t] = "pending"
    BY <1>2, <1>5, <1>9 DEF Pending
  <2> QED BY <1>5, <2>2, <2>3 DEF WakeInv
<1> QED BY <1>1, <1>7, <1>8, <1>10, <1>11 DEF SchedInv

(* The coroutine awaits: the entry that it leaves in the future is its     *)
(* wake-up, also if the future is cancelled at once.                       *)
LEMMA AwaitKeeps ==
    ASSUME SchedInv, NEW t \in Tasks, NEW f \in Objects, coro_awaits(t, f)
    PROVE  SchedInv'
<1> TaskTypes /\ QueueInv /\ PcInv /\ EntryInv /\ \A u \in Tasks : WakeInv(u)
  BY DEF SchedInv
<1>1. TaskTypes'
  BY StepTypes DEF Step
<1>2. /\ Pending(f) /\ f # t /\ Leave(t, "suspended") /\ Return("none")
      /\ callbacks' = [callbacks EXCEPT ![f] = Append(@, Waiter(t))]
      /\ fut_waiter' = [fut_waiter EXCEPT ![t] = f]
      /\ UNCHANGED <<resolving, at>>
      /\ \/ call_done_callbacks(f, "canceled", callbacks'[f])
         \/ UNCHANGED <<status, ready>>
  BY DEF coro_awaits
<1>3. /\ coro[t] = "running" /\ Pending(t)
      /\ ~In(ready, StepsOf(t)) /\ Once(ready, StepsOf(t))
      /\ \A g \in Objects : \A i \in Nat : ~Wake(g, i, t)
      /\ fut_waiter[t] = None /\ coro'[t] = "suspended"
      /\ \A u \in Tasks \ {t} : coro[u] # "running" /\ coro'[u] = coro[u]
      /\ t \in Objects
  BY <1>2, Running
<1> DEFINE n == Len(callbacks[f])
<1>4. /\ callbacks[f] \in Seq(Entries) /\ n \in Nat
      /\ Waiter(t).cb = t /\ ~Waiter(t).cancelled
  BY DEF TaskTypes, Waiter
<1>5. /\ Len(callbacks'[f]) = n + 1
      /\ callbacks'[f][n + 1] = Waiter(t)
      /\ \A i \in 1 .. n : callbacks'[f][i] = callbacks[f][i]
      /\ \A g \in Objects \ {f} : callbacks'[g] = callbacks[g]
      /\ callbacks'[f] # <<>>
  <2>1. callbacks'[f] = Append(callbacks[f], Waiter(t))
        /\ \A g \in Objects \ {f} : callbacks'[g] = callbacks[g]
    BY <1>2 DEF TaskTypes
  <2>2. Waiter(t) \in Entries
    BY DEF Waiter, Entries
  <2> QED BY <1>4, <2>1, <2>2
<1>6. /\ \A u \in Tasks :
            /\ In(ready', StepsOf(u)) <=> In(ready, StepsOf(u))
            /\ Once(ready', StepsOf(u))
      /\ QueueInv'
      /\ f # resolving
      /\ status'[f] \in {"pending", "canceled"}
      /\ \A g \in Objects \ {f} :
            status'[g] = status[g] /\ (Live(g)' <=> Live(g))
      /\ Live(f) /\ Live(f)'
      /\ resolving # None => status'[resolving] \in {"finished", "canceled"}
  <2>1. \A u \in Tasks : Once(ready, StepsOf(u))
    BY DEF WakeInv
  <2>2. CASE call_done_callbacks(f, "canceled", callbacks'[f])
    <3>1. /\ \A u \in Tasks :
                /\ In(ready', StepsOf(u)) <=> In(ready, StepsOf(u))
                /\ Once(ready, StepsOf(u)) => Once(ready', StepsOf(u))
          /\ QueueInv'
          /\ f # resolving
          /\ status'[f] = "canceled"
          /\ \A g \in Objects \ {f} :
                status'[g] = status[g] /\ (Live(g)' <=> Live(g))
          /\ Live(f)' <=> callbacks'[f] # <<>>
          /\ resolving # None => status'[resolving] \in {"finished", "canceled"}
      BY <1>2, <2>2, Announce
    <3>2. Live(f)
      BY <1>2 DEF Live
    <3> QED BY <1>5, <2>1, <3>1, <3>2
  <2>3. CASE UNCHANGED <<status, ready>>
    <3>1. QueueInv'
      BY <1>2, <2>3 DEF QueueInv, Done
    <3>2. f # resolving /\ status[f] = "pending"
      BY <1>2, TaskAssumption DEF PcInv, Pending, Done, Objects
    <3>3. \A g \in Objects : Live(g)' <=> Live(g)
      BY <1>2, <2>3 DEF Live, Pending
    <3>4. Live(f)
      BY <1>2 DEF Live
    <3>5. resolving # None => status'[resolving] \in {"finished", "canceled"}
      BY <2>3 DEF PcInv, Done
    <3> QED BY <2>1, <2>3, <3>1, <3>2, <3>3, <3>4, <3>5
  <2> QED BY <1>2, <2>2, <2>3
<1>7. EntryInv'
  <2> SUFFICES ASSUME NEW g \in Objects
               PROVE  /\ status'[g] = "new" => callbacks'[g] = <<>>
                      /\ \A i \in 1 .. Len(callbacks'[g]) :
                            callbacks'[g][i].cancelled
                                => callbacks'[g][i].cb \in Listeners
    BY DEF EntryInv
  <2>1. CASE g = f
    <3>1. \A i \in 1 .. Len(callbacks'[f]) : i \in 1 .. n \/ i = n + 1
      BY <1>4, <1>5
    <3> QED BY <1>4, <1>5, <1>6, <2>1, <3>1 DEF EntryInv
  <2>2. CASE g # f
    BY <1>5, <1>6, <2>2 DEF EntryInv
  <2> QED BY <2>1, <2>2
<1>8. PcInv'
  <2>1. /\ pc' \in {"off", "idle", "callbacks"}
        /\ pc' \in {"off", "idle"} <=> resolving = None
    BY <1>2, ReturnEnds
  <2>2. \A u \in Tasks : status'[u] = "new" => status[u] = "new"
    BY <1>6 DEF Objects
  <2> QED BY <1>2, <1>3, <1>6, <2>1, <2>2 DEF PcInv, Pending, Done
<1>9. ASSUME NEW u \in Tasks, NEW g \in Objects, NEW i \in Nat
      PROVE  Wake(g, i, u)' <=> \/ Wake(g, i, u)
                                \/ u = t /\ g = f /\ i = n + 1
  <2>1. CASE g # f
    BY <1>2, <1>5, <1>6, <2>1 DEF Wake
  <2>2. CASE g = f
    <3>1. /\ i \in 1 .. Len(callbacks'[f]) /\ callbacks'[f][i].cb = u
          <=> \/ i \in 1 .. n /\ callbacks[f][i].cb = u
              \/ i = n + 1 /\ u = t
      <4>1. i \in 1 .. Len(callbacks'[f]) <=> i \in 1 .. n \/ i = n + 1
        BY <1>4, <1>5
      <4>2. ~(n + 1 \in 1 .. n)
        BY <1>4
      <4> QED BY <1>4, <1>5, <4>1, <4>2
    <3>2. i = n + 1 => i >= 1
      BY <1>4
    <3> QED BY <1>2, <1>6, <2>2, <3>1, <3>2 DEF Wake
  <2> QED BY <2>1, <2>2
<1>10. ASSUME NEW u \in Tasks \ {t} PROVE WakeInv(u)'
  <2>1. \A g \in Objects : \A i \in Nat : Wake(g, i, u)' <=> Wake(g, i, u)
    BY <1>9
  <2>2. fut_waiter'[u] = fut_waiter[u]
    BY <1>2 DEF TaskTypes
  <2>3. /\ status'[u] = "pending" => status[u] = "pending"
        /\ status'[u] = "new" => status[u] = "new"
    BY <1>2, <1>6 DEF Objects, Pending
  <2> QED BY <1>3, <1>6, <2>1, <2>2, <2>3, WakeFrame
<1>11. WakeInv(t)'
  <2>1. PICK m \in Nat : m = n + 1
    BY <1>4
  <2>2. \A g \in Objects : \A i \in Nat : Wake(g, i, t)' <=> g = f /\ i = m
    BY <1>3, <1>9, <2>1
  <2>3. fut_waiter'[t] = f /\ f # None
    BY <1>2, TaskAssumption DEF TaskTypes, Objects
  <2>4. \E i \in Nat : Wake(fut_waiter[t], i, t)'
    <3>1. Wake(f, m, t)'
      BY <2>2
    <3>2. Wake(fut_waiter[t], m, t)'
      BY <2>3, <3>1 DEF Wake, Live, Pending
    <3> QED BY <3>2
  <2>5. status'[t] # "new"
    BY <1>2, <1>3, <1>6 DEF Pending
  <2> QED BY <1>3, <1>6, <2>2, <2>4, <2>5 DEF WakeInv
<1> QED BY <1>1, <1>6, <1>7, <1>8, <1>10, <1>11 DEF SchedInv

(* Every step keeps the wake-ups.                                          *)
LEMMA SchedStep == SchedInv /\ [Next]_vars => SchedInv'
<1> SUFFICES ASSUME SchedInv, [Next]_vars PROVE SchedInv'
  OBVIOUS
<1>1. ASSUME NEW t \in Tasks, Step(t) PROVE SchedInv'
  <2>1. TaskTypes'
    BY <1>1, StepTypes DEF SchedInv
  <2>2. ASSUME coro_returns(t) \/ \E e \in Exceptions : coro_raises(t, e)
        PROVE  SchedInv'
    <3>1. /\ Leave(t, "done") /\ UNCHANGED <<callbacks, resolving, at>>
          /\ fut_waiter' = [fut_waiter EXCEPT ![t] = None]
          /\ pc' \in {"off", "idle", "callbacks"}
          /\ pc' \in {"off", "idle"} <=> resolving = None
      BY <2>2, ReturnEnds DEF coro_returns, coro_raises, Finish
    <3>2. \/ call_done_callbacks(t, "finished", callbacks[t])
          \/ call_done_callbacks(t, "canceled", callbacks[t])
      BY <2>2 DEF coro_returns, coro_raises, set_result, set_exception, future_cancel
    <3> QED BY <2>1, <3>1, <3>2, EndKeeps
  <2>3. ASSUME coro_yields_object(t) PROVE SchedInv'
    <3>1. /\ Leave(t, "suspended")
          /\ UNCHANGED <<callbacks, resolving, at, fut_waiter>>
          /\ pc' \in {"off", "idle", "callbacks"}
          /\ pc' \in {"off", "idle"} <=> resolving = None
          /\ call_done_callbacks(t, "finished", callbacks[t])
      BY <2>3, ReturnEnds DEF coro_yields_object, set_exception
    <3> QED BY <2>1, <3>1, EndKeeps
  <2> QED BY <1>1, <2>2, <2>3, YieldKeeps, AwaitKeeps DEF Step, Exceptions
<1>2. CASE UNCHANGED vars
  <2>1. TaskTypes'
    BY <1>2 DEF SchedInv, TaskTypes, vars, futvars, taskvars, runvars, history
  <2> QED BY <1>2, <2>1, SchedStutters DEF vars, futvars, taskvars, runvars
<1> QED BY <1>1, <1>2, PythonKeeps, SendKeeps, HandleKeeps, RunSetKeeps,
           ListenerEntryKeeps, WakeupKeeps, CallbacksDoneKeeps, StartKeeps
        DEF Next, LoopStep

(* Init satisfies the invariant.                                           *)
LEMMA TaskInit == Init => TaskInv
<1> SUFFICES ASSUME Init PROVE TaskInv
  OBVIOUS
<1>1. TaskTypes
  BY DEF Init, TaskTypes, Scheduled
<1>2. Len(ready) = 0 /\ \A f \in Objects : callbacks[f] = <<>> /\ Len(callbacks[f]) = 0
  BY DEF Init
<1>3. \A C : ~In(ready, C) /\ Once(ready, C)
  BY <1>2 DEF In, Once
<1>4. QueueInv /\ EntryInv
  BY <1>2, <1>3 DEF QueueInv, EntryInv
<1>5. PcInv
  BY DEF Init, PcInv
<1>6. ASSUME NEW t \in Tasks PROVE WakeInv(t)
  <2>1. \A f \in Objects : \A i \in Nat : ~Wake(f, i, t)
    BY <1>2 DEF Wake
  <2>2. status[t] = "new" /\ fut_waiter[t] = None
    BY DEF Init, Objects
  <2> QED BY <1>3, <2>1, <2>2 DEF WakeInv, Pending
<1>7. CancelInv
  BY DEF Init, CancelInv, CancelOk, Objects
<1> QED BY <1>1, <1>4, <1>5, <1>6, <1>7 DEF TaskInv, SchedInv

-----------------------------------------------------------------------------
(* Cancellation.                                                           *)

(* A future that is done stays as it is, and one that is not changes only  *)
(* as the step says.                                                       *)
LEMMA CancelFrame ==
    ASSUME TaskTypes, NEW u \in Tasks, CancelOk(u),
           \A f \in Objects : Done(f) => status'[f] = status[f],
           fut_waiter'[u] = fut_waiter[u], awaiting'[u] = awaiting[u],
           must_cancel'[u] = must_cancel[u], owed'[u] = owed[u]
    PROVE  CancelOk(u)'
<1>1. u \in Objects /\ fut_waiter[u] \in Objects \cup {None}
  BY DEF TaskTypes, Objects
<1>2. ~(status'[u] \in {"finished", "canceled"}) => ~Done(u)
  BY <1>1 DEF Done
<1>3. fut_waiter[u] # None /\ status[fut_waiter[u]] = "canceled"
        => status'[fut_waiter[u]] = "canceled"
  BY <1>1 DEF Done
<1> QED BY <1>2, <1>3 DEF CancelOk, Done

(* The exceptions of futures: only a finished one has one.                 *)
LEMMA ResolveCancel ==
    ASSUME TaskTypes, NEW f \in Objects, Pending(f), NEW e,
           \A g \in Objects : status[g] # "finished" => exception[g] = "none",
           set_result(f) \/ set_exception(f, e) \/ future_cancel(f)
    PROVE  /\ \A g \in Objects : status'[g] # "finished" => exception'[g] = "none"
           /\ \A g \in Objects : Done(g) => status'[g] = status[g]
<1>1. /\ \/ status' = [status EXCEPT ![f] = "finished"]
         \/ status' = [status EXCEPT ![f] = "canceled"] /\ exception' = exception
      /\ exception' = exception \/ exception' = [exception EXCEPT ![f] = e]
  BY DEF set_result, set_exception, future_cancel, call_done_callbacks
<1> QED BY <1>1 DEF TaskTypes, Pending, Done

(* Enter: what is owed is given, and nothing is given that is not owed or  *)
(* does not come from the future that the coroutine awaits.                *)
LEMMA EnterCancels ==
    ASSUME TaskTypes, NEW t \in Tasks, NEW e \in {"none", "error", "fatal"},
           Enter(t, e), Pending(t), must_cancel[t] => owed[t],
           owed[t] => \/ must_cancel[t]
                      \/ /\ e = "none" /\ awaiting[t] # None
                         /\ status[awaiting[t]] = "canceled"
    PROVE  /\ owed[t] => received'[t] = "cancelled"
           /\ received'[t] = "cancelled" =>
                \/ owed[t]
                \/ awaiting[t] # None /\ status[awaiting[t]] = "canceled"
           /\ ~owed'[t] /\ ~must_cancel'[t]
<1> DEFINE thrown == IF must_cancel[t] THEN "cancelled" ELSE e
<1>1. /\ received'[t] = IF thrown # "none" THEN thrown ELSE Awaited(t)
      /\ owed'[t] = (owed[t] /\ received'[t] # "cancelled")
      /\ must_cancel'[t] = FALSE
  BY DEF Enter, TaskTypes
<1>2. awaiting[t] # None /\ status[awaiting[t]] = "canceled"
        => Awaited(t) = "cancelled"
  BY DEF Awaited
<1>3. Awaited(t) = "cancelled"
        => awaiting[t] # None /\ status[awaiting[t]] = "canceled"
  BY DEF Awaited, TaskTypes
<1>4. owed[t] => received'[t] = "cancelled"
  BY <1>1, <1>2
<1>5. received'[t] = "cancelled" =>
        owed[t] \/ (awaiting[t] # None /\ status[awaiting[t]] = "canceled")
  BY <1>1, <1>3
<1> QED BY <1>1, <1>4, <1>5

(* What Python code does to tasks and futures resumes no coroutine and     *)
(* ends no task.                                                           *)
LEMMA PythonCancels ==
    ASSUME TaskInv, PythonStep
    PROVE  CancelInv' /\ \A u \in Tasks : Told(u)
<1> TaskTypes /\ CancelInv /\ \A u \in Tasks : CancelOk(u)
  BY DEF TaskInv, SchedInv, CancelInv
<1> Tasks \subseteq Objects /\ Futures \subseteq Objects
  BY DEF Objects
<1>1. ASSUME NEW f \in Objects, create_future(f) \/ create_task(f)
      PROVE  CancelInv' /\ \A u \in Tasks : Told(u)
  <2>1. /\ status[f] = "new" /\ status' = [status EXCEPT ![f] = "pending"]
        /\ UNCHANGED <<exception, fut_waiter, awaiting, must_cancel, owed, coro>>
    BY <1>1 DEF create_future, create_task, taskvars, history
  <2>2. \A g \in Objects : Done(g) => status'[g] = status[g]
    BY <2>1 DEF TaskTypes, Done
  <2>3. \A u \in Tasks : CancelOk(u)'
    BY <2>1, <2>2, CancelFrame
  <2>4. \A g \in Objects : status'[g] = "finished" <=> status[g] = "finished"
    BY <2>1 DEF TaskTypes
  <2>5. \A u \in Tasks : Told(u)
    BY <2>1, <2>4 DEF Told, Pending
  <2> QED BY <2>1, <2>3, <2>4, <2>5 DEF CancelInv
<1>2. ASSUME NEW f \in Futures, resolve(f)
      PROVE  CancelInv' /\ \A u \in Tasks : Told(u)
  <2>1. /\ Pending(f)
        /\ set_result(f) \/ set_exception(f, "error") \/ future_cancel(f)
        /\ UNCHANGED <<fut_waiter, awaiting, must_cancel, owed, coro>>
    BY <1>2 DEF resolve, taskvars, history
  <2>2. /\ \A g \in Objects : status'[g] # "finished" => exception'[g] = "none"
        /\ \A g \in Objects : Done(g) => status'[g] = status[g]
    BY <2>1, ResolveCancel DEF CancelInv
  <2>3. \A u \in Tasks : CancelOk(u)'
    BY <2>1, <2>2, CancelFrame
  <2>4. \A u \in Tasks : status'[u] = status[u]
    BY <2>1, TaskAssumption
    DEF set_result, set_exception, future_cancel, call_done_callbacks, TaskTypes
  <2>5. \A u \in Tasks : Told(u)
    BY <2>1, <2>4 DEF Told, Pending
  <2> QED BY <2>2, <2>3, <2>5 DEF CancelInv
<1>3. ASSUME NEW t \in Tasks, task_cancel(t)
      PROVE  CancelInv' /\ \A u \in Tasks : Told(u)
  <2>1. PICK last, w :
          /\ w = fut_waiter[last]
          /\ owed' = [owed EXCEPT ![last] = TRUE]
          /\ \/ /\ w \in Futures /\ status[w] = "pending" /\ future_cancel(w)
                /\ UNCHANGED must_cancel
             \/ /\ must_cancel' = [must_cancel EXCEPT ![last] = TRUE]
                /\ UNCHANGED <<status, exception>>
    BY <1>3 DEF task_cancel
  <2>2. UNCHANGED <<fut_waiter, awaiting, coro>>
    BY <1>3 DEF task_cancel
  <2>3. /\ \A g \in Objects : status'[g] # "finished" => exception'[g] = "none"
        /\ \A g \in Objects : Done(g) => status'[g] = status[g]
    <3>1. CASE w \in Futures /\ status[w] = "pending" /\ future_cancel(w)
      BY <3>1, ResolveCancel DEF CancelInv, Pending
    <3> QED BY <2>1, <3>1 DEF CancelInv
  <2>4. \A u \in Tasks : status'[u] = status[u]
    BY <2>1, TaskAssumption DEF future_cancel, call_done_callbacks, TaskTypes
  <2>5. ASSUME NEW u \in Tasks PROVE CancelOk(u)'
    <3>1. CASE u # last
      <4>1. must_cancel'[u] = must_cancel[u] /\ owed'[u] = owed[u]
        BY <2>1, <3>1 DEF TaskTypes
      <4> QED BY <2>2, <2>3, <4>1, CancelFrame
    <3>2. CASE u = last
      <4>1. owed'[u] = TRUE
        BY <2>1, <3>2 DEF TaskTypes
      <4>2. \/ must_cancel'[u]
            \/ fut_waiter'[u] # None /\ status'[fut_waiter'[u]] = "canceled"
        BY <2>1, <2>2, <3>2, TaskAssumption
        DEF future_cancel, call_done_callbacks, TaskTypes
      <4>3. fut_waiter'[u] # None => awaiting'[u] = fut_waiter'[u]
        BY <2>2 DEF CancelOk
      <4> QED BY <4>1, <4>2, <4>3 DEF CancelOk
    <3> QED BY <3>1, <3>2
  <2>6. \A u \in Tasks : Told(u)
    BY <2>2, <2>4 DEF Told, Pending
  <2> QED BY <2>3, <2>5, <2>6 DEF CancelInv
<1>4. ASSUME NEW t \in Tasks, task_uncancel(t)
      PROVE  CancelInv' /\ \A u \in Tasks : Told(u)
  <2>1. PICK more \in BOOLEAN :
          /\ must_cancel' = [must_cancel EXCEPT ![t] = @ /\ more]
          /\ owed' = [owed EXCEPT ![t] = @ /\ more]
    BY <1>4 DEF task_uncancel
  <2>2. UNCHANGED <<status, exception, fut_waiter, awaiting, coro>>
    BY <1>4 DEF task_uncancel, futvars
  <2>3. ASSUME NEW u \in Tasks PROVE CancelOk(u)'
    BY <2>1, <2>2 DEF CancelOk, Done, TaskTypes
  <2>4. \A u \in Tasks : Told(u)
    BY <2>2 DEF Told, Pending
  <2> QED BY <2>2, <2>3, <2>4 DEF CancelInv
<1>5. ASSUME NEW f \in Objects, NEW l \in Listeners,
             add_done_callback(f, l) \/ remove_done_callback(f, l)
      PROVE  CancelInv' /\ \A u \in Tasks : Told(u)
  <2>1. UNCHANGED <<status, exception, fut_waiter, awaiting, must_cancel, owed, coro>>
    BY <1>5 DEF add_done_callback, remove_done_callback, taskvars, history
  <2> QED BY <2>1 DEF CancelInv, CancelOk, Told, Done, Pending
<1> QED BY <1>1, <1>2, <1>3, <1>4, <1>5 DEF PythonStep

(* A task is stepped: what is owed comes with this step.                   *)
LEMMA EnterSettles ==
    ASSUME TaskTypes, PcInv, CancelInv,
           NEW t \in Tasks, NEW e \in {"none", "error", "fatal"}, Enter(t, e),
           status[t] # "new",
           owed[t] /\ Pending(t) => \/ must_cancel[t]
                                   \/ /\ e = "none" /\ awaiting[t] # None
                                      /\ status[awaiting[t]] = "canceled",
           fut_waiter' = fut_waiter \/ fut_waiter' = [fut_waiter EXCEPT ![t] = None],
           fut_waiter'[t] = None,
           UNCHANGED <<status, exception, awaiting>>
    PROVE  CancelInv' /\ \A u \in Tasks : Told(u)
<1> Tasks \subseteq Objects /\ \A u \in Tasks : CancelOk(u)
  BY DEF Objects, CancelInv
<1>1. ASSUME NEW u \in Tasks \ {t}
      PROVE  CancelOk(u)' /\ coro'[u] = coro[u]
  <2>1. /\ fut_waiter'[u] = fut_waiter[u] /\ must_cancel'[u] = must_cancel[u]
        /\ owed'[u] = owed[u] /\ coro'[u] = coro[u]
    BY DEF Enter, TaskTypes
  <2> QED BY <2>1, CancelFrame
<1>2. CASE Pending(t)
  <2>1. must_cancel[t] => owed[t]
    BY <1>2 DEF CancelOk, Done, Pending
  <2>2. /\ owed[t] => received'[t] = "cancelled"
        /\ received'[t] = "cancelled" =>
                owed[t] \/ (awaiting[t] # None /\ status[awaiting[t]] = "canceled")
        /\ ~owed'[t] /\ ~must_cancel'[t]
    BY <1>2, <2>1, EnterCancels
  <2>3. CancelOk(t)'
    BY <2>2 DEF CancelOk
  <2>4. \A u \in Tasks : Told(u)
    BY <1>1, <1>2, <2>2 DEF Told, Pending
  <2> QED BY <1>1, <2>3, <2>4 DEF CancelInv
<1>3. CASE ~Pending(t)
  <2>1. Done(t)
    BY <1>3 DEF TaskTypes, Done, Pending
  <2>2. CancelOk(t)'
    BY <2>1 DEF CancelOk, Done
  <2>3. coro' = coro
    BY <1>3 DEF Enter
  <2>4. \A u \in Tasks : Told(u)
    BY <2>3 DEF Told, Pending
  <2> QED BY <1>1, <2>2, <2>4 DEF CancelInv
<1> QED BY <1>2, <1>3

(* The callbacks that the loop runs.                                       *)
LEMMA LoopCancels ==
    ASSUME TaskInv,
           \/ \E t \in Tasks : execute_task_send(t) \/ execute_task_throw(t)
           \/ \E f \in Objects : run_set_callbacks(f)
           \/ \E l \in Listeners : execute_handle(l)
           \/ skip_callback \/ call_listener \/ wakeup_task \/ callbacks_done
           \/ start \/ UNCHANGED vars
    PROVE  CancelInv' /\ \A u \in Tasks : Told(u)
<1> /\ TaskTypes /\ PcInv /\ CancelInv
    /\ \A u \in Tasks : WakeInv(u)
    /\ \A u \in Tasks : CancelOk(u)
  BY DEF TaskInv, SchedInv, CancelInv
<1>1. ASSUME NEW t \in Tasks, execute_task_send(t) \/ execute_task_throw(t)
      PROVE  CancelInv' /\ \A u \in Tasks : Told(u)
  <2>1. /\ Take("send", t) \/ Take("throw", t)
        /\ Enter(t, "none") \/ Enter(t, "error")
        /\ UNCHANGED <<status, exception, fut_waiter, awaiting>>
    BY <1>1 DEF execute_task_send, execute_task_throw, futvars
  <2>2. In(ready, StepsOf(t))
    <3>1. <<"send", t>> \in StepsOf(t) /\ <<"throw", t>> \in StepsOf(t)
      BY DEF StepsOf
    <3> QED BY <2>1, <3>1, TakenFromQueue DEF TaskInv
  <2>3. fut_waiter[t] = None /\ status[t] # "new"
    BY <2>2 DEF WakeInv, TaskTypes
  <2>4. owed[t] /\ Pending(t) => must_cancel[t]
    BY <2>3 DEF CancelOk, Done, Pending
  <2>5. fut_waiter' = fut_waiter /\ fut_waiter'[t] = None
    BY <2>1, <2>3
  <2> QED BY <2>1, <2>3, <2>4, <2>5, EnterSettles
<1>2. ASSUME wakeup_task
      PROVE  CancelInv' /\ \A u \in Tasks : Told(u)
  <2> PICK t \in Tasks : t = Entry.cb
    BY <1>2 DEF wakeup_task
  <2> PICK e : e = exception[resolving]
    OBVIOUS
  <2>1. /\ NextEntry /\ Enter(t, e)
        /\ fut_waiter' = [fut_waiter EXCEPT ![t] = None]
        /\ UNCHANGED <<status, exception, awaiting>>
        /\ ~callbacks[resolving][at].cancelled /\ t = callbacks[resolving][at].cb
    BY <1>2 DEF wakeup_task, Entry
  <2>2. /\ resolving \in Objects /\ at \in Nat
        /\ at \in 1 .. Len(callbacks[resolving])
        /\ e \in {"none", "error", "fatal"}
    BY <2>1, EntryIsThere DEF TaskTypes
  <2>3. Wake(resolving, at, t)
    BY <2>1, <2>2 DEF Wake, Live, TaskTypes
  <2>4. status[t] # "new"
    BY <2>2, <2>3 DEF WakeInv
  <2>5. fut_waiter[t] # None => fut_waiter[t] = resolving
    <3> SUFFICES ASSUME fut_waiter[t] # None PROVE fut_waiter[t] = resolving
      OBVIOUS
    <3>1. fut_waiter[t] \in Objects
      BY DEF TaskTypes
    <3>2. PICK i \in Nat : Wake(fut_waiter[t], i, t)
      BY DEF WakeInv
    <3> QED BY <2>2, <2>3, <3>1, <3>2 DEF WakeInv
  <2>6. ASSUME owed[t], Pending(t), ~must_cancel[t]
        PROVE  e = "none" /\ awaiting[t] # None /\ status[awaiting[t]] = "canceled"
    <3>1. fut_waiter[t] # None /\ status[fut_waiter[t]] = "canceled"
          /\ awaiting[t] = fut_waiter[t]
      BY <2>6 DEF CancelOk, Done, Pending
    <3>2. exception[resolving] = "none"
      BY <2>2, <2>5, <3>1 DEF CancelInv
    <3> QED BY <3>1, <3>2
  <2>7. fut_waiter'[t] = None
    BY <2>1 DEF TaskTypes
  <2> QED BY <2>1, <2>2, <2>4, <2>6, <2>7, EnterSettles
<1>3. ASSUME UNCHANGED <<status, exception, fut_waiter, awaiting, must_cancel, owed, coro>>
      PROVE  CancelInv' /\ \A u \in Tasks : Told(u)
  BY <1>3 DEF CancelInv, CancelOk, Told, Done, Pending
<1>4. \/ \E t \in Tasks : execute_task_send(t) \/ execute_task_throw(t)
      \/ wakeup_task
      \/ UNCHANGED <<status, exception, fut_waiter, awaiting, must_cancel, owed, coro>>
  <2>1. ASSUME NEW f \in Objects, run_set_callbacks(f)
        PROVE  UNCHANGED <<status, exception, fut_waiter, awaiting, must_cancel, owed, coro>>
    BY <2>1 DEF run_set_callbacks, futvars, taskvars, history
  <2>2. ASSUME NEW l \in Listeners, execute_handle(l)
        PROVE  UNCHANGED <<status, exception, fut_waiter, awaiting, must_cancel, owed, coro>>
    BY <2>2 DEF execute_handle, futvars, taskvars, history
  <2>3. ASSUME skip_callback \/ call_listener \/ callbacks_done \/ start
               \/ UNCHANGED vars
        PROVE  UNCHANGED <<status, exception, fut_waiter, awaiting, must_cancel, owed, coro>>
    BY <2>3 DEF skip_callback, call_listener, callbacks_done, start, vars,
                futvars, taskvars, history
  <2> QED BY <2>1, <2>2, <2>3
<1> QED BY <1>1, <1>2, <1>3, <1>4

(* The ends of a step: the task waits for nothing yet, so that what it is  *)
(* owed is marked in it.                                                   *)
LEMMA StepCancels ==
    ASSUME TaskInv, NEW t \in Tasks, Step(t)
    PROVE  CancelInv' /\ \A u \in Tasks : Told(u)
<1> /\ TaskTypes /\ PcInv /\ CancelInv
    /\ \A u \in Tasks : CancelOk(u)
    /\ Tasks \subseteq Objects
  BY DEF TaskInv, SchedInv, CancelInv, Objects
<1>1. PICK c \in {"done", "suspended"} : Leave(t, c)
  BY DEF Step, coro_returns, coro_raises, coro_yields, coro_yields_badly,
         coro_yields_object, coro_awaits, Finish
<1>2. /\ Pending(t) /\ fut_waiter[t] = None /\ t \in Objects
      /\ coro[t] = "running"
      /\ \A u \in Tasks \ {t} : coro[u] # "running" /\ coro'[u] = coro[u]
  BY <1>1, Running DEF TaskInv
<1>3. owed[t] <=> must_cancel[t]
  BY <1>2 DEF CancelOk, Pending, Done, TaskTypes
<1>4. ASSUME \/ coro_returns(t)
             \/ \E e \in Exceptions : coro_raises(t, e)
             \/ coro_yields_object(t)
      PROVE  CancelInv' /\ \A u \in Tasks : Told(u)
  <2>1. PICK e \in {"error", "fatal"} :
          /\ set_result(t) \/ set_exception(t, e) \/ future_cancel(t)
          /\ set_result(t) => ~must_cancel[t] \/ set_exception(t, e) \/ future_cancel(t)
    BY <1>4 DEF coro_returns, coro_raises, coro_yields_object, Exceptions
  <2>2. /\ \A g \in Objects : status'[g] # "finished" => exception'[g] = "none"
        /\ \A g \in Objects : Done(g) => status'[g] = status[g]
    BY <1>2, <2>1, ResolveCancel DEF CancelInv
  <2>3. /\ fut_waiter' = [fut_waiter EXCEPT ![t] = None] \/ fut_waiter' = fut_waiter
        /\ awaiting' = [awaiting EXCEPT ![t] = None] \/ awaiting' = awaiting
        /\ owed' = [owed EXCEPT ![t] = FALSE]
        /\ UNCHANGED must_cancel
    BY <1>4 DEF coro_returns, coro_raises, coro_yields_object, Finish
  <2>4. \A u \in Tasks \ {t} : CancelOk(u)'
    <3>1. \A u \in Tasks \ {t} :
            /\ fut_waiter'[u] = fut_waiter[u] /\ awaiting'[u] = awaiting[u]
            /\ must_cancel'[u] = must_cancel[u] /\ owed'[u] = owed[u]
      BY <2>3 DEF TaskTypes
    <3> QED BY <2>2, <3>1, CancelFrame
  <2>5. /\ status'[t] \in {"finished", "canceled"} /\ fut_waiter'[t] = None
        /\ \A u \in Tasks \ {t} : status'[u] = status[u]
    BY <1>2, <2>1, <2>3
    DEF set_result, set_exception, future_cancel, call_done_callbacks, TaskTypes
  <2>6. CancelOk(t)'
    BY <2>5 DEF CancelOk, Done
  <2>7. ASSUME owed[t], status'[t] = "finished" PROVE exception'[t] # "none"
    <3>1. set_exception(t, e) \/ future_cancel(t)
      BY <1>3, <2>1, <2>7
    <3>2. ~future_cancel(t)
      BY <1>2, <2>7 DEF future_cancel, call_done_callbacks, TaskTypes
    <3> QED BY <1>2, <3>1, <3>2 DEF set_exception, TaskTypes
  <2>8. \A u \in Tasks : Told(u)
    BY <1>2, <2>5, <2>7 DEF Told, Pending
  <2> QED BY <2>2, <2>4, <2>6, <2>8 DEF CancelInv
<1>5. ASSUME coro_yields(t) \/ coro_yields_badly(t)
      PROVE  CancelInv' /\ \A u \in Tasks : Told(u)
  <2>1. /\ awaiting' = [awaiting EXCEPT ![t] = None]
        /\ UNCHANGED <<status, exception, fut_waiter, must_cancel, owed>>
    BY <1>5 DEF coro_yields, coro_yields_badly, futvars
  <2>2. \A u \in Tasks : CancelOk(u)'
    BY <1>2, <2>1 DEF CancelOk, Done, TaskTypes
  <2>3. \A u \in Tasks : Told(u)
    BY <1>2, <2>1 DEF Told, Pending
  <2> QED BY <2>1, <2>2, <2>3 DEF CancelInv
<1>6. ASSUME NEW f \in Objects, coro_awaits(t, f)
      PROVE  CancelInv' /\ \A u \in Tasks : Told(u)
  <2>1. /\ Pending(f) /\ f # t
        /\ awaiting' = [awaiting EXCEPT ![t] = f]
        /\ fut_waiter' = [fut_waiter EXCEPT ![t] = f]
        /\ status' = [status EXCEPT ![f] = "canceled"] \/ status' = status
        /\ UNCHANGED <<exception, must_cancel, owed>>
    BY <1>6 DEF coro_awaits, call_done_callbacks
  <2>2. /\ \A g \in Objects : Done(g) => status'[g] = status[g]
        /\ \A g \in Objects : status'[g] = "finished" <=> status[g] = "finished"
    BY <2>1 DEF TaskTypes, Pending, Done
  <2>3. \A u \in Tasks \ {t} : CancelOk(u)'
    <3>1. \A u \in Tasks \ {t} :
            /\ fut_waiter'[u] = fut_waiter[u] /\ awaiting'[u] = awaiting[u]
            /\ must_cancel'[u] = must_cancel[u] /\ owed'[u] = owed[u]
      BY <2>1 DEF TaskTypes
    <3> QED BY <2>2, <3>1, CancelFrame
  <2>4. CancelOk(t)'
    BY <1>3, <2>1 DEF CancelOk, TaskTypes
  <2>5. \A u \in Tasks : Told(u)
    BY <1>2, <2>2 DEF Told, Pending
  <2> QED BY <2>1, <2>2, <2>3, <2>4, <2>5 DEF CancelInv
<1> QED BY <1>4, <1>5, <1>6 DEF Step, Exceptions

(* The invariant is inductive, and every step tells what it has to.        *)
LEMMA TaskStep == TaskInv /\ [Next]_vars => TaskInv' /\ \A t \in Tasks : Told(t)
<1> SUFFICES ASSUME TaskInv, [Next]_vars PROVE TaskInv' /\ \A t \in Tasks : Told(t)
  OBVIOUS
<1>1. SchedInv'
  BY SchedStep DEF TaskInv
<1>2. CancelInv' /\ \A t \in Tasks : Told(t)
  BY PythonCancels, LoopCancels, StepCancels DEF Next, LoopStep
<1> QED BY <1>1, <1>2 DEF TaskInv

-----------------------------------------------------------------------------
(* The properties.                                                         *)

(* The done callbacks of f that are still to be run and are those of t.    *)
LEMMA ToRunIsWake ==
    ASSUME SchedInv, NEW t \in Tasks, NEW f \in Objects, NEW i
    PROVE  i \in ToRun(f) /\ callbacks[f][i].cb = t <=> i \in Nat /\ Wake(f, i, t)
<1> TaskTypes /\ EntryInv
  BY DEF SchedInv
<1>1. /\ callbacks[f] \in Seq(Entries) /\ ready \in Seq(Scheduled)
      /\ DOMAIN callbacks[f] = 1 .. Len(callbacks[f])
      /\ DOMAIN ready = 1 .. Len(ready)
      /\ Len(callbacks[f]) \in Nat
  BY DEF TaskTypes
<1>2. <<"set", f>> \in Range(ready) <=> In(ready, RunOf(f))
  BY <1>1 DEF Range, In, RunOf
<1>3. i \in 1 .. Len(callbacks[f]) /\ callbacks[f][i].cb = t
        => ~callbacks[f][i].cancelled
  BY TaskAssumption DEF EntryInv
<1>4. i \in 1 .. Len(callbacks[f]) => i \in Nat
  BY <1>1
<1> QED BY <1>1, <1>2, <1>3, <1>4 DEF ToRun, Wake, Live

(* The ways in which t is going to be stepped.                             *)
LEMMA WakesAre ==
    ASSUME SchedInv, NEW t \in Tasks, NEW x
    PROVE  x \in Wakes(t) <=>
            \/ \E i \in 1 .. Len(ready) : ready[i] \in StepsOf(t) /\ x = <<"ready", i>>
            \/ \E f \in Objects : \E i \in Nat : Wake(f, i, t) /\ x = <<f, i>>
<1>1. DOMAIN ready = 1 .. Len(ready)
  BY DEF SchedInv, TaskTypes
<1>2. \A f \in Objects : \A i :
        i \in ToRun(f) /\ callbacks[f][i].cb = t <=> i \in Nat /\ Wake(f, i, t)
  BY ToRunIsWake
<1>3. x \in Wakes(t) <=>
        \/ \E i \in 1 .. Len(ready) : ready[i] \in StepsOf(t) /\ x = <<"ready", i>>
        \/ \E f \in Objects : \E i \in ToRun(f) : callbacks[f][i].cb = t /\ x = <<f, i>>
  BY <1>1 DEF Wakes, StepsOf
<1> QED BY <1>2, <1>3

(* The invariant gives exactly one of them.                                *)
LEMMA SchedGivesOne == SchedInv => OneWakeUp
<1> SUFFICES ASSUME SchedInv, NEW t \in Tasks
             PROVE  /\ Pending(t) /\ coro[t] = "suspended" => Cardinality(Wakes(t)) = 1
                    /\ coro[t] # "suspended" => Wakes(t) = {}
                    /\ fut_waiter[t] # None =>
                        \E i \in ToRun(fut_waiter[t]) : callbacks[fut_waiter[t]][i].cb = t
  BY DEF OneWakeUp
<1> WakeInv(t) /\ TaskTypes
  BY DEF SchedInv
<1>1. ASSUME In(ready, StepsOf(t)) PROVE Cardinality(Wakes(t)) = 1
  <2>1. PICK i \in 1 .. Len(ready) : ready[i] \in StepsOf(t)
    BY <1>1 DEF In
  <2>2. \A j \in 1 .. Len(ready) : ready[j] \in StepsOf(t) => j = i
    BY <2>1 DEF WakeInv, Once
  <2>3. \A f \in Objects : \A j \in Nat : ~Wake(f, j, t)
    BY <1>1 DEF WakeInv
  <2>4. Wakes(t) = {<<"ready", i>>}
    BY <2>1, <2>2, <2>3, WakesAre
  <2> QED BY <2>4, FS_Singleton
<1>2. ASSUME NEW f \in Objects, NEW i \in Nat, Wake(f, i, t)
      PROVE  Cardinality(Wakes(t)) = 1
  <2>1. \A j \in 1 .. Len(ready) : ready[j] \notin StepsOf(t)
    BY <1>2 DEF WakeInv, In
  <2>2. \A g \in Objects : \A j \in Nat : Wake(g, j, t) => g = f /\ j = i
    BY <1>2 DEF WakeInv
  <2>3. Wakes(t) = {<<f, i>>}
    BY <1>2, <2>1, <2>2, WakesAre
  <2> QED BY <2>3, FS_Singleton
<1>3. ASSUME coro[t] # "suspended" PROVE Wakes(t) = {}
  <2>1. /\ \A j \in 1 .. Len(ready) : ready[j] \notin StepsOf(t)
        /\ \A g \in Objects : \A j \in Nat : ~Wake(g, j, t)
    BY <1>3 DEF WakeInv, In
  <2> QED BY <2>1, WakesAre
<1>4. ASSUME fut_waiter[t] # None
      PROVE  \E i \in ToRun(fut_waiter[t]) : callbacks[fut_waiter[t]][i].cb = t
  <2>1. fut_waiter[t] \in Objects
    BY <1>4 DEF TaskTypes
  <2>2. PICK i \in Nat : Wake(fut_waiter[t], i, t)
    BY <1>4 DEF WakeInv
  <2> QED BY <2>1, <2>2, ToRunIsWake
<1> QED BY <1>1, <1>2, <1>3, <1>4 DEF WakeInv

(* The inductive invariant of the task machinery: the types, the shape of  *)
(* the queues, one wake-up for each suspended task, and for every          *)
(* cancellation that is owed a mark or a canceled future.                  *)
THEOREM TaskSafety == Spec => []TaskInv
<1>1. TaskInv /\ [Next]_vars => TaskInv'
  BY TaskStep
<1> QED BY <1>1, TaskInit, PTL DEF Spec

(* A suspended task is stepped again exactly once, by what wakeup_task,    *)
(* call_done_callbacks and the ready queue do in any order, and if it      *)
(* waits for a future it is that future that wakes it.                     *)
THEOREM SteppedOnce == Spec => []OneWakeUp
<1>1. TaskInv => OneWakeUp
  BY SchedGivesOne DEF TaskInv
<1> QED BY <1>1, TaskSafety, PTL

(* A cancellation is not dropped by task_cancel, wakeup_task or a step:    *)
(* the next thing that the task sees is the CancelledError, and it does    *)
(* not end with a result.                                                  *)
THEOREM CancellationArrives == Spec => CancellationNotLost
<1>1. TaskInv /\ [Next]_vars =>
        [\A t \in Tasks : owed[t] =>
            /\ coro[t] = "suspended" /\ coro'[t] = "running" => received'[t] = "cancelled"
            /\ Pending(t) /\ status'[t] = "finished" => exception'[t] # "none"]_vars
  BY TaskStep DEF Told
<1> QED BY <1>1, TaskSafety, PTL DEF Spec, CancellationNotLost

(* A coroutine gets a CancelledError only if it was requested of its task  *)
(* or the future that it awaits was canceled.                              *)
THEOREM CancellationWasRequested == Spec => NoUnrequestedCancellation
<1>1. TaskInv /\ [Next]_vars =>
        [\A t \in Tasks :
            coro[t] = "suspended" /\ coro'[t] = "running" /\ received'[t] = "cancelled"
            => owed[t] \/ (awaiting[t] # None /\ status[awaiting[t]] = "canceled")]_vars
  BY TaskStep DEF Told
<1> QED BY <1>1, TaskSafety, PTL DEF Spec, NoUnrequestedCancellation
=============================================================================
