-------------------------- MODULE SubprocessProofs --------------------------
(***************************************************************************)
(* Proofs about Subprocess, for any number of waiters, drains, chunks and  *)
(* bytes: the readers of stdout, the report of the exit and the writes to  *)
(* stdin.  Each of the three has an inductive invariant of its own; the    *)
(* first two share the record e, and the lemmas on its methods say which   *)
(* fields a method leaves alone.                                           *)
(***************************************************************************)
EXTENDS Subprocess, SequenceTheorems, TLAPS

Transports == [made : BOOLEAN, closed : BOOLEAN, eof : BOOLEAN]

Queues == {<<>>, <<1>>, <<2>>}

Processes ==
    [proto : Protocols, phase : {"popen", "connected", "failed"},
     returncode : {"none", "status", "minus_one"},
     closed : BOOLEAN, pidfd : {"off", "watched", "ready"}, lost : Nat,
     read : [1 .. 2 -> Transports],
     reader : 0 .. 2, polling : BOOLEAN, ready : Queues,
     given : Nat, eofs : Nat, paused : BOOLEAN, blocked : BOOLEAN,
     exit_waiters : Seq(Waiters)]

Outputs == [left : Nat, all : Nat, ended : BOOLEAN]

(* The reader is armed or its callback is in the ready queue, not both,    *)
(* and stdout is watched while somebody wants it.                          *)
Watched(x) ==
    /\ x.polling => x.reader # 0 /\ x.ready = <<>>
    /\ x.ready # <<>> => x.reader # 0
    /\ (/\ \E t \in 1 .. 2 : x.read[t].made
        /\ \A t \in 1 .. 2 : ~x.read[t].eof /\ ~x.read[t].closed
        /\ ~x.paused)
            => x.polling \/ x.ready # <<>>

(* What woke the callback in the ready queue is still there.               *)
StdoutInv ==
    /\ e \in Processes
    /\ out \in Outputs
    /\ Watched(e)
    /\ e.ready # <<>> => out.left > 0 \/ out.ended
    /\ ~e.blocked
    /\ e.given + out.left = out.all
    /\ e.eofs > 0 => out.left = 0 /\ out.ended

(* What the methods of the read transports leave alone.                    *)
SameExit(x, y) ==
    /\ y.phase = x.phase
    /\ y.returncode = x.returncode
    /\ y.lost = x.lost
    /\ y.exit_waiters = x.exit_waiters
    /\ y.pidfd = x.pidfd \/ y.pidfd = "off"

SameOutput(x, y) ==
    /\ y.given = x.given
    /\ y.eofs = x.eofs
    /\ y.blocked = x.blocked

-----------------------------------------------------------------------------
(* add_reader: the descriptor is watched, and nothing is in the queue.     *)
LEMMA AddReader ==
    ASSUME NEW x \in Processes, NEW t \in 1 .. 2
    PROVE  /\ add_reader(x, t) \in Processes
           /\ Watched(add_reader(x, t))
           /\ SameExit(x, add_reader(x, t))
           /\ SameOutput(x, add_reader(x, t))
           /\ add_reader(x, t).ready = <<>>
           /\ add_reader(x, t).read = x.read
<1> DEFINE y == add_reader(x, t)
<1>1. y \in Processes
  <2>1. <<>> \in Queues /\ t \in 0 .. 2
    BY DEF Queues
  <2> QED BY <2>1 DEF add_reader, Processes
<1>2. /\ y.reader = t /\ y.polling = TRUE /\ y.ready = <<>>
      /\ y.read = x.read
  BY DEF add_reader, Processes
<1>3. SameExit(x, y) /\ SameOutput(x, y)
  BY DEF add_reader, Processes, SameExit, SameOutput
<1> QED BY <1>1, <1>2, <1>3 DEF Watched

(* remove_reader: nothing is watched, which is right when somebody closed, *)
(* paused or reached the end.                                              *)
LEMMA RemoveReader ==
    ASSUME NEW x \in Processes,
           \/ x.paused
           \/ \E t \in 1 .. 2 : x.read[t].eof \/ x.read[t].closed
    PROVE  /\ remove_reader(x) \in Processes
           /\ Watched(remove_reader(x))
           /\ SameExit(x, remove_reader(x))
           /\ SameOutput(x, remove_reader(x))
           /\ remove_reader(x).ready = <<>>
           /\ remove_reader(x).read = x.read
<1> DEFINE y == remove_reader(x)
<1>1. y \in Processes
  <2>1. <<>> \in Queues /\ 0 \in 0 .. 2
    BY DEF Queues
  <2> QED BY <2>1 DEF remove_reader, Processes
<1>2. /\ y.reader = 0 /\ y.polling = FALSE /\ y.ready = <<>>
      /\ y.read = x.read /\ y.paused = x.paused
  BY DEF remove_reader, Processes
<1>3. SameExit(x, y) /\ SameOutput(x, y)
  BY DEF remove_reader, Processes, SameExit, SameOutput
<1> QED BY <1>1, <1>2, <1>3 DEF Watched

(* A new read transport takes over the reader.                             *)
LEMMA NewPipe ==
    ASSUME NEW x \in Processes, NEW t \in 1 .. 2
    PROVE  /\ NewReadPipe(x, t) \in Processes
           /\ Watched(NewReadPipe(x, t))
           /\ SameExit(x, NewReadPipe(x, t))
           /\ SameOutput(x, NewReadPipe(x, t))
           /\ NewReadPipe(x, t).ready = <<>>
<1> DEFINE y == [x EXCEPT !.read[t] = [NoTransport EXCEPT !.made = TRUE]]
<1>1. y \in Processes
  BY DEF Processes, NoTransport, Transports
<1>2. SameExit(x, y) /\ SameOutput(x, y)
  BY DEF Processes, SameExit, SameOutput
<1> HIDE DEF y
<1>3. NewReadPipe(x, t) = add_reader(y, t)
  BY DEF NewReadPipe, y
<1> QED BY <1>1, <1>2, <1>3, AddReader DEF SameExit, SameOutput

(* pause_reading.                                                          *)
LEMMA PauseReading ==
    ASSUME NEW x \in Processes
    PROVE  /\ pause_reading(x) \in Processes
           /\ Watched(pause_reading(x))
           /\ SameExit(x, pause_reading(x))
           /\ SameOutput(x, pause_reading(x))
           /\ pause_reading(x).ready = <<>>
<1> DEFINE y == [x EXCEPT !.paused = TRUE]
<1>1. y \in Processes /\ y.paused
  BY DEF Processes
<1>2. SameExit(x, y) /\ SameOutput(x, y)
  BY DEF Processes, SameExit, SameOutput
<1> HIDE DEF y
<1>3. pause_reading(x) = remove_reader(y)
  BY DEF pause_reading, y
<1> QED BY <1>1, <1>2, <1>3, RemoveReader DEF SameExit, SameOutput

(* resume_reading: a transport that is closed or at its end stays so.      *)
LEMMA ResumeReading ==
    ASSUME NEW x \in Processes, NEW t \in 1 .. 2, Watched(x)
    PROVE  /\ resume_reading(x, t) \in Processes
           /\ Watched(resume_reading(x, t))
           /\ SameExit(x, resume_reading(x, t))
           /\ SameOutput(x, resume_reading(x, t))
           /\ \/ resume_reading(x, t).ready = <<>>
              \/ resume_reading(x, t).ready = x.ready
<1> DEFINE y == [x EXCEPT !.paused = FALSE]
<1>1. y \in Processes
  BY DEF Processes
<1>2. SameExit(x, y) /\ SameOutput(x, y)
  BY DEF Processes, SameExit, SameOutput
<1>3. /\ y.ready = x.ready /\ y.read = x.read
      /\ y.polling = x.polling /\ y.reader = x.reader
  BY DEF Processes
<1>4. resume_reading(x, t)
        = IF x.read[t].closed \/ x.read[t].eof THEN y ELSE add_reader(y, t)
  BY DEF resume_reading
<1> HIDE DEF y
<1>5. CASE x.read[t].closed \/ x.read[t].eof
  <2>1. resume_reading(x, t) = y
    BY <1>4, <1>5
  <2>2. Watched(y)
    BY <1>3, <1>5 DEF Watched
  <2> QED BY <2>1, <2>2, <1>1, <1>2, <1>3
<1>6. CASE ~(x.read[t].closed \/ x.read[t].eof)
  <2>1. resume_reading(x, t) = add_reader(y, t)
    BY <1>4, <1>6
  <2> QED BY <2>1, <1>1, <1>2, AddReader DEF SameExit, SameOutput
<1> QED BY <1>5, <1>6

(* close of a read transport.                                              *)
LEMMA CloseRead ==
    ASSUME NEW x \in Processes, NEW t \in 1 .. 2
    PROVE  /\ close_read(x, t) \in Processes
           /\ Watched(x) => Watched(close_read(x, t))
           /\ SameExit(x, close_read(x, t))
           /\ SameOutput(x, close_read(x, t))
           /\ \/ close_read(x, t).ready = <<>>
              \/ close_read(x, t).ready = x.ready
<1> DEFINE y == [x EXCEPT !.read[t].closed = TRUE]
<1>1. CASE x.read[t].closed \/ ~x.read[t].made
  BY <1>1 DEF close_read, SameExit, SameOutput
<1>2. CASE ~(x.read[t].closed \/ ~x.read[t].made)
  <2>1. y \in Processes /\ y.read[t].closed
    BY DEF Processes, Transports
  <2>2. SameExit(x, y) /\ SameOutput(x, y)
    BY DEF Processes, SameExit, SameOutput
  <2>3. close_read(x, t) = remove_reader(y)
    BY <1>2 DEF close_read
  <2> HIDE DEF y
  <2> QED BY <2>1, <2>2, <2>3, RemoveReader DEF SameExit, SameOutput
<1> QED BY <1>1, <1>2

(* close of the process: the pipe of connection_made, and the watcher.     *)
LEMMA Close ==
    ASSUME NEW x \in Processes
    PROVE  /\ close(x) \in Processes
           /\ Watched(x) => Watched(close(x))
           /\ SameExit(x, close(x))
           /\ SameOutput(x, close(x))
           /\ close(x).ready = <<>> \/ close(x).ready = x.ready
<1> DEFINE y == close_read(x, 2)
<1>1. /\ y \in Processes /\ (Watched(x) => Watched(y))
      /\ SameExit(x, y) /\ SameOutput(x, y)
      /\ y.ready = <<>> \/ y.ready = x.ready
  BY CloseRead
<1>2. close(x) = [y EXCEPT !.closed = TRUE,
                           !.pidfd = IF @ = "watched" THEN "off" ELSE @]
  BY DEF close
<1> HIDE DEF y
<1>3. close(x) \in Processes
  BY <1>1, <1>2 DEF Processes
<1>4. /\ SameExit(y, close(x)) /\ SameOutput(y, close(x))
  BY <1>1, <1>2 DEF Processes, SameExit, SameOutput
<1>5. /\ close(x).ready = y.ready /\ close(x).read = y.read
      /\ close(x).polling = y.polling /\ close(x).reader = y.reader
      /\ close(x).paused = y.paused
  BY <1>1, <1>2 DEF Processes
<1> QED BY <1>1, <1>3, <1>4, <1>5 DEF Watched, SameExit, SameOutput

(* Whatever the application does in a callback.                            *)
LEMMA AppKeeps ==
    ASSUME NEW x \in Processes, NEW c \in Calls
    PROVE  /\ App(x, c) \in Processes
           /\ Watched(x) => Watched(App(x, c))
           /\ SameExit(x, App(x, c))
           /\ SameOutput(x, App(x, c))
           /\ App(x, c).ready = <<>> \/ App(x, c).ready = x.ready
<1>1. CASE App(x, c) = x
  BY <1>1 DEF SameExit, SameOutput
<1>2. CASE App(x, c) = pause_reading(x)
  BY <1>2, PauseReading
<1>3. CASE App(x, c) = close(x)
  BY <1>3, Close
<1>4. App(x, c) = x \/ App(x, c) = pause_reading(x) \/ App(x, c) = close(x)
  BY DEF App, Calls
<1> QED BY <1>1, <1>2, <1>3, <1>4

-----------------------------------------------------------------------------
(* connection_made: the pipes are made, and what is made last is watched.  *)
LEMMA ConnectionMade ==
    ASSUME NEW x \in Processes
    PROVE  /\ connection_made(x) \in Processes
           /\ Watched(connection_made(x))
           /\ SameExit(x, connection_made(x))
           /\ SameOutput(x, connection_made(x))
           /\ connection_made(x).ready = <<>>
<1> DEFINE asked == IF x.proto = "plain" THEN x ELSE NewReadPipe(x, 1)
<1>1. asked \in Processes /\ SameExit(x, asked) /\ SameOutput(x, asked)
  BY NewPipe DEF SameExit, SameOutput
<1>2. x.proto = "stream" => asked = NewReadPipe(x, 1)
  OBVIOUS
<1>3. connection_made(x)
        = IF x.proto = "stream" THEN asked ELSE NewReadPipe(asked, 2)
  BY DEF connection_made
<1> HIDE DEF asked
<1>4. CASE x.proto = "stream"
  BY <1>2, <1>3, <1>4, NewPipe
<1>5. CASE x.proto # "stream"
  <2>1. connection_made(x) = NewReadPipe(asked, 2)
    BY <1>3, <1>5
  <2> QED BY <1>1, <2>1, NewPipe DEF SameExit, SameOutput
<1> QED BY <1>4, <1>5

(* A step that leaves the readers and stdout alone.                        *)
LEMMA OtherFields ==
    ASSUME StdoutInv, NEW y \in Processes,
           y.read = e.read, y.reader = e.reader, y.polling = e.polling,
           y.ready = e.ready, y.paused = e.paused, SameOutput(e, y),
           e' = y, UNCHANGED out
    PROVE  StdoutInv'
BY DEF StdoutInv, Watched, SameOutput

(* A step in which the methods above are called, and nothing is read.      *)
LEMMA MethodCalled ==
    ASSUME StdoutInv, NEW y \in Processes, Watched(y), SameOutput(e, y),
           y.ready = <<>> \/ y.ready = e.ready,
           e' = y, UNCHANGED out
    PROVE  StdoutInv'
BY DEF StdoutInv, SameOutput

(* _on_readable: it runs with what woke it, reads all of it, and the       *)
(* descriptor is watched again unless this was the end.                    *)
LEMMA ReaderKeeps ==
    ASSUME StdoutInv, NEW c \in Calls, RunReader(c)
    PROVE  /\ StdoutInv'
           /\ SameExit(e, e')
<1> DEFINE t == Head(e.ready)
           x == [e EXCEPT !.ready = Tail(@)]
           got == [x EXCEPT !.given = @ + out.left]
           end == [x EXCEPT !.read[t].eof = TRUE, !.eofs = @ + 1]
<1>1. t \in 1 .. 2 /\ Tail(e.ready) = <<>>
  <2>1. e.ready = <<1>> \/ e.ready = <<2>>
    BY DEF StdoutInv, Processes, Queues, RunReader
  <2>2. /\ Head(<<1>>) = 1 /\ Tail(<<1>>) = <<>>
        /\ Head(<<2>>) = 2 /\ Tail(<<2>>) = <<>>
    OBVIOUS
  <2>3. 1 \in 1 .. 2 /\ 2 \in 1 .. 2
    OBVIOUS
  <2>4. CASE e.ready = <<1>>
    BY <2>2, <2>3, <2>4
  <2>5. CASE e.ready = <<2>>
    BY <2>2, <2>3, <2>5
  <2> QED BY <2>1, <2>4, <2>5
<1>2. x \in Processes
  <2>1. <<>> \in Queues
    BY DEF Queues
  <2> QED BY <1>1, <2>1 DEF StdoutInv, Processes
<1>3. /\ SameExit(e, x) /\ SameOutput(e, x) /\ x.ready = <<>>
      /\ x.read = e.read
  BY <1>1 DEF StdoutInv, Processes, SameExit, SameOutput
<1>4. out.left \in Nat /\ out.ended \in BOOLEAN /\ out \in Outputs
  BY DEF StdoutInv, Outputs
<1>5. /\ got \in Processes /\ SameExit(x, got)
      /\ got.given = x.given + out.left /\ got.eofs = x.eofs
      /\ got.blocked = x.blocked
  <2>1. x.given + out.left \in Nat
    BY <1>2, <1>4 DEF Processes
  <2> HIDE DEF x
  <2> QED BY <1>2, <2>1 DEF Processes, SameExit
<1>6. /\ end \in Processes /\ SameExit(x, end)
      /\ end.given = x.given /\ end.eofs = x.eofs + 1
      /\ end.blocked = x.blocked /\ end.read[t].eof
  <2> HIDE DEF x, t
  <2>1. x.eofs + 1 \in Nat /\ x.read[t] \in Transports
        /\ x.read \in [1 .. 2 -> Transports]
    BY <1>1, <1>2 DEF Processes
  <2> DEFINE r == [x.read EXCEPT ![t] = [@ EXCEPT !.eof = TRUE]]
  <2>2. r \in [1 .. 2 -> Transports] /\ r[t].eof
    BY <1>1, <2>1 DEF Transports
  <2>3. end = [x EXCEPT !.read = r, !.eofs = @ + 1]
    BY <1>2, <2>1 DEF Processes
  <2> HIDE DEF r, end
  <2> QED BY <1>2, <2>1, <2>2, <2>3 DEF Processes, SameExit
<1>7. /\ e' = _on_readable(x, t, c)
      /\ out' = IF ~e.read[t].eof /\ ~e.read[t].closed
                THEN [out EXCEPT !.left = 0] ELSE out
  BY DEF RunReader
<1>8. _on_readable(x, t, c) =
        IF x.read[t].eof \/ x.read[t].closed THEN remove_reader(x)
        ELSE IF out.left > 0 THEN add_reader(App(got, c), t)
        ELSE IF out.ended THEN App(remove_reader(end), c)
        ELSE [x EXCEPT !.blocked = TRUE]
  BY DEF _on_readable
<1>9. e.ready # <<>>
  BY DEF RunReader
<1> HIDE DEF x, t, got, end
<1>10. CASE e.read[t].eof \/ e.read[t].closed
  <2>1. e' = remove_reader(x) /\ out' = out
    BY <1>3, <1>7, <1>8, <1>10
  <2>2. /\ e' \in Processes /\ Watched(e') /\ SameExit(x, e')
        /\ SameOutput(x, e') /\ e'.ready = <<>>
    BY <1>1, <1>2, <1>3, <1>10, <2>1, RemoveReader
  <2> QED BY <1>3, <2>1, <2>2 DEF StdoutInv, SameExit, SameOutput
<1>11. CASE ~(e.read[t].eof \/ e.read[t].closed) /\ out.left > 0
  <2>1. /\ e' = add_reader(App(got, c), t)
        /\ out' = [out EXCEPT !.left = 0]
    BY <1>3, <1>7, <1>8, <1>11
  <2> DEFINE a == App(got, c)
  <2>2. a \in Processes /\ SameExit(got, a) /\ SameOutput(got, a)
    BY <1>5, AppKeeps
  <2>3. e' = add_reader(a, t)
    BY <2>1
  <2> HIDE DEF a
  <2>4. /\ e' \in Processes /\ Watched(e') /\ SameExit(a, e')
        /\ SameOutput(a, e') /\ e'.ready = <<>>
    BY <1>1, <2>2, <2>3, AddReader
  <2>5. SameExit(e, e')
    BY <1>3, <1>5, <2>2, <2>4 DEF SameExit
  <2>6. e'.given = e.given + out.left /\ e'.eofs = e.eofs /\ ~e'.blocked
    BY <1>3, <1>5, <2>2, <2>4 DEF SameOutput, StdoutInv
  <2>7. /\ out' \in Outputs /\ out'.left = 0 /\ out'.all = out.all
        /\ out'.ended = out.ended
    BY <1>4, <2>1 DEF Outputs
  <2>8. e.given \in Nat
    BY DEF StdoutInv, Processes
  <2> QED BY <1>4, <2>4, <2>5, <2>6, <2>7, <2>8 DEF StdoutInv
<1>12. CASE ~(e.read[t].eof \/ e.read[t].closed) /\ ~(out.left > 0)
  <2>1. out.ended /\ out.left = 0
    BY <1>4, <1>9, <1>12 DEF StdoutInv
  <2> DEFINE a == remove_reader(end)
  <2>2. /\ e' = App(a, c)
        /\ out' = [out EXCEPT !.left = 0]
    BY <1>3, <1>7, <1>8, <1>12, <2>1
  <2>3. /\ a \in Processes /\ Watched(a) /\ SameExit(end, a)
        /\ SameOutput(end, a) /\ a.ready = <<>>
    BY <1>1, <1>6, RemoveReader
  <2> HIDE DEF a
  <2>4. /\ e' \in Processes /\ Watched(e') /\ SameExit(a, e')
        /\ SameOutput(a, e') /\ e'.ready = <<>>
    BY <2>2, <2>3, AppKeeps
  <2>5. SameExit(e, e')
    BY <1>3, <1>6, <2>3, <2>4 DEF SameExit
  <2>6. e'.given = e.given /\ ~e'.blocked
    BY <1>3, <1>6, <2>3, <2>4 DEF SameOutput, StdoutInv
  <2>7. /\ out' \in Outputs /\ out'.left = 0 /\ out'.all = out.all
        /\ out'.ended = out.ended
    BY <1>4, <2>2 DEF Outputs
  <2> QED BY <2>1, <2>4, <2>5, <2>6, <2>7 DEF StdoutInv
<1> QED BY <1>10, <1>11, <1>12

(* Init satisfies the invariant of stdout.                                 *)
LEMMA StdoutInit == Init => StdoutInv
<1> SUFFICES ASSUME Init PROVE StdoutInv
  OBVIOUS
<1>1. PICK p \in Protocols :
        e = [proto |-> p, phase |-> "popen", returncode |-> "none",
             closed |-> FALSE, pidfd |-> "off", lost |-> 0,
             read |-> [t \in 1 .. 2 |-> NoTransport],
             reader |-> 0, polling |-> FALSE, ready |-> <<>>,
             given |-> 0, eofs |-> 0, paused |-> FALSE, blocked |-> FALSE,
             exit_waiters |-> <<>>]
  BY DEF Init
<1>2. <<>> \in Queues /\ <<>> \in Seq(Waiters) /\ 0 \in 0 .. 2
  BY DEF Queues
<1>3. [t \in 1 .. 2 |-> NoTransport] \in [1 .. 2 -> Transports]
  BY DEF NoTransport, Transports
<1>4. e \in Processes
  BY <1>1, <1>2, <1>3 DEF Processes
<1>5. /\ e.read = [t \in 1 .. 2 |-> NoTransport] /\ e.polling = FALSE
      /\ e.ready = <<>> /\ e.blocked = FALSE /\ e.given = 0 /\ e.eofs = 0
  BY <1>1
<1>6. \A t \in 1 .. 2 : ~e.read[t].made
  BY <1>5 DEF NoTransport
<1>7. out \in Outputs /\ out.left = 0 /\ out.all = 0
  BY DEF Init, Outputs
<1> QED BY <1>4, <1>5, <1>6, <1>7 DEF StdoutInv, Watched

(* Every step keeps the invariant of stdout, and no step but the first     *)
(* ones and the exit touches what WaitersGetTheCode is about.              *)
LEMMA StdoutStep == StdoutInv /\ [Next]_vars => StdoutInv'
<1> SUFFICES ASSUME StdoutInv, [Next]_vars PROVE StdoutInv'
  OBVIOUS
<1> e \in Processes /\ out \in Outputs /\ Watched(e)
  BY DEF StdoutInv
<1>1. CASE Connect
  <2> DEFINE y == connection_made(e)
  <2>1. /\ y \in Processes /\ Watched(y) /\ SameOutput(e, y)
        /\ y.ready = <<>>
    BY ConnectionMade
  <2>2. e' = [y EXCEPT !.phase = "connected", !.pidfd = "watched"]
        /\ UNCHANGED out
    BY <1>1 DEF Connect
  <2> HIDE DEF y
  <2>3. e' \in Processes
    BY <2>1, <2>2 DEF Processes
  <2>4. /\ SameOutput(y, e') /\ e'.ready = y.ready /\ e'.read = y.read
        /\ e'.polling = y.polling /\ e'.reader = y.reader
        /\ e'.paused = y.paused
    BY <2>1, <2>2 DEF Processes, SameOutput
  <2>5. Watched(e') /\ SameOutput(e, e')
    BY <2>1, <2>4 DEF Watched, SameOutput
  <2> QED BY <2>1, <2>2, <2>3, <2>4, <2>5, MethodCalled
<1>2. CASE ExecFails
  <2>1. e' = [e EXCEPT !.phase = "failed"] /\ out' = [out EXCEPT !.ended = TRUE]
    BY <1>2 DEF ExecFails
  <2>2. e' \in Processes
    BY <2>1 DEF Processes
  <2>3. /\ SameOutput(e, e') /\ e'.ready = e.ready /\ e'.read = e.read
        /\ e'.polling = e.polling /\ e'.reader = e.reader
        /\ e'.paused = e.paused
    BY <2>1 DEF Processes, SameOutput
  <2>4. out' \in Outputs /\ out'.left = out.left /\ out'.all = out.all /\ out'.ended
    BY <2>1 DEF Outputs
  <2> QED BY <2>2, <2>3, <2>4 DEF StdoutInv, Watched, SameOutput
<1>3. CASE get_pipe_transport
  <2>1. e' = NewReadPipe(e, 1) /\ UNCHANGED out
    BY <1>3 DEF get_pipe_transport
  <2> QED BY <2>1, NewPipe, MethodCalled
<1>4. CASE PollCompletes
  <2>1. /\ e.polling /\ (out.left > 0 \/ out.ended) /\ UNCHANGED out
        /\ e' = [e EXCEPT !.polling = FALSE, !.ready = Append(@, e.reader)]
    BY <1>4 DEF PollCompletes
  <2>2. e.ready = <<>> /\ e.reader # 0 /\ e.reader \in 0 .. 2
    BY <2>1 DEF Watched, Processes
  <2>3. Append(e.ready, e.reader) = <<e.reader>>
    BY <2>2
  <2>4. e.reader = 1 \/ e.reader = 2
    BY <2>2
  <2>5. <<e.reader>> \in Queues /\ <<e.reader>> # <<>>
    BY <2>4 DEF Queues
  <2>6. e' \in Processes
    BY <2>1, <2>3, <2>5 DEF Processes
  <2>7. /\ SameOutput(e, e') /\ e'.ready # <<>> /\ e'.read = e.read
        /\ e'.polling = FALSE /\ e'.reader = e.reader
        /\ e'.paused = e.paused
    BY <2>1, <2>3, <2>5 DEF Processes, SameOutput
  <2> QED BY <2>1, <2>2, <2>6, <2>7 DEF StdoutInv, Watched, SameOutput
<1>5. CASE \E c \in Calls : RunReader(c)
  BY <1>5, ReaderKeeps
<1>6. CASE Use
  <2>1. UNCHANGED out
    BY <1>6 DEF Use
  <2>2. \/ e' = pause_reading(e) \/ e' = resume_reading(e, 1)
        \/ e' = close(e) \/ e' = close_read(e, 1)
    BY <1>6 DEF Use
  <2>3. CASE e' = pause_reading(e)
    BY <2>1, <2>3, PauseReading, MethodCalled
  <2>4. CASE e' = resume_reading(e, 1)
    BY <2>1, <2>4, ResumeReading, MethodCalled
  <2>5. CASE e' = close(e)
    BY <2>1, <2>5, Close, MethodCalled
  <2>6. CASE e' = close_read(e, 1)
    BY <2>1, <2>6, CloseRead, MethodCalled
  <2> QED BY <2>2, <2>3, <2>4, <2>5, <2>6
<1>7. ASSUME NEW w \in Waiters, _wait(w) PROVE StdoutInv'
  <2>1. UNCHANGED out
    BY <1>7 DEF _wait
  <2>2. CASE UNCHANGED e
    BY <2>1, <2>2 DEF StdoutInv
  <2>3. CASE e' = [e EXCEPT !.exit_waiters = Append(@, w)]
    <3>1. e' \in Processes
      <4>1. Append(e.exit_waiters, w) \in Seq(Waiters)
        BY DEF Processes
      <4> QED BY <2>3, <4>1 DEF Processes
    <3>2. /\ e'.read = e.read /\ e'.reader = e.reader
          /\ e'.polling = e.polling /\ e'.ready = e.ready
          /\ e'.paused = e.paused /\ SameOutput(e, e')
      BY <2>3 DEF Processes, SameOutput
    <3> QED BY <2>1, <3>1, <3>2, OtherFields
  <2> QED BY <1>7, <2>2, <2>3 DEF _wait
<1>8. CASE PidfdReady
  <2>1. e' = [e EXCEPT !.pidfd = "ready"] /\ UNCHANGED out
    BY <1>8 DEF PidfdReady
  <2>2. e' \in Processes
    BY <2>1 DEF Processes
  <2>3. /\ e'.read = e.read /\ e'.reader = e.reader
        /\ e'.polling = e.polling /\ e'.ready = e.ready
        /\ e'.paused = e.paused /\ SameOutput(e, e')
    BY <2>1 DEF Processes, SameOutput
  <2> QED BY <2>1, <2>2, <2>3, OtherFields
<1>9. ASSUME NEW c \in Calls, pidfd_exit_callback(c) PROVE StdoutInv'
  <2> DEFINE rc == IF child = "reaped" THEN "minus_one" ELSE "status"
             x == [e EXCEPT !.pidfd = "off", !.returncode = rc, !.lost = @ + 1]
  <2>1. UNCHANGED out
    BY <1>9 DEF pidfd_exit_callback
  <2>2. CASE e' = [e EXCEPT !.pidfd = "off"]
    <3>1. e' \in Processes
      BY <2>2 DEF Processes
    <3>2. /\ e'.read = e.read /\ e'.reader = e.reader
          /\ e'.polling = e.polling /\ e'.ready = e.ready
          /\ e'.paused = e.paused /\ SameOutput(e, e')
      BY <2>2 DEF Processes, SameOutput
    <3> QED BY <2>1, <3>1, <3>2, OtherFields
  <2>3. CASE e' = App(x, c)
    <3>1. rc \in {"none", "status", "minus_one"} /\ e.lost + 1 \in Nat
      BY DEF Processes
    <3> HIDE DEF rc
    <3>2. x \in Processes
      BY <3>1 DEF Processes
    <3>3. /\ x.read = e.read /\ x.reader = e.reader
          /\ x.polling = e.polling /\ x.ready = e.ready
          /\ x.paused = e.paused /\ SameOutput(e, x)
      BY DEF Processes, SameOutput
    <3>4. Watched(x)
      BY <3>3 DEF Watched
    <3> HIDE DEF x
    <3>5. /\ e' \in Processes /\ Watched(e') /\ SameOutput(x, e')
          /\ e'.ready = <<>> \/ e'.ready = x.ready
      BY <2>3, <3>2, <3>4, AppKeeps
    <3>6. SameOutput(e, e') /\ (e'.ready = <<>> \/ e'.ready = e.ready)
      BY <3>3, <3>5 DEF SameOutput
    <3> QED BY <2>1, <3>5, <3>6, MethodCalled
  <2> QED BY <1>9, <2>2, <2>3 DEF pidfd_exit_callback
<1>10. CASE ChildWrites
  <2>1. /\ ~out.ended /\ UNCHANGED e
        /\ out' = [out EXCEPT !.left = @ + 1, !.all = @ + 1]
    BY <1>10 DEF ChildWrites
  <2>2. /\ out' \in Outputs /\ out'.left = out.left + 1
        /\ out'.all = out.all + 1 /\ out'.ended = out.ended
        /\ out.left \in Nat /\ out.all \in Nat
    <3>1. /\ out.left \in Nat /\ out.all \in Nat
          /\ out.left + 1 \in Nat /\ out.all + 1 \in Nat
      BY DEF Outputs
    <3> QED BY <2>1, <3>1 DEF Outputs
  <2>3. e.given \in Nat
    BY DEF Processes
  <2> QED BY <2>1, <2>2, <2>3 DEF StdoutInv
<1>11. CASE ChildCloses
  <2>1. UNCHANGED e
    BY <1>11 DEF ChildCloses
  <2>2. UNCHANGED out \/ out' = [out EXCEPT !.ended = TRUE]
    BY <1>11 DEF ChildCloses
  <2>3. CASE UNCHANGED out
    BY <2>1, <2>3 DEF StdoutInv
  <2>4. CASE out' = [out EXCEPT !.ended = TRUE]
    <3>1. out' \in Outputs /\ out'.left = out.left /\ out'.all = out.all
          /\ out'.ended
      BY <2>4 DEF Outputs
    <3> QED BY <2>1, <3>1 DEF StdoutInv
  <2> QED BY <2>2, <2>3, <2>4
<1>12. CASE UNCHANGED <<e, out>>
  BY <1>12 DEF StdoutInv
<1> QED
  BY <1>1, <1>2, <1>3, <1>4, <1>5, <1>6, <1>7, <1>8, <1>9, <1>10, <1>11, <1>12
  DEF Next, vars, WaitCancelled, write, close_write, _patched_drain_helper,
      FlushStarts, FlushEnds, FlushFails, DrainEnds, ChildExits, Reaped

(* The inductive invariant of stdout implies the three properties.         *)
LEMMA StdoutImplies ==
    StdoutInv => NoBlockingRead /\ OutputBeforeEof /\ StdoutIsWatched
<1> SUFFICES ASSUME StdoutInv
             PROVE  NoBlockingRead /\ OutputBeforeEof /\ StdoutIsWatched
  OBVIOUS
<1>1. NoBlockingRead /\ OutputBeforeEof
  BY DEF StdoutInv, NoBlockingRead, OutputBeforeEof
<1>2. StdoutIsWatched
  BY DEF StdoutInv, Watched, StdoutIsWatched
<1> QED BY <1>1, <1>2

-----------------------------------------------------------------------------
(* The exit: it is watched for only before it is reported, and a pending   *)
(* call of _wait is in the list that the report goes through.              *)
ExitInv ==
    /\ waits \in [Waiters -> {"idle", "pending", "cancelled",
                             "status", "minus_one"}]
    /\ e.lost <= 1
    /\ e.phase # "connected" => e.lost = 0
    /\ e.pidfd # "off" => e.lost = 0
    /\ e.lost = 0 <=> e.returncode = "none"
    /\ \A w \in Waiters :
        waits[w] = "pending" => w \in Range(e.exit_waiters) /\ e.lost = 0
    /\ \A w \in Waiters :
        waits[w] \in {"status", "minus_one"} => waits[w] = e.returncode
    /\ e.returncode = "minus_one" => child = "reaped"

(* Whoever is appended to a list is in it, with those that were.           *)
LEMMA AppendRange ==
    ASSUME NEW S, NEW s \in Seq(S), NEW w \in S
    PROVE  /\ w \in Range(Append(s, w))
           /\ \A v \in Range(s) : v \in Range(Append(s, w))
<1> DEFINE t == Append(s, w)
<1>1. /\ DOMAIN s = 1 .. Len(s) /\ DOMAIN t = 1 .. Len(s) + 1
      /\ Len(s) \in Nat /\ t[Len(s) + 1] = w
      /\ \A i \in 1 .. Len(s) : t[i] = s[i]
  OBVIOUS
<1> HIDE DEF t
<1>2. w \in Range(t)
  BY <1>1 DEF Range
<1>3. ASSUME NEW v \in Range(s) PROVE v \in Range(t)
  BY <1>1 DEF Range
<1> QED BY <1>2, <1>3 DEF t

(* A step that leaves the exit alone.                                      *)
LEMMA ExitSame ==
    ASSUME ExitInv, SameExit(e, e'), UNCHANGED waits,
           child' = child \/ child' = "reaped" \/ child = "running"
    PROVE  ExitInv'
BY DEF ExitInv, SameExit

(* Init satisfies the invariant of the exit.                               *)
LEMMA ExitInit == Init => ExitInv
<1> SUFFICES ASSUME Init PROVE ExitInv
  OBVIOUS
<1>1. /\ e.lost = 0 /\ e.phase = "popen" /\ e.pidfd = "off"
      /\ e.returncode = "none"
  BY DEF Init
<1>2. waits = [w \in Waiters |-> "idle"]
  BY DEF Init
<1> QED BY <1>1, <1>2 DEF ExitInv

(* Every step keeps the invariant of the exit.                             *)
LEMMA ExitStep == StdoutInv /\ ExitInv /\ [Next]_vars => ExitInv'
<1> SUFFICES ASSUME StdoutInv, ExitInv, [Next]_vars PROVE ExitInv'
  OBVIOUS
<1> e \in Processes /\ Watched(e)
  BY DEF StdoutInv
<1>1. CASE Connect
  <2> DEFINE y == connection_made(e)
  <2>1. y \in Processes /\ SameExit(e, y)
    BY ConnectionMade
  <2>2. /\ e' = [y EXCEPT !.phase = "connected", !.pidfd = "watched"]
        /\ UNCHANGED <<waits, child>> /\ e.phase = "popen"
    BY <1>1 DEF Connect
  <2> HIDE DEF y
  <2>3. /\ e'.returncode = y.returncode /\ e'.lost = y.lost
        /\ e'.exit_waiters = y.exit_waiters /\ e'.phase = "connected"
        /\ e'.pidfd = "watched"
    BY <2>1, <2>2 DEF Processes
  <2> QED BY <2>1, <2>2, <2>3 DEF SameExit, ExitInv
<1>2. CASE ExecFails
  <2>1. /\ e' = [e EXCEPT !.phase = "failed"] /\ e.phase = "popen"
        /\ child' = "reaped" /\ UNCHANGED waits
    BY <1>2 DEF ExecFails
  <2>2. /\ e'.returncode = e.returncode /\ e'.lost = e.lost
        /\ e'.exit_waiters = e.exit_waiters /\ e'.phase = "failed"
        /\ e'.pidfd = e.pidfd
    BY <2>1 DEF Processes
  <2> QED BY <2>1, <2>2 DEF ExitInv
<1>3. CASE get_pipe_transport
  <2>1. e' = NewReadPipe(e, 1) /\ UNCHANGED <<waits, child>>
    BY <1>3 DEF get_pipe_transport
  <2> QED BY <2>1, NewPipe, ExitSame
<1>4. CASE PollCompletes
  <2>1. /\ e' = [e EXCEPT !.polling = FALSE, !.ready = Append(@, e.reader)]
        /\ UNCHANGED <<waits, child>>
    BY <1>4 DEF PollCompletes
  <2>2. SameExit(e, e')
    BY <2>1 DEF Processes, SameExit
  <2> QED BY <2>1, <2>2, ExitSame
<1>5. ASSUME NEW c \in Calls, RunReader(c) PROVE ExitInv'
  <2>1. UNCHANGED <<waits, child>>
    BY <1>5 DEF RunReader
  <2> QED BY <1>5, <2>1, ReaderKeeps, ExitSame
<1>6. CASE Use
  <2>1. UNCHANGED <<waits, child>>
    BY <1>6 DEF Use
  <2>2. \/ e' = pause_reading(e) \/ e' = resume_reading(e, 1)
        \/ e' = close(e) \/ e' = close_read(e, 1)
    BY <1>6 DEF Use
  <2>3. SameExit(e, e')
    BY <2>2, PauseReading, ResumeReading, Close, CloseRead
  <2> QED BY <2>1, <2>3, ExitSame
<1>7. ASSUME NEW w \in Waiters, _wait(w) PROVE ExitInv'
  <2>1. UNCHANGED child /\ waits[w] = "idle"
    BY <1>7 DEF _wait
  <2>2. CASE e.returncode # "none"
    <3>1. waits' = [waits EXCEPT ![w] = e.returncode] /\ UNCHANGED e
      BY <1>7, <2>2 DEF _wait
    <3>2. e.returncode \in {"status", "minus_one"}
      BY <2>2 DEF Processes
    <3> QED BY <2>1, <3>1, <3>2 DEF ExitInv
  <2>3. CASE e.returncode = "none"
    <3>1. /\ waits' = [waits EXCEPT ![w] = "pending"]
          /\ e' = [e EXCEPT !.exit_waiters = Append(@, w)]
      BY <1>7, <2>3 DEF _wait
    <3>2. /\ e'.returncode = e.returncode /\ e'.lost = e.lost
          /\ e'.phase = e.phase /\ e'.pidfd = e.pidfd
          /\ e'.exit_waiters = Append(e.exit_waiters, w)
      BY <3>1 DEF Processes
    <3>3. e.exit_waiters \in Seq(Waiters)
      BY DEF Processes
    <3>4. /\ w \in Range(e'.exit_waiters)
          /\ \A v \in Range(e.exit_waiters) : v \in Range(e'.exit_waiters)
      BY <3>2, <3>3, AppendRange
    <3>5. \A v \in Waiters :
            waits'[v] = "pending" => v \in Range(e'.exit_waiters) /\ e'.lost = 0
      BY <2>3, <3>1, <3>2, <3>4 DEF ExitInv
    <3> QED BY <2>1, <2>3, <3>1, <3>2, <3>5 DEF ExitInv
  <2> QED BY <2>2, <2>3
<1>8. ASSUME NEW w \in Waiters, WaitCancelled(w) PROVE ExitInv'
  BY <1>8 DEF ExitInv, WaitCancelled
<1>9. CASE PidfdReady
  <2>1. /\ e' = [e EXCEPT !.pidfd = "ready"] /\ e.pidfd = "watched"
        /\ UNCHANGED <<waits, child>>
    BY <1>9 DEF PidfdReady
  <2>2. /\ e'.returncode = e.returncode /\ e'.lost = e.lost
        /\ e'.phase = e.phase /\ e'.exit_waiters = e.exit_waiters
    BY <2>1 DEF Processes
  <2> QED BY <2>1, <2>2 DEF ExitInv
<1>10. ASSUME NEW c \in Calls, pidfd_exit_callback(c) PROVE ExitInv'
  <2> DEFINE rc == IF child = "reaped" THEN "minus_one" ELSE "status"
             x == [e EXCEPT !.pidfd = "off", !.returncode = rc, !.lost = @ + 1]
  <2>1. UNCHANGED child /\ e.pidfd = "ready" /\ e.phase = "connected"
    BY <1>10 DEF pidfd_exit_callback, Connected
  <2>2. CASE e.closed
    <3>1. e' = [e EXCEPT !.pidfd = "off"] /\ UNCHANGED waits
      BY <1>10, <2>2 DEF pidfd_exit_callback
    <3>2. SameExit(e, e')
      BY <3>1 DEF Processes, SameExit
    <3> QED BY <2>1, <3>1, <3>2, ExitSame
  <2>3. CASE ~e.closed
    <3>1. e' = App(x, c) /\ waits' = connection_lost(rc)
      BY <1>10, <2>3 DEF pidfd_exit_callback
    <3>2. /\ rc \in {"status", "minus_one"} /\ (rc = "minus_one" => child = "reaped")
      OBVIOUS
    <3>3. e.lost = 0 /\ e.lost + 1 = 1 /\ e.returncode = "none"
      BY <2>1 DEF ExitInv
    <3> HIDE DEF rc
    <3>4. x \in Processes
      <4>1. /\ rc \in {"none", "status", "minus_one"}
            /\ e.lost + 1 \in Nat
        BY <3>2, <3>3
      <4> QED BY <4>1 DEF Processes
    <3>5. /\ x.lost = 1 /\ x.returncode = rc /\ x.pidfd = "off"
          /\ x.phase = "connected"
      BY <2>1, <3>3 DEF Processes
    <3> HIDE DEF x
    <3>6. SameExit(x, e')
      BY <3>1, <3>4, AppKeeps
    <3>7. /\ e'.lost = 1 /\ e'.returncode = rc /\ e'.pidfd = "off"
          /\ e'.phase = "connected"
      BY <3>5, <3>6 DEF SameExit
    <3>8. \A w \in Waiters :
            waits'[w] = IF w \in Range(e.exit_waiters) /\ waits[w] = "pending"
                        THEN rc ELSE waits[w]
      BY <3>1 DEF connection_lost
    <3>9. waits' \in [Waiters -> {"idle", "pending", "cancelled",
                                  "status", "minus_one"}]
      BY <3>1, <3>2 DEF connection_lost, ExitInv
    <3>10. \A w \in Waiters : waits'[w] # "pending"
      BY <3>2, <3>8 DEF ExitInv
    <3>11. \A w \in Waiters :
            waits'[w] \in {"status", "minus_one"} => waits'[w] = rc
      BY <3>3, <3>8 DEF ExitInv
    <3> QED BY <2>1, <3>2, <3>7, <3>9, <3>10, <3>11 DEF ExitInv
  <2> QED BY <2>2, <2>3
<1>11. CASE ChildExits
  BY <1>11 DEF ExitInv, ChildExits
<1>12. CASE Reaped
  BY <1>12 DEF ExitInv, Reaped
<1>13. CASE UNCHANGED <<e, waits, child>>
  BY <1>13 DEF ExitInv
<1> QED
  BY <1>1, <1>2, <1>3, <1>4, <1>5, <1>6, <1>7, <1>8, <1>9, <1>10, <1>11, <1>12,
     <1>13
  DEF Next, vars, write, close_write, _patched_drain_helper, FlushStarts,
      FlushEnds, FlushFails, DrainEnds, ChildWrites, ChildCloses

(* The inductive invariant of the exit implies the property.               *)
LEMMA ExitImplies == ExitInv => WaitersGetTheCode
BY DEF ExitInv, WaitersGetTheCode

-----------------------------------------------------------------------------
(* stdin.  Until somebody writes, drains or closes while a drain is under  *)
(* way there is at most one drain, and what it writes is the whole buffer. *)
Pipes == [buffer : Seq(Nat), closed : BOOLEAN, written : Nat, got : Seq(Nat),
          open : BOOLEAN, overlap : BOOLEAN]

Threads == [at : {"idle", "started", "writing", "done"}, data : Seq(Nat)]

UpTo(n) == [i \in 1 .. n |-> i]

OneDrain ==
    ~stdin.overlap =>
        \A d1, d2 \in Drains :
            drain[d1].at # "idle" /\ drain[d2].at # "idle" => d1 = d2

WritesTheBuffer ==
    ~stdin.overlap =>
        \A d \in Drains : drain[d].at = "writing" => drain[d].data = stdin.buffer

StdinInv ==
    /\ stdin \in Pipes
    /\ drain \in [Drains -> Threads]
    /\ OneDrain
    /\ WritesTheBuffer
    /\ ~stdin.overlap => stdin.got \o stdin.buffer = UpTo(stdin.written)

(* write: one more byte at the end of what was written.                    *)
LEMMA OneMore ==
    ASSUME NEW g \in Seq(Nat), NEW b \in Seq(Nat), NEW n \in Nat,
           g \o b = UpTo(n)
    PROVE  g \o Append(b, n + 1) = UpTo(n + 1)
<1>1. UpTo(n) \in Seq(Nat) /\ Len(UpTo(n)) = n
  BY DEF UpTo
<1>2. UpTo(n + 1) \in Seq(Nat) /\ Len(UpTo(n + 1)) = n + 1
  BY DEF UpTo
<1> DEFINE a == Append(b, n + 1)
<1>3. /\ a \in Seq(Nat) /\ Len(a) = Len(b) + 1 /\ a[Len(b) + 1] = n + 1
      /\ \A i \in 1 .. Len(b) : a[i] = b[i]
  OBVIOUS
<1>4. Len(g) \in Nat /\ Len(b) \in Nat
  OBVIOUS
<1> HIDE DEF a
<1>5. Len(g) + Len(b) = n
  <2>1. Len(g \o b) = Len(g) + Len(b)
    BY ConcatProperties
  <2> QED BY <1>1, <2>1
<1>6. \A i \in 1 .. n :
        (g \o b)[i] = IF i <= Len(g) THEN g[i] ELSE b[i - Len(g)]
  <2>1. \A i \in 1 .. Len(g) + Len(b) :
          (g \o b)[i] = IF i <= Len(g) THEN g[i] ELSE b[i - Len(g)]
    BY ConcatProperties
  <2> QED BY <1>5, <2>1
<1>7. /\ g \o a \in Seq(Nat) /\ Len(g \o a) = n + 1
      /\ \A i \in 1 .. n + 1 :
            (g \o a)[i] = IF i <= Len(g) THEN g[i] ELSE a[i - Len(g)]
  <2>1. Len(g) + Len(a) = n + 1
    <3>1. Len(a) = Len(b) + 1
      BY <1>3
    <3>2. \A i, j, k \in Nat : i + j = k => i + (j + 1) = k + 1
      OBVIOUS
    <3> QED BY <1>4, <1>5, <3>1, <3>2
  <2>2. /\ g \o a \in Seq(Nat) /\ Len(g \o a) = Len(g) + Len(a)
        /\ \A i \in 1 .. Len(g) + Len(a) :
              (g \o a)[i] = IF i <= Len(g) THEN g[i] ELSE a[i - Len(g)]
    BY <1>3, ConcatProperties
  <2> QED BY <2>1, <2>2
<1>8. ASSUME NEW i \in 1 .. n + 1
      PROVE  (g \o a)[i] = UpTo(n + 1)[i]
  <2>1. UpTo(n + 1)[i] = i
    BY DEF UpTo
  <2>2. CASE i = n + 1
    <3>1. ~(i <= Len(g)) /\ i - Len(g) = Len(b) + 1
      BY <1>4, <1>5, <2>2
    <3> QED BY <1>3, <1>7, <2>1, <2>2, <3>1
  <2>3. CASE i # n + 1
    <3>1. i \in 1 .. n
      BY <2>3
    <3>2. (g \o b)[i] = i
      BY <3>1 DEF UpTo
    <3>3. CASE i <= Len(g)
      BY <1>7, <1>6, <2>1, <3>1, <3>2, <3>3
    <3>4. CASE ~(i <= Len(g))
      <4>1. i - Len(g) \in 1 .. Len(b)
        BY <1>4, <1>5, <3>1, <3>4
      <4> QED BY <1>3, <1>7, <1>6, <2>1, <3>1, <3>2, <3>4, <4>1
    <3> QED BY <3>3, <3>4
  <2> QED BY <2>2, <2>3
<1>9. g \o a = UpTo(n + 1)
  BY <1>2, <1>7, <1>8, SeqEqual
<1> QED BY <1>9 DEF a

(* Init satisfies the invariant of stdin.                                  *)
LEMMA StdinInit == Init => StdinInv
<1> SUFFICES ASSUME Init PROVE StdinInv
  OBVIOUS
<1>1. /\ stdin = [buffer |-> <<>>, closed |-> FALSE, written |-> 0, got |-> <<>>,
                  open |-> TRUE, overlap |-> FALSE]
      /\ drain = [d \in Drains |-> [at |-> "idle", data |-> <<>>]]
  BY DEF Init
<1>2. <<>> \in Seq(Nat)
  OBVIOUS
<1>3. stdin \in Pipes /\ drain \in [Drains -> Threads]
  BY <1>1, <1>2 DEF Pipes, Threads
<1>4. \A d \in Drains : drain[d].at = "idle"
  BY <1>1
<1>5. stdin.got \o stdin.buffer = <<>> /\ stdin.written = 0
  BY <1>1, <1>2, ConcatEmptySeq
<1>6. UpTo(0) = <<>>
  BY DEF UpTo
<1> QED BY <1>3, <1>4, <1>5, <1>6 DEF StdinInv, OneDrain, WritesTheBuffer

(* A step that may at most close the pipe.                                 *)
LEMMA PipeClosed ==
    ASSUME StdinInv, UNCHANGED drain,
           UNCHANGED stdin \/ stdin' = [stdin EXCEPT !.open = FALSE]
    PROVE  StdinInv'
<1>1. CASE UNCHANGED stdin
  BY <1>1 DEF StdinInv, OneDrain, WritesTheBuffer
<1>2. CASE stdin' = [stdin EXCEPT !.open = FALSE]
  <2>1. /\ stdin' \in Pipes /\ stdin'.buffer = stdin.buffer
        /\ stdin'.got = stdin.got /\ stdin'.written = stdin.written
        /\ stdin'.overlap = stdin.overlap
    BY <1>2 DEF StdinInv, Pipes
  <2> QED BY <2>1 DEF StdinInv, OneDrain, WritesTheBuffer
<1> QED BY <1>1, <1>2

(* Every step keeps the invariant of stdin.                                *)
LEMMA StdinStep == StdinInv /\ [Next]_vars => StdinInv'
<1> SUFFICES ASSUME StdinInv, [Next]_vars PROVE StdinInv'
  OBVIOUS
<1> /\ stdin \in Pipes
    /\ drain \in [Drains -> Threads]
  BY DEF StdinInv
<1>1. CASE write
  <2>1. /\ stdin' = [stdin EXCEPT !.buffer = Append(@, stdin.written + 1),
                                  !.written = @ + 1,
                                  !.overlap = @ \/ Flushing]
        /\ UNCHANGED drain
    BY <1>1 DEF write
  <2>2. /\ stdin.written + 1 \in Nat /\ stdin.written \in Nat
        /\ stdin.buffer \in Seq(Nat) /\ stdin.got \in Seq(Nat)
        /\ Append(stdin.buffer, stdin.written + 1) \in Seq(Nat)
        /\ Flushing \in BOOLEAN /\ stdin.overlap \in BOOLEAN
    BY DEF Pipes, Flushing
  <2>3. stdin' \in Pipes
    BY <2>1, <2>2 DEF Pipes
  <2>4. /\ stdin'.buffer = Append(stdin.buffer, stdin.written + 1)
        /\ stdin'.written = stdin.written + 1
        /\ stdin'.got = stdin.got
        /\ stdin'.overlap = (stdin.overlap \/ Flushing)
    BY <2>1 DEF Pipes
  <2>5. CASE stdin'.overlap
    BY <2>1, <2>3, <2>5 DEF StdinInv, OneDrain, WritesTheBuffer
  <2>6. CASE ~stdin'.overlap
    <3>1. ~stdin.overlap /\ \A d \in Drains : drain[d].at = "idle"
      BY <2>2, <2>4, <2>6 DEF Flushing
    <3>2. stdin'.got \o stdin'.buffer = UpTo(stdin'.written)
      BY <2>2, <2>4, <3>1, OneMore, ZenonT(60) DEF StdinInv
    <3> QED BY <2>1, <2>3, <3>1, <3>2 DEF StdinInv, OneDrain, WritesTheBuffer
  <2> QED BY <2>5, <2>6
<1>2. CASE close_write
  <2>1. /\ stdin' = [stdin EXCEPT !.closed = TRUE, !.overlap = @ \/ Flushing]
        /\ UNCHANGED drain
    BY <1>2 DEF close_write
  <2>2. stdin' \in Pipes
    BY <2>1 DEF Pipes, Flushing
  <2>3. /\ stdin'.buffer = stdin.buffer /\ stdin'.written = stdin.written
        /\ stdin'.got = stdin.got
        /\ ~stdin'.overlap => ~stdin.overlap
    BY <2>1 DEF Pipes
  <2> QED BY <2>1, <2>2, <2>3 DEF StdinInv, OneDrain, WritesTheBuffer
<1>3. ASSUME NEW d \in Drains, _patched_drain_helper(d) PROVE StdinInv'
  <2>1. /\ stdin' = [stdin EXCEPT !.overlap = @ \/ Flushing]
        /\ drain' = [drain EXCEPT ![d].at = "started"]
    BY <1>3 DEF _patched_drain_helper
  <2>2. stdin' \in Pipes /\ drain' \in [Drains -> Threads]
    BY <2>1 DEF Pipes, Threads, Flushing
  <2>3. /\ stdin'.buffer = stdin.buffer /\ stdin'.written = stdin.written
        /\ stdin'.got = stdin.got
        /\ ~stdin'.overlap => ~stdin.overlap /\ ~Flushing
    BY <2>1 DEF Pipes
  <2>4. /\ drain'[d].at = "started"
        /\ \A x \in Drains \ {d} : drain'[x] = drain[x]
    BY <2>1 DEF Threads
  <2>5. CASE stdin'.overlap
    BY <2>2, <2>5 DEF StdinInv, OneDrain, WritesTheBuffer
  <2>6. CASE ~stdin'.overlap
    <3>1. \A x \in Drains \ {d} : drain'[x].at = "idle"
      BY <2>3, <2>4, <2>6 DEF Flushing
    <3>2. OneDrain' /\ WritesTheBuffer'
      BY <2>4, <3>1 DEF OneDrain, WritesTheBuffer
    <3> QED BY <2>2, <2>3, <2>6, <3>2 DEF StdinInv
  <2> QED BY <2>5, <2>6
<1>4. ASSUME NEW d \in Drains, FlushStarts(d) PROVE StdinInv'
  <2>1. /\ UNCHANGED stdin /\ drain[d].at = "started"
        /\ \/ drain' = [drain EXCEPT ![d] = [@ EXCEPT !.at = "done"]]
           \/ drain' = [drain EXCEPT ![d] = [at |-> "writing", data |-> stdin.buffer]]
    BY <1>4 DEF FlushStarts
  <2>2. /\ \A x \in Drains \ {d} : drain'[x] = drain[x]
        /\ \/ drain'[d].at = "done"
           \/ drain'[d].at = "writing" /\ drain'[d].data = stdin.buffer
    BY <2>1 DEF Threads
  <2>3. stdin.buffer \in Seq(Nat) /\ drain[d] \in Threads
    BY DEF Pipes
  <2>4. [drain[d] EXCEPT !.at = "done"] \in Threads
        /\ [at |-> "writing", data |-> stdin.buffer] \in Threads
    BY <2>3 DEF Threads
  <2>5. drain' \in [Drains -> Threads]
    BY <2>1, <2>4
  <2> QED BY <2>1, <2>2, <2>5 DEF StdinInv, OneDrain, WritesTheBuffer
<1>5. ASSUME NEW d \in Drains, FlushEnds(d) PROVE StdinInv'
  <2>1. /\ drain[d].at = "writing"
        /\ drain' = [drain EXCEPT ![d] = [at |-> "done", data |-> <<>>]]
        /\ stdin' = [stdin EXCEPT !.got = @ \o drain[d].data, !.buffer = <<>>]
    BY <1>5 DEF FlushEnds
  <2>2. /\ drain[d].data \in Seq(Nat) /\ stdin.got \in Seq(Nat)
        /\ stdin.buffer \in Seq(Nat) /\ <<>> \in Seq(Nat)
    BY DEF Pipes, Threads
  <2>3. stdin.got \o drain[d].data \in Seq(Nat)
    BY <2>2, ConcatProperties
  <2>4. stdin' \in Pipes /\ drain' \in [Drains -> Threads]
    BY <2>1, <2>2, <2>3 DEF Pipes, Threads
  <2>5. /\ stdin'.buffer = <<>> /\ stdin'.written = stdin.written
        /\ stdin'.got = stdin.got \o drain[d].data
        /\ stdin'.overlap = stdin.overlap
    BY <2>1 DEF Pipes
  <2>6. /\ drain'[d].at = "done"
        /\ \A x \in Drains \ {d} : drain'[x] = drain[x]
    BY <2>1
  <2>7. CASE stdin.overlap
    BY <2>4, <2>5, <2>7 DEF StdinInv, OneDrain, WritesTheBuffer
  <2>8. CASE ~stdin.overlap
    <3>1. \A x \in Drains \ {d} : drain[x].at = "idle"
      BY <2>1, <2>8 DEF StdinInv, OneDrain
    <3>2. drain[d].data = stdin.buffer
      BY <2>1, <2>8 DEF StdinInv, WritesTheBuffer
    <3>3. stdin'.got \o stdin'.buffer = stdin.got \o stdin.buffer
      BY <2>3, <2>5, <3>2, ConcatEmptySeq
    <3>4. OneDrain' /\ WritesTheBuffer'
      BY <2>6, <3>1 DEF OneDrain, WritesTheBuffer
    <3> QED BY <2>4, <2>5, <2>8, <3>3, <3>4 DEF StdinInv
  <2> QED BY <2>7, <2>8
<1>6. ASSUME NEW d \in Drains, FlushFails(d) \/ DrainEnds(d) PROVE StdinInv'
  <2>1. /\ UNCHANGED stdin /\ drain[d].at # "idle"
        /\ \/ drain' = [drain EXCEPT ![d] = [at |-> "done", data |-> <<>>]]
           \/ drain' = [drain EXCEPT ![d].at = "idle"]
    BY <1>6 DEF FlushFails, DrainEnds
  <2>2. /\ \A x \in Drains \ {d} : drain'[x] = drain[x]
        /\ drain'[d].at \in {"done", "idle"}
    BY <2>1 DEF Threads
  <2>3. drain' \in [Drains -> Threads]
    <3>1. drain[d] \in Threads /\ <<>> \in Seq(Nat)
      OBVIOUS
    <3>2. /\ [at |-> "done", data |-> <<>>] \in Threads
          /\ [drain[d] EXCEPT !.at = "idle"] \in Threads
      BY <3>1 DEF Threads
    <3> QED BY <2>1, <3>2
  <2>4. \A x \in Drains : drain'[x].at # "idle" => drain[x].at # "idle"
    BY <2>1, <2>2
  <2>5. OneDrain'
    BY <2>1, <2>4 DEF StdinInv, OneDrain
  <2>6. \A x \in Drains : drain'[x].at = "writing" => drain'[x] = drain[x]
    BY <2>2
  <2>7. WritesTheBuffer'
    BY <2>1, <2>6 DEF StdinInv, WritesTheBuffer
  <2> QED BY <2>1, <2>3, <2>5, <2>7 DEF StdinInv
<1>7. CASE UNCHANGED drain
           /\ (UNCHANGED stdin \/ stdin' = [stdin EXCEPT !.open = FALSE])
  BY <1>7, PipeClosed
<1> QED
  BY <1>1, <1>2, <1>3, <1>4, <1>5, <1>6, <1>7
  DEF Next, vars, Connect, ExecFails, get_pipe_transport, PollCompletes,
      RunReader, Use, _wait, WaitCancelled, PidfdReady, pidfd_exit_callback,
      ChildWrites, ChildCloses, ChildExits, Reaped

(* The inductive invariant of stdin implies the property.                  *)
LEMMA StdinImplies == StdinInv => StdinInOrder
BY DEF StdinInv, StdinInOrder, UpTo

-----------------------------------------------------------------------------
(* _on_readable never reads an empty pipe, although the two transports     *)
(* share one descriptor and one reader: the loop is not stopped.           *)
THEOREM NeverBlocks == Spec => []NoBlockingRead
BY StdoutInit, StdoutStep, StdoutImplies, PTL DEF Spec

(* Nothing that the child wrote is lost or overtaken by the end.           *)
THEOREM OutputThenEof == Spec => []OutputBeforeEof
BY StdoutInit, StdoutStep, StdoutImplies, PTL DEF Spec

(* Whatever is paused, resumed, closed or replaced, stdout is watched      *)
(* while somebody wants it.                                                *)
THEOREM AlwaysWatched == Spec => []StdoutIsWatched
BY StdoutInit, StdoutStep, StdoutImplies, PTL DEF Spec

(* Every call of _wait gets the one code, and none is left behind when the *)
(* exit is reported.                                                       *)
THEOREM WaitersAreTold == Spec => []WaitersGetTheCode
BY StdoutInit, StdoutStep, ExitInit, ExitStep, ExitImplies, PTL DEF Spec

(* What is written to stdin arrives in order and once, unless calls        *)
(* overlap with a drain.                                                   *)
THEOREM StdinArrivesInOrder == Spec => []StdinInOrder
BY StdinInit, StdinStep, StdinImplies, PTL DEF Spec
=============================================================================
