----------------------------- MODULE Subprocess -----------------------------
(***************************************************************************)
(* A child process: subprocess_exec of src/talyn/loop.py with the pipe     *)
(* transports that it builds in Python, the native SubprocessTransport     *)
(* that watches the pidfd (src/src/transports/subprocess/transport.zig),   *)
(* and the readers that the pipe transports register                       *)
(* (src/src/loop/python/io/watchers.zig).                                  *)
(*                                                                         *)
(* The loop thread shares the descriptors with the child, and the buffer   *)
(* of stdin with the worker threads that drain starts.  Two read           *)
(* transports may exist for stdout: 1 is made by get_pipe_transport, 2 by  *)
(* connection_made when the protocol has no stdin stream.  They share the  *)
(* descriptor, and with it the one reader that the loop keeps for it.      *)
(* stderr is treated as stdout is.                                         *)
(*                                                                         *)
(* e is what belongs to the process; methods are operators from such       *)
(* records to such records, and c is what the application does when a      *)
(* method calls it.                                                        *)
(***************************************************************************)
EXTENDS Integers, Sequences, SequencesExt

CONSTANTS
    Protocols,  \* what protocol_factory makes
    Waiters,    \* calls of _wait
    Drains,     \* calls of drain that can be under way at once
    MaxOut,     \* bound: chunks that the child writes to stdout
    MaxIn       \* bound: bytes that the application writes to stdin

ASSUME SubprocessAssumption ==
    /\ Protocols \subseteq {"stream", "stream_no_stdin", "plain"}
    /\ MaxOut \in Nat /\ MaxIn \in Nat

VARIABLES
    e,      \* the process as the loop thread sees it
    out,    \* stdout: chunks written and not read, all chunks, the end
    child,  \* "running", "exited", or "reaped" by somebody else
    waits,  \* what each call of _wait has come to
    stdin,  \* the _WritePipeTransport, and what the child got
    drain   \* the worker threads

vars == <<e, out, child, waits, stdin, drain>>

NoTransport == [made |-> FALSE, closed |-> FALSE, eof |-> FALSE]

Init ==
    /\ \E p \in Protocols :
        e = [proto |-> p, phase |-> "popen", returncode |-> "none",
             closed |-> FALSE, pidfd |-> "off", lost |-> 0,
             read |-> [t \in 1 .. 2 |-> NoTransport],
             reader |-> 0, polling |-> FALSE, ready |-> <<>>,
             given |-> 0, eofs |-> 0, paused |-> FALSE, blocked |-> FALSE,
             exit_waiters |-> <<>>]
    /\ out = [left |-> 0, all |-> 0, ended |-> FALSE]
    /\ child = "running"
    /\ waits = [w \in Waiters |-> "idle"]
    /\ stdin = [buffer |-> <<>>, closed |-> FALSE, written |-> 0, got |-> <<>>,
                open |-> TRUE, overlap |-> FALSE]
    /\ drain = [d \in Drains |-> [at |-> "idle", data |-> <<>>]]

-----------------------------------------------------------------------------
(* The loop's reader for the descriptor.  Adding one replaces the one      *)
(* there is.  A callback of a replaced or removed reader that is in the    *)
(* ready queue finds the descriptor -1 in it and does nothing: it leaves   *)
(* ready here.                                                             *)

(* Mutated form: a callback that is in the ready queue still runs. *)
add_reader_kept(x, t) == [x EXCEPT !.reader = t, !.polling = TRUE]

add_reader(x, t) ==
    [x EXCEPT !.reader = t, !.polling = TRUE, !.ready = <<>>]

remove_reader(x) ==
    [x EXCEPT !.reader = 0, !.polling = FALSE, !.ready = <<>>]

-----------------------------------------------------------------------------
(* _ReadPipeTransport                                                      *)

NewReadPipe(x, t) ==
    add_reader([x EXCEPT !.read[t] = [NoTransport EXCEPT !.made = TRUE]], t)

pause_reading(x) == remove_reader([x EXCEPT !.paused = TRUE])

(* Mutated form: a transport is not resumed. *)
resume_reading_not(x, t) == [x EXCEPT !.paused = FALSE]

resume_reading(x, t) ==
    LET y == [x EXCEPT !.paused = FALSE] IN
    IF x.read[t].closed \/ x.read[t].eof THEN y ELSE add_reader(y, t)

close_read(x, t) ==
    IF x.read[t].closed \/ ~x.read[t].made THEN x
    ELSE remove_reader([x EXCEPT !.read[t].closed = TRUE])

(* _TransportWrapper.close: the pipes of connection_made are closed, and   *)
(* the exit is not waited for any longer.                                  *)
close(x) ==
    [close_read(x, 2) EXCEPT !.closed = TRUE,
                             !.pidfd = IF @ = "watched" THEN "off" ELSE @]

(* What the application does in a callback.  The transport that it can     *)
(* pause is the one that get_pipe_transport returned.                      *)
Calls == {"return", "pause", "close"}

App(x, c) ==
    CASE c = "return" -> x
      [] c = "pause" -> IF x.read[1].made THEN pause_reading(x) ELSE x
      [] c = "close" -> close(x)

(* Mutated form: what was read is forgotten when the protocol closes. *)
_on_readable_dropping(x, t, c) ==
    IF x.read[t].eof \/ x.read[t].closed THEN remove_reader(x)
    ELSE IF out.left > 0
    THEN add_reader(App([x EXCEPT !.given = IF c = "close" THEN @
                                            ELSE @ + out.left], c), t)
    ELSE IF out.ended
    THEN App(remove_reader([x EXCEPT !.read[t].eof = TRUE, !.eofs = @ + 1]), c)
    ELSE [x EXCEPT !.blocked = TRUE]

(* Everything in the pipe is read at once.  The descriptor blocks: a read  *)
(* of an empty pipe stops the loop.                                        *)
_on_readable(x, t, c) ==
    IF x.read[t].eof \/ x.read[t].closed THEN remove_reader(x)
    ELSE IF out.left > 0
    THEN add_reader(App([x EXCEPT !.given = @ + out.left], c), t)
    ELSE IF out.ended
    THEN App(remove_reader([x EXCEPT !.read[t].eof = TRUE, !.eofs = @ + 1]), c)
    ELSE [x EXCEPT !.blocked = TRUE]

-----------------------------------------------------------------------------
(* subprocess_exec                                                         *)

(* _ProtocolWrapper.connection_made: a stream protocol asks for its pipes  *)
(* in its own connection_made; without a stdin stream the pipes are made   *)
(* (again) here.                                                           *)
connection_made(x) ==
    LET asked == IF x.proto = "plain" THEN x ELSE NewReadPipe(x, 1)
    IN  IF x.proto = "stream" THEN asked ELSE NewReadPipe(asked, 2)

Connect ==
    /\ e.phase = "popen"
    /\ e' = [connection_made(e) EXCEPT !.phase = "connected",
                                       !.pidfd = "watched"]
    /\ UNCHANGED <<out, child, waits, stdin, drain>>

(* connection_made, or the watcher of the exit, fails: a child that still  *)
(* runs is killed and waited for.                                          *)
ExecFails ==
    /\ e.phase = "popen"
    /\ e' = [e EXCEPT !.phase = "failed"]
    /\ child' = "reaped"
    /\ out' = [out EXCEPT !.ended = TRUE]
    /\ stdin' = [stdin EXCEPT !.open = FALSE]
    /\ UNCHANGED <<waits, drain>>

Connected == e.phase = "connected" /\ ~e.blocked

get_pipe_transport ==
    /\ Connected
    /\ ~e.read[1].made
    /\ e' = NewReadPipe(e, 1)
    /\ UNCHANGED <<out, child, waits, stdin, drain>>

(* The poll completes, and its callback goes to the ready queue.           *)
PollCompletes ==
    /\ e.polling
    /\ out.left > 0 \/ out.ended
    /\ e' = [e EXCEPT !.polling = FALSE,
                      !.ready = Append(@, e.reader)]
    /\ UNCHANGED <<out, child, waits, stdin, drain>>

RunReader(c) ==
    /\ Connected
    /\ e.ready # <<>>
    /\ LET t == Head(e.ready)
           reads == ~e.read[t].eof /\ ~e.read[t].closed
       IN  /\ e' = _on_readable([e EXCEPT !.ready = Tail(@)], t, c)
           /\ out' = IF reads THEN [out EXCEPT !.left = 0] ELSE out
    /\ UNCHANGED <<child, waits, stdin, drain>>

(* The application, from a callback of its own.                            *)
Use ==
    /\ Connected
    /\ \/ e.read[1].made /\ ~e.paused /\ e' = pause_reading(e)
       \/ e.read[1].made /\ e.paused /\ e' = resume_reading(e, 1)
       \/ ~e.closed /\ e' = close(e)
       \/ e.read[1].made /\ ~e.read[1].closed /\ e' = close_read(e, 1)
    /\ UNCHANGED <<out, child, waits, stdin, drain>>

-----------------------------------------------------------------------------
(* The exit.                                                               *)

_wait(w) ==
    /\ Connected
    /\ waits[w] = "idle"
    /\ IF e.returncode # "none"
       THEN waits' = [waits EXCEPT ![w] = e.returncode] /\ UNCHANGED e
       ELSE /\ waits' = [waits EXCEPT ![w] = "pending"]
            /\ e' = [e EXCEPT !.exit_waiters = Append(@, w)]
    /\ UNCHANGED <<out, child, stdin, drain>>

WaitCancelled(w) ==
    /\ waits[w] = "pending"
    /\ waits' = [waits EXCEPT ![w] = "cancelled"]
    /\ UNCHANGED <<e, out, child, stdin, drain>>

PidfdReady ==
    /\ e.pidfd = "watched"
    /\ child # "running"
    /\ e' = [e EXCEPT !.pidfd = "ready"]
    /\ UNCHANGED <<out, child, waits, stdin, drain>>

(* Mutated form: a waiter that was cancelled ends the loop with an error. *)
connection_lost_strict(rc) ==
    [w \in Waiters |->
        LET before == {e.exit_waiters[i] : i \in
                           {j \in DOMAIN e.exit_waiters :
                               \E k \in j .. Len(e.exit_waiters) :
                                   e.exit_waiters[k] = w}}
        IN  IF waits[w] = "pending" /\ \A v \in before : waits[v] = "pending"
            THEN rc ELSE waits[w]]

(* _ProtocolWrapper.connection_lost: the waiters that are not done get the *)
(* code.                                                                   *)
connection_lost(rc) ==
    [w \in Waiters |->
        IF w \in Range(e.exit_waiters) /\ waits[w] = "pending" THEN rc
        ELSE waits[w]]

(* pidfd_exit_callback: returncode is set before process_exited and        *)
(* connection_lost are called.  A child that somebody else waited for has  *)
(* the code -1.                                                            *)
pidfd_exit_callback(c) ==
    /\ Connected
    /\ e.pidfd = "ready"
    /\ LET rc == IF child = "reaped" THEN "minus_one" ELSE "status"
           x == [e EXCEPT !.pidfd = "off", !.returncode = rc, !.lost = @ + 1]
       IN  IF e.closed
           THEN e' = [e EXCEPT !.pidfd = "off"] /\ UNCHANGED waits
           ELSE e' = App(x, c) /\ waits' = connection_lost(rc)
    /\ UNCHANGED <<out, child, stdin, drain>>

-----------------------------------------------------------------------------
(* _WritePipeTransport, and the drain that connection_made puts into a     *)
(* stream protocol.                                                        *)

HasStdin == Connected /\ e.proto = "stream"
Flushing == \E d \in Drains : drain[d].at # "idle"

write ==
    /\ HasStdin
    /\ ~stdin.closed
    /\ stdin.written < MaxIn
    /\ stdin' = [stdin EXCEPT !.buffer = Append(@, stdin.written + 1),
                              !.written = @ + 1,
                              !.overlap = @ \/ Flushing]
    /\ UNCHANGED <<e, out, child, waits, drain>>

(* What is in the buffer is not written.  The file is locked while a       *)
(* thread writes to it: the loop waits for that thread.                    *)
close_write ==
    /\ HasStdin
    /\ ~stdin.closed
    /\ \A d \in Drains : drain[d].at # "writing"
    /\ stdin' = [stdin EXCEPT !.closed = TRUE, !.overlap = @ \/ Flushing]
    /\ UNCHANGED <<e, out, child, waits, drain>>

_patched_drain_helper(d) ==
    /\ HasStdin
    /\ drain[d].at = "idle"
    /\ ~stdin.closed
    /\ stdin.buffer # <<>>
    /\ drain' = [drain EXCEPT ![d].at = "started"]
    /\ stdin' = [stdin EXCEPT !.overlap = @ \/ Flushing]
    /\ UNCHANGED <<e, out, child, waits>>

(* flush, in the worker thread: the buffer is copied, the copy is written  *)
(* (the child may take its time), and then the buffer is cleared.          *)
FlushStarts(d) ==
    /\ drain[d].at = "started"
    /\ drain' = [drain EXCEPT ![d] =
                    IF stdin.closed \/ stdin.buffer = <<>>
                    THEN [@ EXCEPT !.at = "done"]
                    ELSE [at |-> "writing", data |-> stdin.buffer]]
    /\ UNCHANGED <<e, out, child, waits, stdin>>

(* Mutated form: what was written stays in the buffer. *)
FlushEnds_keeping(d) ==
    /\ drain[d].at = "writing"
    /\ stdin.open
    /\ drain' = [drain EXCEPT ![d] = [at |-> "done", data |-> <<>>]]
    /\ stdin' = [stdin EXCEPT !.got = @ \o drain[d].data]
    /\ UNCHANGED <<e, out, child, waits>>

FlushEnds(d) ==
    /\ drain[d].at = "writing"
    /\ stdin.open
    /\ drain' = [drain EXCEPT ![d] = [at |-> "done", data |-> <<>>]]
    /\ stdin' = [stdin EXCEPT !.got = @ \o drain[d].data, !.buffer = <<>>]
    /\ UNCHANGED <<e, out, child, waits>>

(* BrokenPipeError: the buffer is not cleared.                             *)
FlushFails(d) ==
    /\ drain[d].at = "writing"
    /\ ~stdin.open
    /\ drain' = [drain EXCEPT ![d] = [at |-> "done", data |-> <<>>]]
    /\ UNCHANGED <<e, out, child, waits, stdin>>

(* The callback that ends the drain.                                       *)
DrainEnds(d) ==
    /\ ~e.blocked
    /\ drain[d].at = "done"
    /\ drain' = [drain EXCEPT ![d].at = "idle"]
    /\ UNCHANGED <<e, out, child, waits, stdin>>

-----------------------------------------------------------------------------
(* The child.  Its stdout can stay open in a child of its own.             *)

ChildWrites ==
    /\ ~out.ended
    /\ out.all < MaxOut
    /\ out' = [out EXCEPT !.left = @ + 1, !.all = @ + 1]
    /\ UNCHANGED <<e, child, waits, stdin, drain>>

ChildCloses ==
    /\ \/ /\ ~out.ended
          /\ out' = [out EXCEPT !.ended = TRUE]
          /\ UNCHANGED stdin
       \/ /\ stdin.open
          /\ stdin' = [stdin EXCEPT !.open = FALSE]
          /\ UNCHANGED out
    /\ UNCHANGED <<e, child, waits, drain>>

ChildExits ==
    /\ child = "running"
    /\ child' = "exited"
    /\ stdin' = [stdin EXCEPT !.open = FALSE]
    /\ UNCHANGED <<e, out, waits, drain>>

(* Popen.poll, or another waitpid in the program.                          *)
Reaped ==
    /\ child = "exited"
    /\ child' = "reaped"
    /\ UNCHANGED <<e, out, waits, stdin, drain>>

Next ==
    \/ Connect
    \/ ExecFails
    \/ get_pipe_transport
    \/ PollCompletes
    \/ \E c \in Calls : RunReader(c)
    \/ Use
    \/ \E w \in Waiters : _wait(w)
    \/ \E w \in Waiters : WaitCancelled(w)
    \/ PidfdReady
    \/ \E c \in Calls : pidfd_exit_callback(c)
    \/ write
    \/ close_write
    \/ \E d \in Drains : _patched_drain_helper(d)
    \/ \E d \in Drains : FlushStarts(d)
    \/ \E d \in Drains : FlushEnds(d)
    \/ \E d \in Drains : FlushFails(d)
    \/ \E d \in Drains : DrainEnds(d)
    \/ ChildWrites
    \/ ChildCloses
    \/ ChildExits
    \/ Reaped

Spec == Init /\ [][Next]_vars

-----------------------------------------------------------------------------
(* _on_readable: os.read of a pipe with nothing in it would stop the whole *)
(* loop.  A reader runs only if what woke it is still there, although two  *)
(* transports share the descriptor and each reads all of it.               *)
NoBlockingRead == ~e.blocked

(* _on_readable: what the child wrote is given to the protocol or still in *)
(* the pipe, and the end is reported after the last of it.                 *)
OutputBeforeEof ==
    /\ e.given + out.left = out.all
    /\ e.eofs > 0 => out.left = 0 /\ out.ended

(* pause_reading, resume_reading and the re-arming in _on_readable: the    *)
(* loop keeps a reader for stdout until its end, a close or a pause, or    *)
(* the callback that will register one again is in the ready queue.        *)
StdoutIsWatched ==
    (/\ \E t \in 1 .. 2 : e.read[t].made
     /\ \A t \in 1 .. 2 : ~e.read[t].eof /\ ~e.read[t].closed
     /\ ~e.paused
     /\ ~e.blocked)
        => /\ e.reader # 0
           /\ e.polling \/ e.ready # <<>>

(* _wait, connection_lost and pidfd_exit_callback: the exit is reported    *)
(* once; from then on nobody waits, whoever was cancelled or came late,    *)
(* and every answer is the same code, the one of the child unless somebody *)
(* else waited for it.                                                     *)
WaitersGetTheCode ==
    /\ e.lost <= 1
    /\ e.lost = 1 => \A w \in Waiters : waits[w] # "pending"
    /\ \A w \in Waiters :
        waits[w] \in {"status", "minus_one"} => waits[w] = e.returncode
    /\ e.returncode = "minus_one" => child = "reaped"

(* flush and drain: bytes reach the child in order and once, and the       *)
(* others are in the buffer, provided that nothing is written, drained or  *)
(* closed while a drain is under way.                                      *)
StdinInOrder ==
    ~stdin.overlap /\ ~stdin.closed =>
        stdin.got \o stdin.buffer = [i \in 1 .. stdin.written |-> i]
=============================================================================
