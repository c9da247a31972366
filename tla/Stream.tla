------------------------------- MODULE Stream -------------------------------
(***************************************************************************)
(* One stream transport: src/src/transports/stream/, read_transport.zig    *)
(* and write_transport.zig.  The loop thread runs everything; what makes   *)
(* it hard is that the kernel completes reads and writes at any time, that *)
(* a completion waits in the CQ, then in the batch, then in the ready      *)
(* queue while other callbacks run, and that protocol code is called from  *)
(* the middle of a handler and may call any method of the transport.       *)
(*                                                                         *)
(* t is the transport object with its two halves, and what it has in the   *)
(* ring.  A handler, or a function that handlers call, is an operator from *)
(* such records to such records.  A handler that calls protocol code is    *)
(* split there: phase says which call is under way, and the methods of the *)
(* transport are actions that are possible in these phases.                *)
(*                                                                         *)
(* Protocols are asyncio.Protocol (ProtocolType.Legacy).                   *)
(***************************************************************************)
EXTENDS Integers, Sequences

CONSTANTS
    MaxChunks,   \* bound: reads that deliver data
    MaxBytes,    \* bound: bytes that the protocol writes
    Payloads,    \* what write and writelines are given: lengths of buffers
    Limits,      \* pairs <<high, low>> for set_write_buffer_limits
    OthersFirst  \* another stream's record is dispatched before this one's

ASSUME StreamAssumption ==
    /\ MaxChunks \in Nat
    /\ MaxBytes \in Nat
    /\ Payloads \subseteq Seq(Nat)
    /\ Limits \subseteq {l \in Nat \X Nat : l[1] >= l[2]}
    /\ Limits # {}
    /\ OthersFirst \in BOOLEAN

VARIABLES
    t,        \* StreamTransportObject, and its operations in the ring
    ready,    \* completion callbacks in the ready queue
    phase,    \* what the loop thread is doing: "run", "poll", "batch" or a call
    buffer,   \* the chunk in ReadTransport.buffer
    given,    \* the chunks that data_received was given
    taken,    \* chunks that the kernel has read
    written,  \* bytes that write accepted
    sent      \* bytes that the kernel accepted

vars == <<t, ready, phase, buffer, given, taken, written, sent>>

(* Where Python code runs that can call the transport: in callbacks of the *)
(* ready queue, in data_received (from the batch, or from the read         *)
(* callback), in eof_received, and in resume_writing in the middle or at   *)
(* the end of a drain.                                                     *)
Calls == {"data", "data_callback", "eof", "resume_drain", "resume_end"}

NoOp == [at |-> "none", cancel |-> FALSE, res |-> "none", from |-> 0, len |-> 0]
NoCallback == [res |-> "none", batch |-> FALSE, len |-> 0]
NothingReady == [read |-> NoCallback, write |-> NoCallback, lost |-> 0]

Half == [id |-> FALSE, cancelling |-> FALSE, is_closing |-> FALSE,
         closed |-> FALSE, lost_callback |-> TRUE]

Init ==
    /\ \E l \in Limits :
        t = [is_reading |-> TRUE, is_writing |-> TRUE, is_closing |-> FALSE,
             closed |-> FALSE, fd |-> TRUE, attached |-> TRUE,
             record |-> "none", pending_lost_exc |-> "null",
             connection_lost_notified |-> FALSE, high |-> l[1], low |-> l[2],
             read |-> [Half EXCEPT !.id = TRUE],
             write |-> Half,
             in_flight |-> FALSE, eof_pending |-> FALSE, bufs |-> <<>>,
             index |-> 0, offset |-> 0, buffer_size |-> 0, total |-> 0,
             exported |-> 0,
             rop |-> [NoOp EXCEPT !.at = "staged"], wop |-> NoOp, fin |-> "no",
             soon |-> 0, called |-> 0, exc |-> "null",
             broken |-> FALSE, failed |-> FALSE,
             saw_eof |-> FALSE]
    /\ ready = NothingReady
    /\ phase = "run"
    /\ buffer = 0
    /\ given = <<>>
    /\ taken = 0
    /\ written = 0
    /\ sent = 0

-----------------------------------------------------------------------------
(* The ring.                                                               *)

(* flush_pending_sqes.  A FIN staged on a descriptor that was closed in    *)
(* the meantime comes too late.                                            *)
Flush(s) ==
    LET start(op) == IF op.at = "staged" THEN [op EXCEPT !.at = "flight"] ELSE op
    IN  [s EXCEPT !.rop = start(@),
                  !.wop = start(@),
                  !.fin = IF @ # "staged" THEN @
                          ELSE IF s.fd THEN "sent" ELSE "late"]

Cancelled(op) == IF op.at = "flight" THEN [op EXCEPT !.cancel = TRUE] ELSE op

(* CancelIO of a half's operation, which queue() submits at once.          *)
CancelRead(s) ==
    [Flush(s) EXCEPT !.rop = Cancelled(@),
                     !.read.cancelling = TRUE]

CancelWrite(s) ==
    [Flush(s) EXCEPT !.wop = Cancelled(@),
                     !.write.cancelling = TRUE]

CancelByFd(s) ==
    [Flush(s) EXCEPT !.rop = Cancelled(@), !.wop = Cancelled(@)]

-----------------------------------------------------------------------------
(* stream/lifecycle.zig                                                    *)

schedule_connection_lost_once(s) ==
    IF s.connection_lost_notified
    THEN [s EXCEPT !.attached = FALSE]
    ELSE [s EXCEPT !.attached = FALSE,
                   !.connection_lost_notified = TRUE,
                   !.exc = IF s.pending_lost_exc = "null" THEN "None"
                           ELSE s.pending_lost_exc,
                   !.pending_lost_exc = "null",
                   !.soon = @ + 1]

cancel_and_close_fd(s) ==
    IF ~s.fd THEN s
    ELSE [(IF s.read.id \/ s.write.id THEN CancelByFd(s) ELSE s)
             EXCEPT !.fd = FALSE]

(* dispatch_generation is only ever compared with the one in a record of   *)
(* the batch, so raising it makes the record stale.                        *)
BumpGeneration(s) ==
    [s EXCEPT !.record = IF @ = "none" THEN "none" ELSE "stale"]

maybe_close_fd(s) ==
    IF s.read.closed /\ s.write.closed
    THEN schedule_connection_lost_once(
            cancel_and_close_fd([BumpGeneration(s) EXCEPT !.closed = TRUE]))
    ELSE s

(* Mutated form: the read in flight is not cancelled. *)
read_close_waits(s) ==
    IF s.read.is_closing \/ s.read.closed THEN s
    ELSE IF ~s.read.id
    THEN maybe_close_fd([s EXCEPT !.read.closed = TRUE, !.read.is_closing = TRUE])
    ELSE [s EXCEPT !.read.is_closing = TRUE, !.read.lost_callback = FALSE]

(* ReadTransport.close *)
read_close(s) ==
    IF s.read.is_closing \/ s.read.closed THEN s
    ELSE IF ~s.read.id
    THEN maybe_close_fd([s EXCEPT !.read.closed = TRUE, !.read.is_closing = TRUE])
    ELSE [(IF s.read.cancelling THEN s ELSE CancelRead(s))
             EXCEPT !.read.is_closing = TRUE, !.read.lost_callback = FALSE]

(* Mutated form: buffered data that is not in flight does not count. *)
write_close_drops(s) ==
    LET c == [s EXCEPT !.write.is_closing = TRUE, !.write.lost_callback = FALSE]
    IN  IF s.write.is_closing \/ s.write.closed THEN s
        ELSE IF ~s.in_flight THEN maybe_close_fd([c EXCEPT !.write.closed = TRUE])
        ELSE c

(* WriteTransport.close *)
write_close(s) ==
    LET c == [s EXCEPT !.write.is_closing = TRUE, !.write.lost_callback = FALSE]
    IN  IF s.write.is_closing \/ s.write.closed THEN s
        ELSE IF ~s.in_flight /\ s.buffer_size = 0
        THEN maybe_close_fd([c EXCEPT !.write.closed = TRUE])
        ELSE c

close_transports(s, exception) ==
    LET s1 == IF ~s.closed /\ s.pending_lost_exc = "null"
              THEN [s EXCEPT !.pending_lost_exc = exception] ELSE s
        s2 == [write_close(read_close(s1)) EXCEPT !.is_reading = FALSE,
                                                  !.is_closing = TRUE]
    IN  IF s.closed THEN s2
        ELSE maybe_close_fd([s2 EXCEPT !.attached = FALSE])

(* ReadTransport.force_close *)
read_force_close(s) ==
    LET c == [s EXCEPT !.read.closed = TRUE, !.read.is_closing = TRUE,
                       !.read.lost_callback = FALSE]
    IN  IF s.read.closed THEN s
        ELSE IF s.read.id /\ ~s.read.cancelling THEN CancelRead(c) ELSE c

(* WriteTransport.force_close *)
write_force_close(s) ==
    LET c == [s EXCEPT !.write.closed = TRUE, !.write.is_closing = TRUE,
                       !.write.lost_callback = FALSE]
    IN  IF s.write.closed THEN s
        ELSE maybe_close_fd(
                IF s.write.id /\ ~s.write.cancelling
                THEN [CancelWrite(c) EXCEPT !.write.id = FALSE] ELSE c)

transport_close(s) ==
    LET c == [s EXCEPT !.is_closing = TRUE]
    IN  IF s.is_closing \/ s.closed THEN s
        ELSE IF s.read.closed /\ s.write.closed
        THEN schedule_connection_lost_once(
                cancel_and_close_fd([c EXCEPT !.closed = TRUE]))
        ELSE close_transports(c, "None")

transport_force_close(s, exc) ==
    LET s1 == [BumpGeneration(s) EXCEPT !.attached = FALSE,
                                        !.closed = TRUE,
                                        !.pending_lost_exc = exc,
                                        !.broken = TRUE,
                                        !.failed = FALSE]
        s2 == [write_force_close(read_force_close(s1))
                  EXCEPT !.is_reading = FALSE, !.is_writing = FALSE]
    IN  IF s.closed THEN s ELSE cancel_and_close_fd(s2)

-----------------------------------------------------------------------------
(* stream/read.zig and read_transport.zig                                  *)

(* ReadTransport.perform *)
perform(s) ==
    [s EXCEPT !.read.id = TRUE, !.rop = [NoOp EXCEPT !.at = "staged"]]

queue_read_operation(s) ==
    IF ~s.is_reading \/ s.read.is_closing \/ s.read.id THEN s ELSE perform(s)

transport_pause_reading(s) ==
    IF s.closed \/ ~s.is_reading THEN s
    ELSE [(IF s.read.id /\ ~s.read.cancelling THEN CancelRead(s) ELSE s)
             EXCEPT !.is_reading = FALSE]

(* Mutated form: leaves re-arming to the callback. *)
transport_resume_reading_idle(s) ==
    IF s.closed THEN s ELSE [s EXCEPT !.is_reading = TRUE]

transport_resume_reading(s) ==
    IF s.closed THEN s ELSE queue_read_operation([s EXCEPT !.is_reading = TRUE])

(* The first statements of ReadTransport.read_operation_completed: for a   *)
(* read that went through the batch, the harvest has cleared the id.       *)
ReadStarts(s, batch) ==
    IF batch THEN s
    ELSE [s EXCEPT !.read.id = FALSE, !.read.cancelling = FALSE]

StreamClosing(s) ==
    s.read.is_closing \/ s.read.closed \/ s.is_closing \/ s.closed

(* Mutated form: not while paused. *)
GivesDataWhileReading(cb) == cb.res = "data" /\ ~cb.batch /\ t.is_reading

(* The callback gives the data to the protocol unless the batch did.       *)
GivesData(cb) == cb.res = "data" /\ ~cb.batch

(* What ReadTransport.read_operation_completed does after the stream's     *)
(* callback returned.                                                      *)
ReadReturns(s, res) ==
    IF res # "error" \/ s.read.is_closing
    THEN IF s.read.is_closing
         THEN maybe_close_fd([s EXCEPT !.read.closed = TRUE]) ELSE s
    ELSE LET c == [s EXCEPT !.read.is_closing = TRUE, !.read.closed = TRUE,
                            !.broken = TRUE, !.failed = @ \/ ~s.is_closing]
         IN  IF s.read.lost_callback THEN close_transports(c, "error") ELSE c

(* The same when it raised: the transport is closed, and the executor of   *)
(* the ready queue calls cleanup_resources_callback.                       *)
ReadRaises(s) ==
    LET m == maybe_close_fd(s)
        e == [m EXCEPT !.broken = TRUE,
                       !.failed = @ \/ (m.read.lost_callback /\ ~m.is_closing)]
        c == IF m.read.lost_callback THEN close_transports(e, "error") ELSE e
    IN  maybe_close_fd([c EXCEPT !.read.is_closing = TRUE, !.read.closed = TRUE,
                                 !.read.id = FALSE, !.read.cancelling = FALSE])

-----------------------------------------------------------------------------
(* write_transport.zig and stream/write.zig                                *)

(* The transport and the number of the next byte, one buffer later.  An    *)
(* empty buffer is dropped.                                                *)
append_new_buffer_to_write(a, n) ==
    IF n = 0 THEN a
    ELSE [to |-> [a.to EXCEPT !.bufs = Append(@, [from |-> a.end, len |-> n]),
                              !.buffer_size = @ + n,
                              !.exported = @ + 1],
          end |-> a.end + n]

AppendBuffers(s, lens) ==
    LET after[i \in 0 .. Len(lens)] ==
            IF i = 0 THEN [to |-> s, end |-> written]
            ELSE append_new_buffer_to_write(after[i - 1], lens[i])
    IN  after[Len(lens)]

(* Protocol code that pause_writing runs is not told apart from the code   *)
(* that called write.                                                      *)
MaybePause(s) ==
    [s EXCEPT !.is_writing = @ /\ s.buffer_size <= s.high]

(* submit_next_chunk, up to the flush that may fail.  No buffer is empty.  *)
submit_next_chunk(s) ==
    LET b == s.bufs[s.index + 1]
    IN  [s EXCEPT !.write.id = TRUE, !.in_flight = TRUE,
                  !.wop = [NoOp EXCEPT !.at = "staged",
                                       !.from = b.from + s.offset,
                                       !.len = b.len - s.offset]]

NeedsSubmission(s) == ~s.write.closed /\ ~s.in_flight /\ s.buffer_size > 0

(* The first statements of write_operation_completed, and the accounting   *)
(* of n bytes that were written.                                           *)
WriteStarts(s, n) ==
    LET s1 == [s EXCEPT !.write.id = FALSE, !.write.cancelling = FALSE,
                        !.in_flight = FALSE]
        rest == s.bufs[s.index + 1].len - s.offset
        s2 == [s1 EXCEPT !.buffer_size = @ - (IF n < @ THEN n ELSE @),
                         !.total = @ + n]
    IN  IF n = 0 THEN s1
        ELSE IF n < rest THEN [s2 EXCEPT !.offset = @ + n]
        ELSE [s2 EXCEPT !.index = @ + 1, !.offset = 0, !.exported = @ - 1]

(* A write failed. *)
WriteFails(s) ==
    LET e == [s EXCEPT !.broken = TRUE,
                       !.failed = @ \/ (~s.write.is_closing /\ ~s.is_closing)]
        c == IF ~s.write.is_closing /\ s.write.lost_callback
             THEN close_transports(e, "error") ELSE e
    IN  maybe_close_fd([c EXCEPT !.write.is_closing = TRUE, !.write.closed = TRUE])

(* Everything is written: release what is left, send a pending FIN, settle *)
WriteDrained(s) ==
    LET s1 == [s EXCEPT !.exported = @ - (Len(s.bufs) - s.index),
                        !.bufs = <<>>, !.index = 0, !.offset = 0,
                        !.eof_pending = FALSE,
                        !.fin = IF s.eof_pending THEN "staged" ELSE @,
                        !.total = 0]
    IN  IF s.write.is_closing
        THEN maybe_close_fd([s1 EXCEPT !.write.closed = TRUE]) ELSE s1

(* Mutated form: only when the buffer is empty. *)
ResumesEmpty(s, bytes) ==
    /\ bytes > 0
    /\ ~s.is_closing /\ ~s.closed
    /\ ~s.is_writing
    /\ s.buffer_size = 0

(* The stream's write_operation_completed calls resume_writing *)
Resumes(s, bytes) ==
    /\ bytes > 0
    /\ ~s.is_closing /\ ~s.closed
    /\ ~s.is_writing
    /\ s.buffer_size <= s.low

(* invoke_write_completed when resume_writing raised, and cleanup *)
ResumeRaises(s) ==
    LET m == maybe_close_fd(s)
        e == [m EXCEPT !.broken = TRUE,
                       !.failed = @ \/ (m.write.lost_callback /\ ~m.is_closing)]
        c == IF m.write.lost_callback THEN close_transports(e, "error") ELSE e
    IN  maybe_close_fd([c EXCEPT !.write.is_closing = TRUE, !.write.closed = TRUE,
                                 !.write.cancelling = FALSE])

(* queue_eof *)
queue_eof(s) ==
    IF s.buffer_size > 0 \/ s.in_flight
    THEN write_close([s EXCEPT !.eof_pending = TRUE])
    ELSE write_close([s EXCEPT !.fin = "staged"])

transport_write_eof(s) ==
    IF s.write.is_closing /\ ~s.eof_pending THEN s ELSE queue_eof(s)

-----------------------------------------------------------------------------
(* Methods that Python code calls.                                         *)

InPython ==
    \/ phase \in Calls \cup {"run"}
    \/ phase = "batch" /\ OthersFirst

Method(s) ==
    /\ InPython
    /\ t' = s
    /\ UNCHANGED <<ready, phase, buffer, given, taken, written, sent>>

Close == Method(transport_close(t))
Abort == Method(transport_force_close(t, "null"))
ForceClose == Method(transport_force_close(t, "error"))
PauseReading == Method(transport_pause_reading(t))
ResumeReading == Method(transport_resume_reading(t))
WriteEof == Method(transport_write_eof(t))

(* write, and writelines.  A generator given to writelines may raise       *)
(* after some buffers: then the marks are not looked at.                   *)
Write(lens, raised) ==
    /\ InPython
    /\ ~(t.write.is_closing /\ ~t.eof_pending)
    /\ ~t.write.closed
    /\ LET a == AppendBuffers(t, lens)
       IN  /\ a.end <= MaxBytes
           /\ t' = IF raised THEN a.to ELSE MaybePause(a.to)
           /\ written' = a.end
    /\ UNCHANGED <<ready, phase, buffer, given, taken, sent>>

SetLimits(l) ==
    LET p == MaybePause([t EXCEPT !.high = l[1], !.low = l[2]])
    IN  Method([p EXCEPT !.is_writing = @ \/ t.buffer_size <= l[2]])

(* Another object cancels an operation of its own, which submits the SQ.   *)
OtherCancel == Method(Flush(t))

-----------------------------------------------------------------------------
(* The loop.                                                               *)

(* End of a tick: prepare hooks, among them flush_buffered_writes, and     *)
(* polling, which submits.                                                 *)
Tick ==
    /\ phase = "run"
    /\ ready = NothingReady
    /\ phase' = "poll"
    /\ t' = Flush(IF NeedsSubmission(t) THEN submit_next_chunk(t) ELSE t)
    /\ UNCHANGED <<ready, buffer, given, taken, written, sent>>

(* fetch_completed_tasks, and the swap of the ready queues.  A read with   *)
(* data goes through the batch unless the batch is full.                   *)
Harvest(full) ==
    LET got(op) == op.at = "done"
        batch == got(t.rop) /\ t.rop.res = "data" /\ ~full
        cb(op, b) == IF got(op) THEN [res |-> op.res, batch |-> b, len |-> op.len]
                     ELSE NoCallback
        t1 == [t EXCEPT !.soon = 0,
                        !.rop = IF got(@) THEN NoOp ELSE @,
                        !.wop = IF got(@) THEN NoOp ELSE @]
    IN  /\ phase = "poll"
        /\ ready' = [read |-> cb(t.rop, batch), write |-> cb(t.wop, FALSE),
                     lost |-> t.soon]
        /\ phase' = IF batch THEN "batch" ELSE "run"
        /\ t' = IF batch THEN [t1 EXCEPT !.record = "fresh",
                                         !.read.id = FALSE,
                                         !.read.cancelling = FALSE]
                ELSE t1
        /\ UNCHANGED <<buffer, given, taken, written, sent>>

(* dispatch_completion_batch *)
Dispatch ==
    /\ phase = "batch"
    /\ t' = [t EXCEPT !.record = "none"]
    /\ IF t.record = "fresh"
       THEN phase' = "data" /\ given' = Append(given, buffer)
       ELSE phase' = "run" /\ given' = given
    /\ UNCHANGED <<ready, buffer, taken, written, sent>>

(* data_received returns, or raises, which is only reported *)
DataReturns ==
    /\ phase = "data"
    /\ phase' = "run"
    /\ UNCHANGED <<t, ready, buffer, given, taken, written, sent>>

(* The callback of a read, up to the call of protocol code if there is one *)
ReadCompleted ==
    LET cb == ready.read
        s == ReadStarts(t, cb.batch)
        ignored == [s EXCEPT !.read.closed = @ \/ StreamClosing(s)]
        rearm(x) == IF cb.res = "canceled" THEN queue_read_operation(x) ELSE x
        Finish(x) == /\ t' = ReadReturns(maybe_close_fd(x), cb.res)
                     /\ UNCHANGED <<phase, given>>
        Call(p) == t' = s /\ phase' = p
    IN  /\ phase = "run"
        /\ cb.res # "none"
        /\ ready' = [ready EXCEPT !.read = NoCallback]
        /\ \/ /\ StreamClosing(s)
              /\ Finish(ignored)
           \/ /\ ~StreamClosing(s)
              /\ cb.res \in {"canceled", "error"}
              /\ Finish(rearm(s))
           \/ /\ ~StreamClosing(s)
              /\ cb.res = "eof"
              /\ Call("eof")
              /\ given' = given
           \/ /\ ~StreamClosing(s)
              /\ cb.res = "data"
              /\ IF GivesData(cb)
                 THEN Call("data_callback") /\ given' = Append(given, buffer)
                 ELSE Finish(queue_read_operation(s))
        /\ UNCHANGED <<buffer, taken, written, sent>>

ReadCallReturns(keep_open) ==
    LET s == IF phase = "data_callback" THEN queue_read_operation(t)
             ELSE IF keep_open THEN t ELSE close_transports(t, "None")
    IN  /\ phase \in {"eof", "data_callback"}
        /\ t' = ReadReturns(maybe_close_fd(s), "data")
        /\ phase' = "run"
        /\ UNCHANGED <<ready, buffer, given, taken, written, sent>>

ReadCallRaises ==
    /\ phase \in {"eof", "data_callback"}
    /\ t' = ReadRaises(t)
    /\ phase' = "run"
    /\ UNCHANGED <<ready, buffer, given, taken, written, sent>>

(* Mutated form: a failing flush leaves in_flight unset. *)
NextChunkForgotten(s) ==
    IF ~NeedsSubmission(s) THEN t' = s
    ELSE \/ t' = Flush(submit_next_chunk(s))
         \/ t' = [submit_next_chunk(s) EXCEPT !.in_flight = FALSE]

(* After a write callback: the next chunk.  The flush in submit_next_chunk *)
(* may fail and leave the SQE staged.                                      *)
NextChunk(s) ==
    IF ~NeedsSubmission(s) THEN t' = s
    ELSE \/ t' = Flush(submit_next_chunk(s))
         \/ t' = [submit_next_chunk(s) EXCEPT !.write.cancelling = FALSE]

(* The callback of a write, up to the call of resume_writing if there is   *)
(* one.                                                                    *)
WriteCompleted ==
    LET cb == ready.write
        s == WriteStarts(t, IF cb.res = "data" THEN cb.len ELSE 0)
        drained == s.buffer_size = 0
        d == IF drained THEN WriteDrained(s) ELSE s
    IN  /\ phase = "run"
        /\ cb.res # "none"
        /\ ready' = [ready EXCEPT !.write = NoCallback]
        /\ IF cb.res = "error" THEN t' = WriteFails(s) /\ phase' = phase
           ELSE IF s.write.closed THEN t' = s /\ phase' = phase
           ELSE IF Resumes(d, s.total)
           THEN /\ t' = [d EXCEPT !.is_writing = TRUE]
                /\ phase' = IF drained THEN "resume_end" ELSE "resume_drain"
           ELSE /\ NextChunk(maybe_close_fd(d))
                /\ phase' = phase
        /\ UNCHANGED <<buffer, given, taken, written, sent>>

ResumeReturns ==
    /\ \/ phase = "resume_drain" /\ NextChunk(maybe_close_fd(t))
       \/ phase = "resume_end" /\ t' = maybe_close_fd(t)
    /\ phase' = "run"
    /\ UNCHANGED <<ready, buffer, given, taken, written, sent>>

ResumeWritingRaises ==
    /\ phase \in {"resume_drain", "resume_end"}
    /\ t' = ResumeRaises(t)
    /\ phase' = "run"
    /\ UNCHANGED <<ready, buffer, given, taken, written, sent>>

(* The callback that connection_lost_fp scheduled *)
ConnectionLost ==
    /\ phase = "run"
    /\ ready.lost > 0
    /\ ready' = [ready EXCEPT !.lost = @ - 1]
    /\ t' = [t EXCEPT !.called = @ + 1]
    /\ UNCHANGED <<phase, buffer, given, taken, written, sent>>

-----------------------------------------------------------------------------
(* The kernel and the peer.  A cancelled operation may still be completed. *)

KernelReads(res) ==
    /\ t.rop.at = "flight"
    /\ \/ res = "data" /\ taken < MaxChunks /\ ~t.saw_eof
          /\ taken' = taken + 1 /\ buffer' = taken + 1
       \/ res \in {"eof", "error"} /\ UNCHANGED <<taken, buffer>>
       \/ res = "canceled" /\ t.rop.cancel /\ UNCHANGED <<taken, buffer>>
    /\ t' = [t EXCEPT !.rop.at = "done", !.rop.res = res,
                      !.saw_eof = @ \/ res = "eof"]
    /\ UNCHANGED <<ready, phase, given, written, sent>>

KernelWrites(res) ==
    /\ t.wop.at = "flight"
    /\ \/ /\ res = "data"
          /\ \E n \in 1 .. t.wop.len :
                /\ sent' = sent + n
                /\ t' = [t EXCEPT !.wop.at = "done", !.wop.res = res, !.wop.len = n]
       \/ /\ res = "error" \/ (res = "canceled" /\ t.wop.cancel)
          /\ t' = [t EXCEPT !.wop.at = "done", !.wop.res = res]
          /\ sent' = sent
    /\ UNCHANGED <<ready, phase, buffer, given, taken, written>>

Python ==
    \/ Close
    \/ Abort
    \/ ForceClose
    \/ PauseReading
    \/ ResumeReading
    \/ WriteEof
    \/ \E lens \in Payloads, raised \in BOOLEAN : Write(lens, raised)
    \/ \E l \in Limits : SetLimits(l)
    \/ OtherCancel

LoopThread ==
    \/ Tick
    \/ \E full \in BOOLEAN : Harvest(full)
    \/ Dispatch
    \/ DataReturns
    \/ ReadCompleted
    \/ \E keep_open \in BOOLEAN : ReadCallReturns(keep_open)
    \/ ReadCallRaises
    \/ WriteCompleted
    \/ ResumeReturns
    \/ ResumeWritingRaises
    \/ ConnectionLost

Kernel ==
    \E res \in {"data", "eof", "error", "canceled"} :
        KernelReads(res) \/ KernelWrites(res)

Next == Python \/ LoopThread \/ Kernel

(* The loop runs, protocol code returns, a cancelled read completes, and   *)
(* the peer takes what is written (or the connection fails).  A read that  *)
(* nobody cancelled need not complete.                                     *)
Spec ==
    /\ Init /\ [][Next]_vars
    /\ WF_vars(LoopThread)
    /\ WF_vars(KernelReads("canceled"))
    /\ WF_vars(KernelWrites("data"))

-----------------------------------------------------------------------------
Open == ~t.is_closing /\ ~t.closed

(* A transport that is reading has a read under way, or a callback that    *)
(* will start one, through every race of pause_reading, resume_reading and *)
(* completions (after an EOF that the protocol kept open it has not).  And *)
(* it never forgets a read that it has in the ring, so it never starts a   *)
(* second one into the same buffer: blocking_task_id is set until the read *)
(* is harvested or the read side is closed (BUG-351).                      *)
ReadingIsArmed ==
    /\ Open /\ t.is_reading /\ ~t.saw_eof =>
        t.read.id \/ ready.read.res # "none" \/ phase = "data_callback"
    /\ t.rop.at # "none" => t.read.id \/ t.read.closed

(* Chunks that the kernel has read and data_received was not given.        *)
Undelivered ==
    LET one(b) == IF b THEN 1 ELSE 0
    IN  one(t.rop.at = "done" /\ t.rop.res = "data")
        + one(t.record = "fresh")
        + one(GivesData(ready.read))

(* data_received is given the chunks in the order in which they were read, *)
(* each once, and while the transport is open what was read is given or    *)
(* still on its way: through the batch or through the callback, never both *)
(* and never neither.                                                      *)
ChunksInOrder ==
    /\ \A i \in DOMAIN given : given[i] = i
    /\ Open => taken = Len(given) + Undelivered

(* Bytes that the kernel took and the callback has not counted.            *)
Unseen ==
    IF t.wop.at = "done" /\ t.wop.res = "data" THEN t.wop.len
    ELSE IF ready.write.res = "data" THEN ready.write.len ELSE 0

(* buffer_size is what was written and is not yet acknowledged: bytes that *)
(* the kernel took count until the callback has run.                       *)
SizeIsBacklog == t.buffer_size = written - sent + Unseen

(* The bytes that a write operation carries are the next ones of what was  *)
(* written: none is skipped and none is sent twice, through partial        *)
(* writes, resubmission by the prepare hook, and failing flushes           *)
(* (BUG-281), and the backlog is accounted to the byte.  Each exported     *)
(* Py_buffer is released once, when it is consumed (BUG-329).              *)
BytesInOrder ==
    /\ t.wop.at \in {"staged", "flight"} => t.wop.from = sent
    /\ SizeIsBacklog
    /\ t.exported = Len(t.bufs) - t.index

(* The protocol of an open transport is paused only while the backlog is   *)
(* above the low-water mark: no drain and no change of the limits leaves   *)
(* it paused for good (BUG-379).                                           *)
PausedOnlyWhileFull ==
    Open /\ ~t.is_writing => t.buffer_size > t.low

(* A transport that closes without an abort or an error reports            *)
(* connection_lost only after everything that was written has been sent    *)
(* (BUG-378).                                                              *)
CloseFlushes ==
    t.connection_lost_notified /\ ~t.broken => sent = written

(* Something that leads to connection_lost: its callback, a read that was  *)
(* cancelled or has completed, what is left to write, or a handler that    *)
(* has not ended.                                                          *)
ReportIsDriven ==
    \/ t.soon + ready.lost + t.called > 0
    \/ t.rop.cancel \/ t.rop.at = "done" \/ ready.read.res # "none"
    \/ t.index < Len(t.bufs) \/ ready.write.res # "none"
    \/ phase \in Calls

(* connection_lost is called once, on every combination of close, abort,   *)
(* EOF and errors (BUG-378), and a transport that is closing never waits   *)
(* for it with nothing under way that calls it.  If an error closed an     *)
(* open transport and nobody aborted it since, it is given the error       *)
(* (BUG-402).                                                              *)
LostOnce ==
    /\ t.soon + ready.lost + t.called <= 1
    /\ t.is_closing => ReportIsDriven
    /\ t.failed /\ t.connection_lost_notified => t.exc = "error"

(* What lifecycle.zig:266 says of abort: the notification is driven by the *)
(* force-closes.  A transport whose descriptor is closed has reported it,  *)
(* or a read is on its way whose callback will.                            *)
AbortIsReported ==
    ~t.fd => \/ t.connection_lost_notified
             \/ t.rop.at # "none"
             \/ ready.read.res # "none"
             \/ phase \in Calls

(* What read.zig:77 says: data that arrives on a transport that is closing *)
(* is ignored.                                                             *)
NoDataAfterClose ==
    [][given' # given => Open]_vars

(* What read_transport.zig:147 says: a completion that does not go through *)
(* the batch leaves no window in which the id names a freed slot.  So a    *)
(* cancellation names a read that is in the ring.                          *)
NoStaleCancel ==
    [][t'.read.cancelling /\ ~t.read.cancelling => t.rop.at # "none"]_vars

(* What write_transport.zig:407 says: a FIN goes out while the descriptor  *)
(* is open.                                                                *)
FinBeforeClose == t.fin # "late"
=============================================================================
