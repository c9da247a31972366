---------------------------- MODULE StreamProofs ----------------------------
(***************************************************************************)
(* Proofs about Stream, for every history of completions, calls and        *)
(* errors: first the read side, for any number of chunks, then the write   *)
(* side and closing, for any payloads and limits.                          *)
(***************************************************************************)
EXTENDS Stream, WellFoundedInduction, TLAPS

-----------------------------------------------------------------------------
(* The part of the transport that reading depends on, and how it fits      *)
(* together.  s and r stand for values of t.                               *)

Shape(s) ==
    /\ "is_reading" \in DOMAIN s /\ "is_closing" \in DOMAIN s /\ "closed" \in DOMAIN s
    /\ "record" \in DOMAIN s /\ "saw_eof" \in DOMAIN s
    /\ "read" \in DOMAIN s /\ "rop" \in DOMAIN s
    /\ "id" \in DOMAIN s.read /\ "is_closing" \in DOMAIN s.read
    /\ "closed" \in DOMAIN s.read /\ "lost_callback" \in DOMAIN s.read
    /\ "at" \in DOMAIN s.rop /\ "res" \in DOMAIN s.rop

(* A read side that is closed is closing, and so is one that does not      *)
(* report connection_lost.                                                 *)
Good(s) ==
    /\ Shape(s)
    /\ s.read.closed => s.read.is_closing
    /\ ~s.read.lost_callback => s.read.is_closing

(* The read side is closing when the transport is.                         *)
Agree(s) == s.is_closing \/ s.closed <=> s.read.is_closing

(* What everything that is not a read does to the read side, at most: it   *)
(* is closed, its operation is submitted or cancelled.                     *)
Closes(s, r) ==
    /\ r.read.id = s.read.id
    /\ r.rop.res = s.rop.res
    /\ r.rop.at = s.rop.at \/ (s.rop.at = "staged" /\ r.rop.at = "flight")
    /\ r.saw_eof = s.saw_eof
    /\ r.is_reading => s.is_reading
    /\ s.is_closing => r.is_closing
    /\ s.closed => r.closed
    /\ s.read.closed => r.read.closed
    /\ s.read.is_closing => r.read.is_closing
    /\ r.record = s.record \/ (s.record # "none" /\ r.record = "stale")

Settles(s, r) ==
    /\ Good(r)
    /\ Closes(s, r)
    /\ Agree(s) => Agree(r)

(* The inductive invariant of ReadingIsArmed.                              *)
ArmedInv ==
    /\ Good(t) /\ Agree(t)
    /\ Open /\ t.is_reading /\ ~t.saw_eof =>
        t.read.id \/ ready.read.res # "none" \/ phase = "data_callback"
    /\ t.rop.at # "none" => t.read.id \/ t.read.closed
    /\ ready.read.res # "none" /\ ~ready.read.batch =>
        (t.read.id \/ t.read.closed) /\ t.rop.at = "none"
    /\ (t.rop.at = "done" /\ t.rop.res = "eof") \/ ready.read.res = "eof" => t.saw_eof
    /\ t.rop.at = "done" => t.rop.res # "none"
    /\ phase = "poll" => ready = NothingReady

(* Somebody can still give the chunk that was read to the protocol.        *)
Deliverable ==
    Open \/ t.rop.at # "none" \/ t.record = "fresh" \/ GivesData(ready.read)

(* The inductive invariant of ChunksInOrder.                               *)
ChunkInv ==
    /\ t.record = IF phase = "batch" THEN "fresh" ELSE "none"
    /\ phase = "batch" => t.rop.at = "none" /\ ready.read.batch
    /\ taken \in Nat /\ given \in Seq(Nat)
    /\ \A i \in DOMAIN given : given[i] = i
    /\ Deliverable => taken = Len(given) + Undelivered
    /\ Undelivered > 0 => buffer = taken

-----------------------------------------------------------------------------
(* Operators of stream/lifecycle.zig.                                      *)

(* What a record r is that has the read side of s.                         *)
Same(s, r) ==
    /\ r.is_reading = s.is_reading /\ r.is_closing = s.is_closing /\ r.closed = s.closed
    /\ r.record = s.record /\ r.saw_eof = s.saw_eof /\ r.read = s.read /\ r.rop = s.rop

(* The same read side settles.                                             *)
LEMMA SameSettles ==
    ASSUME NEW s, NEW r, Good(s), Shape(r), Same(s, r)
    PROVE  Settles(s, r)
BY DEF Same, Settles, Good, Closes, Agree

(* Two such steps are one.                                                 *)
LEMMA SettlesTrans ==
    ASSUME NEW s, NEW r, NEW q, Settles(s, r), Settles(r, q)
    PROVE  Settles(s, q)
BY DEF Settles, Closes

(* The same for closing.                                                   *)
LEMMA ClosesTrans ==
    ASSUME NEW s, NEW r, NEW q, Closes(s, r), Closes(r, q)
    PROVE  Closes(s, q)
BY DEF Closes

(* Nothing happens.                                                        *)
LEMMA SettlesRefl ==
    ASSUME NEW s, Good(s)
    PROVE  Settles(s, s)
BY DEF Settles, Closes

(* Only the operation of the read side is changed, and goes nowhere but to *)
(* the kernel.                                                             *)
LEMMA OpSettles ==
    ASSUME NEW s, NEW op, Good(s), "at" \in DOMAIN op, "res" \in DOMAIN op,
           op.res = s.rop.res,
           op.at = s.rop.at \/ (s.rop.at = "staged" /\ op.at = "flight"),
           NEW r, Shape(r),
           r.is_reading = s.is_reading, r.is_closing = s.is_closing, r.closed = s.closed,
           r.record = s.record, r.saw_eof = s.saw_eof, r.rop = op,
           r.read.id = s.read.id, r.read.is_closing = s.read.is_closing,
           r.read.closed = s.read.closed, r.read.lost_callback = s.read.lost_callback
    PROVE  Settles(s, r)
BY DEF Settles, Good, Closes, Agree

(* flush_pending_sqes.                                                     *)
LEMMA FlushSettles ==
    ASSUME NEW s, Good(s)
    PROVE  /\ Settles(s, Flush(s))
           /\ Flush(s).read = s.read
<1> PICK r, op : /\ r = Flush(s)
                 /\ op = IF s.rop.at = "staged" THEN [s.rop EXCEPT !.at = "flight"] ELSE s.rop
  OBVIOUS
<1>1. Shape(s)
  BY DEF Good
<1>2. /\ "at" \in DOMAIN op /\ "res" \in DOMAIN op /\ op.res = s.rop.res
      /\ op.at = s.rop.at \/ (s.rop.at = "staged" /\ op.at = "flight")
  BY <1>1 DEF Shape
<1>3. /\ r.is_reading = s.is_reading /\ r.is_closing = s.is_closing /\ r.closed = s.closed
      /\ r.record = s.record /\ r.saw_eof = s.saw_eof /\ r.rop = op /\ r.read = s.read
      /\ DOMAIN r = DOMAIN s
  BY <1>1 DEF Flush, Shape
<1>4. Shape(r)
  BY <1>1, <1>2, <1>3 DEF Shape
<1> QED BY <1>2, <1>3, <1>4, OpSettles

(* CancelIO of the read, of the write, or of both by their descriptor.     *)
LEMMA CancelSettles ==
    ASSUME NEW s, Good(s)
    PROVE  Settles(s, CancelRead(s)) /\ Settles(s, CancelWrite(s)) /\ Settles(s, CancelByFd(s))
<1> PICK f : f = Flush(s)
  OBVIOUS
<1>1. Settles(s, f) /\ Good(f) /\ Shape(f)
  BY FlushSettles DEF Settles, Good
<1> PICK op : op = Cancelled(f.rop)
  OBVIOUS
<1>2. "at" \in DOMAIN op /\ "res" \in DOMAIN op /\ op.res = f.rop.res /\ op.at = f.rop.at
  BY <1>1 DEF Cancelled, Shape
<1>3. Settles(f, CancelRead(s))
  <2> PICK r : r = CancelRead(s)
    OBVIOUS
  <2>1. r = [f EXCEPT !.rop = Cancelled(@), !.read.cancelling = TRUE]
    BY DEF CancelRead
  <2>2. /\ r.is_reading = f.is_reading /\ r.is_closing = f.is_closing /\ r.closed = f.closed
        /\ r.record = f.record /\ r.saw_eof = f.saw_eof /\ r.rop = op
        /\ r.read = [f.read EXCEPT !.cancelling = TRUE] /\ DOMAIN r = DOMAIN f
    BY <1>1, <2>1 DEF Shape
  <2>3. /\ r.read.id = f.read.id /\ r.read.is_closing = f.read.is_closing
        /\ r.read.closed = f.read.closed /\ r.read.lost_callback = f.read.lost_callback
        /\ DOMAIN r.read = DOMAIN f.read
    BY <1>1, <2>2 DEF Shape
  <2>4. Shape(r)
    BY <1>1, <1>2, <2>2, <2>3 DEF Shape
  <2> QED BY <1>1, <1>2, <2>2, <2>3, <2>4, OpSettles
<1>4. Settles(f, CancelWrite(s))
  <2> PICK r : r = CancelWrite(s)
    OBVIOUS
  <2>1. r = [f EXCEPT !.wop = Cancelled(@), !.write.cancelling = TRUE]
    BY DEF CancelWrite
  <2>2. Same(f, r) /\ DOMAIN r = DOMAIN f
    BY <1>1, <2>1 DEF Shape, Same
  <2>3. Shape(r)
    BY <1>1, <2>2 DEF Shape, Same
  <2> QED BY <1>1, <2>2, <2>3, SameSettles
<1>5. Settles(f, CancelByFd(s))
  <2> PICK r : r = CancelByFd(s)
    OBVIOUS
  <2>1. r = [f EXCEPT !.rop = Cancelled(@), !.wop = Cancelled(@)]
    BY DEF CancelByFd
  <2>2. /\ r.is_reading = f.is_reading /\ r.is_closing = f.is_closing /\ r.closed = f.closed
        /\ r.record = f.record /\ r.saw_eof = f.saw_eof /\ r.rop = op /\ r.read = f.read
        /\ DOMAIN r = DOMAIN f
    BY <1>1, <2>1 DEF Shape
  <2>3. Shape(r)
    BY <1>1, <1>2, <2>2 DEF Shape
  <2> QED BY <1>1, <1>2, <2>2, <2>3, OpSettles
<1> QED BY <1>1, <1>3, <1>4, <1>5, SettlesTrans

(* connection_lost is scheduled.                                           *)
LEMMA ScheduleSettles ==
    ASSUME NEW s, Good(s)
    PROVE  Settles(s, schedule_connection_lost_once(s))
<1> PICK r : r = schedule_connection_lost_once(s)
  OBVIOUS
<1>1. Shape(s)
  BY DEF Good
<1>2. Same(s, r) /\ DOMAIN r = DOMAIN s
  BY <1>1 DEF schedule_connection_lost_once, Same, Shape
<1>3. Shape(r)
  BY <1>1, <1>2 DEF Shape, Same
<1> QED BY <1>2, <1>3, SameSettles

(* The descriptor is closed.                                               *)
LEMMA CloseFdSettles ==
    ASSUME NEW s, Good(s)
    PROVE  Settles(s, cancel_and_close_fd(s))
<1>1. CASE ~s.fd
  BY <1>1, SettlesRefl DEF cancel_and_close_fd
<1>2. CASE s.fd
  <2> PICK c : c = IF s.read.id \/ s.write.id THEN CancelByFd(s) ELSE s
    OBVIOUS
  <2>1. Settles(s, c) /\ Good(c) /\ Shape(c)
    BY CancelSettles, SettlesRefl DEF Settles, Good
  <2> PICK r : r = cancel_and_close_fd(s)
    OBVIOUS
  <2>2. r = [c EXCEPT !.fd = FALSE]
    BY <1>2 DEF cancel_and_close_fd
  <2>3. Same(c, r) /\ DOMAIN r = DOMAIN c
    BY <2>1, <2>2 DEF Same, Shape
  <2>4. Shape(r)
    BY <2>1, <2>3 DEF Shape, Same
  <2> QED BY <2>1, <2>3, <2>4, SameSettles, SettlesTrans
<1> QED BY <1>1, <1>2

(* The generation is raised: a record in the batch is stale.               *)
LEMMA BumpSettles ==
    ASSUME NEW s, Good(s)
    PROVE  Settles(s, BumpGeneration(s)) /\ BumpGeneration(s).read = s.read
<1> PICK r : r = BumpGeneration(s)
  OBVIOUS
<1>1. Shape(s)
  BY DEF Good
<1>2. /\ r.is_reading = s.is_reading /\ r.is_closing = s.is_closing /\ r.closed = s.closed
      /\ r.saw_eof = s.saw_eof /\ r.rop = s.rop /\ r.read = s.read
      /\ r.record = s.record \/ (s.record # "none" /\ r.record = "stale")
      /\ DOMAIN r = DOMAIN s
  BY <1>1 DEF BumpGeneration, Shape
<1> QED BY <1>1, <1>2 DEF Settles, Good, Closes, Agree, Shape

(* Both halves are closed: the transport is.                               *)
LEMMA MaybeCloseSettles ==
    ASSUME NEW s, Good(s)
    PROVE  Settles(s, maybe_close_fd(s))
<1>1. CASE ~(s.read.closed /\ s.write.closed)
  BY <1>1, SettlesRefl DEF maybe_close_fd
<1>2. CASE s.read.closed /\ s.write.closed
  <2> PICK b, r : b = BumpGeneration(s) /\ r = [b EXCEPT !.closed = TRUE]
    OBVIOUS
  <2>1. Settles(s, b) /\ Good(b) /\ Shape(b) /\ b.read = s.read
    BY BumpSettles DEF Settles, Good
  <2>2. /\ r.is_reading = b.is_reading /\ r.is_closing = b.is_closing /\ r.closed = TRUE
        /\ r.saw_eof = b.saw_eof /\ r.rop = b.rop /\ r.read = b.read /\ r.record = b.record
        /\ DOMAIN r = DOMAIN b
    BY <2>1 DEF Shape
  <2>3. r.read.is_closing
    BY <1>2, <2>1, <2>2 DEF Good
  <2>4. Settles(b, r)
    BY <2>1, <2>2, <2>3 DEF Settles, Good, Closes, Agree, Shape
  <2>5. Good(r)
    BY <2>4 DEF Settles
  <2> PICK c : c = cancel_and_close_fd(r)
    OBVIOUS
  <2>6. Settles(r, c) /\ Good(c)
    BY <2>5, CloseFdSettles DEF Settles
  <2>7. Settles(c, schedule_connection_lost_once(c))
    BY <2>6, ScheduleSettles
  <2>8. maybe_close_fd(s) = schedule_connection_lost_once(c)
    BY <1>2 DEF maybe_close_fd
  <2> QED BY <2>1, <2>4, <2>6, <2>7, <2>8, SettlesTrans
<1> QED BY <1>1, <1>2

(* ReadTransport.close, up to the transport's own flag.                    *)
LEMMA ReadCloseCloses ==
    ASSUME NEW s, Good(s)
    PROVE  /\ Good(read_close(s)) /\ Closes(s, read_close(s))
           /\ read_close(s).read.is_closing
<1>1. CASE s.read.is_closing \/ s.read.closed
  BY <1>1, SettlesRefl DEF read_close, Settles, Good
<1>2. CASE ~(s.read.is_closing \/ s.read.closed) /\ ~s.read.id
  <2> PICK r : r = [s EXCEPT !.read.closed = TRUE, !.read.is_closing = TRUE]
    OBVIOUS
  <2>1. /\ r.is_reading = s.is_reading /\ r.is_closing = s.is_closing /\ r.closed = s.closed
        /\ r.saw_eof = s.saw_eof /\ r.rop = s.rop /\ r.record = s.record
        /\ DOMAIN r = DOMAIN s
    BY DEF Good, Shape
  <2>2. /\ r.read.id = s.read.id /\ r.read.closed /\ r.read.is_closing
        /\ DOMAIN r.read = DOMAIN s.read
    BY DEF Good, Shape
  <2>3. Good(r) /\ Closes(s, r)
    BY <2>1, <2>2 DEF Good, Closes, Shape
  <2>4. Settles(r, maybe_close_fd(r))
    BY <2>3, MaybeCloseSettles
  <2>5. read_close(s) = maybe_close_fd(r)
    BY <1>2 DEF read_close
  <2> QED BY <2>2, <2>3, <2>4, <2>5, ClosesTrans DEF Settles, Closes
<1>3. CASE ~(s.read.is_closing \/ s.read.closed) /\ s.read.id
  <2> PICK c : c = IF s.read.cancelling THEN s ELSE CancelRead(s)
    OBVIOUS
  <2>1. Settles(s, c) /\ Good(c) /\ Shape(c) /\ Closes(s, c)
    BY CancelSettles, SettlesRefl DEF Settles, Good
  <2> PICK r : r = read_close(s)
    OBVIOUS
  <2>2. r = [c EXCEPT !.read.is_closing = TRUE, !.read.lost_callback = FALSE]
    BY <1>3 DEF read_close
  <2>3. /\ r.is_reading = c.is_reading /\ r.is_closing = c.is_closing /\ r.closed = c.closed
        /\ r.saw_eof = c.saw_eof /\ r.rop = c.rop /\ r.record = c.record
        /\ DOMAIN r = DOMAIN c
    BY <2>1, <2>2 DEF Shape
  <2> PICK h : h = [c.read EXCEPT !.is_closing = TRUE, !.lost_callback = FALSE]
    OBVIOUS
  <2>4. r.read = h
    BY <2>1, <2>2 DEF Shape
  <2>5. /\ h.id = c.read.id /\ h.closed = c.read.closed /\ h.is_closing
        /\ DOMAIN h = DOMAIN c.read
    BY <2>1 DEF Shape
  <2>6. /\ r.read.id = c.read.id /\ r.read.closed = c.read.closed /\ r.read.is_closing
        /\ DOMAIN r.read = DOMAIN c.read
    BY <2>4, <2>5
  <2>7. Good(r) /\ Closes(c, r)
    BY <2>1, <2>3, <2>6 DEF Good, Closes, Shape
  <2> QED BY <2>1, <2>6, <2>7, ClosesTrans
<1> QED BY <1>1, <1>2, <1>3

(* WriteTransport.close.                                                   *)
LEMMA WriteCloseSettles ==
    ASSUME NEW s, Good(s)
    PROVE  Settles(s, write_close(s))
<1> PICK c : c = [s EXCEPT !.write.is_closing = TRUE, !.write.lost_callback = FALSE]
  OBVIOUS
<1> PICK d : d = [c EXCEPT !.write.closed = TRUE]
  OBVIOUS
<1>1. Shape(s)
  BY DEF Good
<1>2. Same(s, c) /\ DOMAIN c = DOMAIN s
  BY <1>1 DEF Same, Shape
<1>3. Shape(c)
  BY <1>1, <1>2 DEF Same, Shape
<1>4. Settles(s, c) /\ Good(c)
  BY <1>2, <1>3, SameSettles DEF Settles
<1>5. Same(c, d) /\ DOMAIN d = DOMAIN c
  BY <1>3 DEF Same, Shape
<1>6. Shape(d)
  BY <1>3, <1>5 DEF Same, Shape
<1>7. Settles(c, d) /\ Good(d)
  BY <1>4, <1>5, <1>6, SameSettles DEF Settles
<1>8. Settles(d, maybe_close_fd(d))
  BY <1>7, MaybeCloseSettles
<1>9. Settles(s, maybe_close_fd(d)) /\ Settles(s, s)
  BY <1>4, <1>7, <1>8, SettlesTrans, SettlesRefl
<1> QED BY <1>4, <1>9 DEF write_close

(* close_transports.                                                       *)
LEMMA CloseTransportsCloses ==
    ASSUME NEW s, Good(s), NEW x
    PROVE  /\ Good(close_transports(s, x)) /\ Closes(s, close_transports(s, x))
           /\ close_transports(s, x).is_closing /\ close_transports(s, x).read.is_closing
<1> PICK s1 : s1 = IF ~s.closed /\ s.pending_lost_exc = "null"
                   THEN [s EXCEPT !.pending_lost_exc = x] ELSE s
  OBVIOUS
<1>1. Shape(s)
  BY DEF Good
<1>2. Same(s, s1) /\ DOMAIN s1 = DOMAIN s
  BY <1>1 DEF Same, Shape
<1>3. Good(s1) /\ Closes(s, s1)
  <2>1. Shape(s1)
    BY <1>1, <1>2 DEF Same, Shape
  <2> QED BY <1>2, <2>1, SameSettles DEF Settles
<1> PICK r : r = read_close(s1)
  OBVIOUS
<1>4. Good(r) /\ Closes(s1, r) /\ r.read.is_closing
  BY <1>3, ReadCloseCloses
<1> PICK w : w = write_close(r)
  OBVIOUS
<1>5. Good(w) /\ Closes(r, w) /\ Shape(w)
  BY <1>4, WriteCloseSettles DEF Settles, Good
<1> PICK s2 : s2 = [w EXCEPT !.is_reading = FALSE, !.is_closing = TRUE]
  OBVIOUS
<1>6. /\ s2.is_reading = FALSE /\ s2.is_closing /\ s2.closed = w.closed
      /\ s2.saw_eof = w.saw_eof /\ s2.rop = w.rop /\ s2.record = w.record /\ s2.read = w.read
      /\ DOMAIN s2 = DOMAIN w
  BY <1>5 DEF Shape
<1>7. Good(s2) /\ Closes(w, s2)
  BY <1>5, <1>6 DEF Good, Closes, Shape
<1>8. s2.read.is_closing
  BY <1>4, <1>5, <1>6 DEF Closes
<1>9. Closes(s, s2)
  BY <1>3, <1>4, <1>5, <1>7, ClosesTrans
<1> PICK s3 : s3 = [s2 EXCEPT !.attached = FALSE]
  OBVIOUS
<1>10. Same(s2, s3) /\ DOMAIN s3 = DOMAIN s2
  BY <1>7 DEF Same, Shape, Good
<1>11. Good(s3) /\ Closes(s2, s3)
  <2>1. Shape(s3)
    BY <1>7, <1>10 DEF Same, Shape, Good
  <2> QED BY <1>7, <1>10, <2>1, SameSettles DEF Settles
<1>12. Good(maybe_close_fd(s3)) /\ Closes(s3, maybe_close_fd(s3))
  BY <1>11, MaybeCloseSettles DEF Settles
<1>13. /\ Closes(s, maybe_close_fd(s3))
       /\ maybe_close_fd(s3).is_closing /\ maybe_close_fd(s3).read.is_closing
  <2>1. s3.is_closing /\ s3.read.is_closing
    BY <1>6, <1>8, <1>10 DEF Same
  <2>2. Closes(s, s3)
    BY <1>9, <1>11, ClosesTrans
  <2>3. Closes(s, maybe_close_fd(s3))
    BY <1>12, <2>2, ClosesTrans
  <2> QED BY <1>12, <2>1, <2>3 DEF Closes
<1>14. close_transports(s, x) = s2 \/ close_transports(s, x) = maybe_close_fd(s3)
  BY DEF close_transports
<1> QED BY <1>6, <1>7, <1>8, <1>9, <1>12, <1>13, <1>14

(* In short: afterwards the two agree.                                     *)
LEMMA CloseTransportsSettles ==
    ASSUME NEW s, Good(s), NEW x
    PROVE  Settles(s, close_transports(s, x))
BY CloseTransportsCloses DEF Settles, Agree

(* ReadTransport.force_close, up to the transport's own flag.              *)
LEMMA ReadForceCloses ==
    ASSUME NEW s, Good(s)
    PROVE  /\ Good(read_force_close(s)) /\ Closes(s, read_force_close(s))
           /\ read_force_close(s).read.is_closing
<1>1. CASE s.read.closed
  BY <1>1, SettlesRefl DEF read_force_close, Settles, Good
<1>2. CASE ~s.read.closed
  <2> PICK c : c = [s EXCEPT !.read.closed = TRUE, !.read.is_closing = TRUE,
                             !.read.lost_callback = FALSE]
    OBVIOUS
  <2>1. /\ c.is_reading = s.is_reading /\ c.is_closing = s.is_closing /\ c.closed = s.closed
        /\ c.saw_eof = s.saw_eof /\ c.rop = s.rop /\ c.record = s.record
        /\ DOMAIN c = DOMAIN s
    BY DEF Good, Shape
  <2>2. /\ c.read.id = s.read.id /\ c.read.closed /\ c.read.is_closing
        /\ DOMAIN c.read = DOMAIN s.read
    BY DEF Good, Shape
  <2>3. Good(c) /\ Closes(s, c)
    BY <2>1, <2>2 DEF Good, Closes, Shape
  <2>4. Good(CancelRead(c)) /\ Closes(c, CancelRead(c))
    BY <2>3, CancelSettles DEF Settles
  <2>5. CancelRead(c).read.is_closing
    BY <2>2, <2>4 DEF Closes
  <2>6. read_force_close(s) = CancelRead(c) \/ read_force_close(s) = c
    BY <1>2 DEF read_force_close
  <2>7. Closes(s, CancelRead(c))
    BY <2>3, <2>4, ClosesTrans
  <2> QED BY <2>2, <2>3, <2>4, <2>5, <2>6, <2>7
<1> QED BY <1>1, <1>2

(* WriteTransport.force_close.                                             *)
LEMMA WriteForceSettles ==
    ASSUME NEW s, Good(s)
    PROVE  Settles(s, write_force_close(s))
<1>1. CASE s.write.closed
  BY <1>1, SettlesRefl DEF write_force_close
<1>2. CASE ~s.write.closed
  <2> PICK c : c = [s EXCEPT !.write.closed = TRUE, !.write.is_closing = TRUE,
                             !.write.lost_callback = FALSE]
    OBVIOUS
  <2>1. Same(s, c) /\ DOMAIN c = DOMAIN s
    BY DEF Same, Good, Shape
  <2>2. Shape(c)
    BY <2>1 DEF Same, Good, Shape
  <2>3. Settles(s, c) /\ Good(c)
    BY <2>1, <2>2, SameSettles DEF Settles
  <2> PICK w : w = CancelWrite(c)
    OBVIOUS
  <2> PICK d : d = [w EXCEPT !.write.id = FALSE]
    OBVIOUS
  <2>4. Settles(c, w) /\ Good(w) /\ Shape(w)
    BY <2>3, CancelSettles DEF Settles, Good
  <2>5. Same(w, d) /\ DOMAIN d = DOMAIN w
    BY <2>4 DEF Same, Shape
  <2>6. Shape(d)
    BY <2>4, <2>5 DEF Same, Shape
  <2>7. Settles(w, d)
    BY <2>4, <2>5, <2>6, SameSettles
  <2>8. Settles(s, d) /\ Good(d)
    BY <2>3, <2>4, <2>7, SettlesTrans DEF Settles
  <2>9. Settles(s, maybe_close_fd(d)) /\ Settles(s, maybe_close_fd(c))
    BY <2>3, <2>8, MaybeCloseSettles, SettlesTrans
  <2>10. write_force_close(s) = maybe_close_fd(d) \/ write_force_close(s) = maybe_close_fd(c)
    BY <1>2 DEF write_force_close
  <2> QED BY <2>9, <2>10
<1> QED BY <1>1, <1>2

(* transport_close.                                                        *)
LEMMA CloseSettles ==
    ASSUME NEW s, Good(s), Agree(s)
    PROVE  Settles(s, transport_close(s))
<1> PICK c : c = [s EXCEPT !.is_closing = TRUE]
  OBVIOUS
<1>1. /\ c.is_reading = s.is_reading /\ c.is_closing /\ c.closed = s.closed
      /\ c.saw_eof = s.saw_eof /\ c.rop = s.rop /\ c.record = s.record /\ c.read = s.read
      /\ DOMAIN c = DOMAIN s
  BY DEF Good, Shape
<1>2. Good(c) /\ Closes(s, c)
  BY <1>1 DEF Good, Closes, Shape
<1>3. CASE s.is_closing \/ s.closed
  BY <1>3, SettlesRefl DEF transport_close
<1>4. CASE ~(s.is_closing \/ s.closed) /\ s.read.closed /\ s.write.closed
  BY <1>4 DEF Good, Agree
<1>5. CASE ~(s.is_closing \/ s.closed) /\ ~(s.read.closed /\ s.write.closed)
  <2>1. transport_close(s) = close_transports(c, "None")
    BY <1>5 DEF transport_close
  <2> PICK r : r = close_transports(c, "None")
    OBVIOUS
  <2>2. Good(r) /\ Closes(c, r) /\ r.is_closing /\ r.read.is_closing
    BY <1>2, CloseTransportsCloses
  <2>3. Closes(s, r)
    BY <1>2, <2>2, ClosesTrans
  <2> QED BY <2>1, <2>2, <2>3 DEF Settles, Agree
<1> QED BY <1>3, <1>4, <1>5

(* transport_force_close.                                                  *)
LEMMA ForceCloseSettles ==
    ASSUME NEW s, Good(s), NEW x
    PROVE  Settles(s, transport_force_close(s, x))
<1>1. CASE s.closed
  BY <1>1, SettlesRefl DEF transport_force_close
<1>2. CASE ~s.closed
  <2> PICK b : b = BumpGeneration(s)
    OBVIOUS
  <2>1. Good(b) /\ Closes(s, b) /\ Shape(b)
    BY BumpSettles DEF Settles, Good
  <2> PICK s1 : s1 = [b EXCEPT !.attached = FALSE, !.closed = TRUE, !.pending_lost_exc = x,
                               !.broken = TRUE, !.failed = FALSE]
    OBVIOUS
  <2>2. /\ s1.is_reading = b.is_reading /\ s1.is_closing = b.is_closing /\ s1.closed
        /\ s1.saw_eof = b.saw_eof /\ s1.rop = b.rop /\ s1.record = b.record
        /\ s1.read = b.read /\ DOMAIN s1 = DOMAIN b
    BY <2>1 DEF Shape
  <2>3. Good(s1) /\ Closes(b, s1)
    BY <2>1, <2>2 DEF Good, Closes, Shape
  <2> PICK r : r = read_force_close(s1)
    OBVIOUS
  <2>4. Good(r) /\ Closes(s1, r) /\ r.read.is_closing
    BY <2>3, ReadForceCloses
  <2> PICK w : w = write_force_close(r)
    OBVIOUS
  <2>5. Good(w) /\ Closes(r, w) /\ Shape(w)
    BY <2>4, WriteForceSettles DEF Settles, Good
  <2> PICK s2 : s2 = [w EXCEPT !.is_reading = FALSE, !.is_writing = FALSE]
    OBVIOUS
  <2>6. /\ s2.is_reading = FALSE /\ s2.is_closing = w.is_closing /\ s2.closed = w.closed
        /\ s2.saw_eof = w.saw_eof /\ s2.rop = w.rop /\ s2.record = w.record
        /\ s2.read = w.read /\ DOMAIN s2 = DOMAIN w
    BY <2>5 DEF Shape
  <2>7. Good(s2) /\ Closes(w, s2)
    BY <2>5, <2>6 DEF Good, Closes, Shape
  <2> PICK d : d = cancel_and_close_fd(s2)
    OBVIOUS
  <2>8. Good(d) /\ Closes(s2, d)
    BY <2>7, CloseFdSettles DEF Settles
  <2>9. d.closed /\ d.read.is_closing
    BY <2>2, <2>4, <2>5, <2>7, <2>8 DEF Closes
  <2>10. Closes(s, d)
    BY <2>1, <2>3, <2>4, <2>5, <2>7, <2>8, ClosesTrans
  <2>11. transport_force_close(s, x) = d
    BY <1>2 DEF transport_force_close
  <2> QED BY <2>8, <2>9, <2>10, <2>11 DEF Settles, Agree
<1> QED BY <1>1, <1>2

-----------------------------------------------------------------------------
(* Operators of write_transport.zig and stream/write.zig: they reach the   *)
(* read side only by closing it.                                           *)

(* A record that differs outside the read side.                            *)
LEMMA EditSettles ==
    ASSUME NEW s, NEW r, Good(s), Same(s, r), DOMAIN r = DOMAIN s
    PROVE  Settles(s, r) /\ Good(r)
<1>1. Shape(r)
  BY DEF Good, Shape, Same
<1> QED BY <1>1, SameSettles DEF Settles

(* pause_reading.                                                          *)
LEMMA PauseSettles ==
    ASSUME NEW s, Good(s)
    PROVE  Settles(s, transport_pause_reading(s))
<1>1. CASE s.closed \/ ~s.is_reading
  BY <1>1, SettlesRefl DEF transport_pause_reading
<1>2. CASE ~(s.closed \/ ~s.is_reading)
  <2> PICK c : c = IF s.read.id /\ ~s.read.cancelling THEN CancelRead(s) ELSE s
    OBVIOUS
  <2>1. Settles(s, c) /\ Good(c) /\ Shape(c)
    BY CancelSettles, SettlesRefl DEF Settles, Good
  <2> PICK r : r = [c EXCEPT !.is_reading = FALSE]
    OBVIOUS
  <2>2. /\ r.is_reading = FALSE /\ r.is_closing = c.is_closing /\ r.closed = c.closed
        /\ r.saw_eof = c.saw_eof /\ r.rop = c.rop /\ r.record = c.record /\ r.read = c.read
        /\ DOMAIN r = DOMAIN c
    BY <2>1 DEF Shape
  <2>3. Settles(c, r)
    BY <2>1, <2>2 DEF Settles, Good, Closes, Shape, Agree
  <2>4. transport_pause_reading(s) = r
    BY <1>2 DEF transport_pause_reading
  <2> QED BY <2>1, <2>3, <2>4, SettlesTrans
<1> QED BY <1>1, <1>2

(* A set of natural numbers that is not empty has a least one.             *)
LEMMA LeastNatural ==
    ASSUME NEW T, T \subseteq Nat, T # {}
    PROVE  \E x \in T : \A y \in T : x <= y
<1>1. IsWellFoundedOn({p \in Nat \X Nat : p[1] < p[2]}, Nat)
  BY NatLessThanWellFounded DEF OpToRel
<1>2. PICK R : IsWellFoundedOn(R, Nat) /\ R = {p \in Nat \X Nat : p[1] < p[2]}
  BY <1>1
<1>3. PICK x \in T : \A y \in T : ~ (<<y, x>> \in R)
  BY <1>2, WFMin
<1>4. ASSUME NEW y \in T, y < x
      PROVE  <<y, x>> \in R
  <2>1. <<y, x>> \in Nat \X Nat
    OBVIOUS
  <2>2. <<y, x>>[1] < <<y, x>>[2]
    BY <1>4
  <2> QED BY <1>2, <2>1, <2>2
<1>5. ASSUME NEW y \in T
      PROVE  x <= y
  <2>1. x \in Nat /\ y \in Nat /\ ~(y < x)
    BY <1>3, <1>4
  <2> QED BY <2>1
<1> QED BY <1>5

(* So a set that holds 0 and with every number the next one holds them     *)
(* all: induction, with the set in the place of the predicate.             *)
LEMMA SetInduction ==
    ASSUME NEW T, 0 \in T, \A n \in Nat : n \in T => n + 1 \in T
    PROVE  Nat \subseteq T
<1> SUFFICES ASSUME ~(Nat \subseteq T) PROVE FALSE
  OBVIOUS
<1>1. PICK U : U = Nat \ T
  OBVIOUS
<1>2. PICK x \in U : \A y \in U : x <= y
  BY <1>1, LeastNatural
<1>3. x - 1 \in Nat /\ x - 1 \in T
  BY <1>1, <1>2
<1>4. (x - 1) + 1 \in T
  BY <1>3
<1> QED BY <1>1, <1>2, <1>4

(* What AppendBuffers goes through, one buffer after the other.            *)
Appends(s, lens, n, f) ==
    /\ f[0] = [to |-> s, end |-> written]
    /\ \A i \in 1 .. n : f[i] = append_new_buffer_to_write(f[i - 1], lens[i])

(* There is such a sequence of transports for every payload,               *)
LEMMA AppendsExists ==
    ASSUME NEW s, NEW lens \in Seq(Nat)
    PROVE  \E f : DOMAIN f = 0 .. Len(lens) /\ Appends(s, lens, Len(lens), f)
<1> DEFINE T == {n \in Nat : \E f : DOMAIN f = 0 .. n /\ Appends(s, lens, n, f)}
<1>1. 0 \in T
  <2>1. PICK f : f = [i \in 0 .. 0 |-> [to |-> s, end |-> written]]
    OBVIOUS
  <2>2. DOMAIN f = 0 .. 0 /\ Appends(s, lens, 0, f)
    BY <2>1 DEF Appends
  <2> QED BY <2>2
<1>2. ASSUME NEW n \in Nat, n \in T
      PROVE  n + 1 \in T
  <2>1. PICK f : DOMAIN f = 0 .. n /\ Appends(s, lens, n, f)
    BY <1>2
  <2>2. PICK g : g = [i \in 0 .. n + 1 |->
                        IF i <= n THEN f[i]
                        ELSE append_new_buffer_to_write(f[n], lens[n + 1])]
    OBVIOUS
  <2>3. DOMAIN g = 0 .. n + 1
    BY <2>2
  <2>4. g[0] = [to |-> s, end |-> written]
    BY <2>1, <2>2 DEF Appends
  <2>5. ASSUME NEW i \in 1 .. n + 1
        PROVE  g[i] = append_new_buffer_to_write(g[i - 1], lens[i])
    <3>1. i - 1 \in 0 .. n /\ i - 1 \in 0 .. n + 1 /\ i \in 0 .. n + 1
      OBVIOUS
    <3>2. g[i - 1] = f[i - 1]
      BY <2>2, <3>1
    <3>3. CASE i <= n
      <4>1. g[i] = f[i]
        BY <2>2, <3>1, <3>3
      <4>2. f[i] = append_new_buffer_to_write(f[i - 1], lens[i])
        BY <2>1, <3>3 DEF Appends
      <4> QED BY <3>2, <4>1, <4>2
    <3>4. CASE i = n + 1
      <4>1. g[i] = append_new_buffer_to_write(f[n], lens[n + 1])
        BY <2>2, <3>4
      <4>2. i - 1 = n
        BY <3>4
      <4> QED BY <3>2, <3>4, <4>1, <4>2
    <3> QED BY <3>3, <3>4
  <2>6. Appends(s, lens, n + 1, g)
    BY <2>4, <2>5 DEF Appends
  <2> QED BY <2>3, <2>6
<1>3. Nat \subseteq T
  <2> HIDE DEF T
  <2> QED BY <1>1, <1>2, SetInduction
<1> QED BY <1>3

(* and AppendBuffers is its end.                                           *)
LEMMA AppendBuffersIs ==
    ASSUME NEW s, NEW lens \in Seq(Nat)
    PROVE  \E f : /\ Appends(s, lens, Len(lens), f)
                  /\ AppendBuffers(s, lens) = f[Len(lens)]
<1> DEFINE Step(f) == [i \in 0 .. Len(lens) |->
                         IF i = 0 THEN [to |-> s, end |-> written]
                         ELSE append_new_buffer_to_write(f[i - 1], lens[i])]
<1>1. PICK f : DOMAIN f = 0 .. Len(lens) /\ Appends(s, lens, Len(lens), f)
  BY AppendsExists
<1>2. f = Step(f)
  <2>1. f = [i \in 0 .. Len(lens) |-> f[i]]
    BY <1>1
  <2>2. \A i \in 0 .. Len(lens) :
            f[i] = IF i = 0 THEN [to |-> s, end |-> written]
                   ELSE append_new_buffer_to_write(f[i - 1], lens[i])
    BY <1>1 DEF Appends
  <2> QED BY <2>1, <2>2
<1>3. PICK g : g = CHOOSE x : x = Step(x)
  OBVIOUS
<1>4. g = Step(g)
  BY <1>2, <1>3
<1>5. Appends(s, lens, Len(lens), g)
  BY <1>4 DEF Appends
<1>6. AppendBuffers(s, lens) = g[Len(lens)]
  BY <1>3 DEF AppendBuffers
<1> QED BY <1>5, <1>6

(* Buffers are appended.                                                   *)
LEMMA AppendSettles ==
    ASSUME NEW s, Good(s), NEW lens \in Seq(Nat)
    PROVE  Settles(s, AppendBuffers(s, lens).to)
<1>1. PICK f : Appends(s, lens, Len(lens), f) /\ AppendBuffers(s, lens) = f[Len(lens)]
  BY AppendBuffersIs
<1> DEFINE T == {n \in Nat : n <= Len(lens) =>
                    Same(s, f[n].to) /\ DOMAIN f[n].to = DOMAIN s}
<1>2. 0 \in T
  BY <1>1 DEF Appends, Same
<1>3. ASSUME NEW n \in Nat, n \in T
      PROVE  n + 1 \in T
  <2> SUFFICES ASSUME n + 1 <= Len(lens)
               PROVE  Same(s, f[n + 1].to) /\ DOMAIN f[n + 1].to = DOMAIN s
    OBVIOUS
  <2>1. PICK a : a = f[n]
    OBVIOUS
  <2>2. Same(s, a.to) /\ DOMAIN a.to = DOMAIN s
    BY <1>3, <2>1
  <2>3. f[n + 1] = append_new_buffer_to_write(a, lens[n + 1])
    BY <1>1, <2>1 DEF Appends
  <2> QED BY <2>2, <2>3 DEF append_new_buffer_to_write, Same, Good, Shape
<1>4. Nat \subseteq T
  <2> HIDE DEF T
  <2> QED BY <1>2, <1>3, SetInduction
<1>5. Same(s, f[Len(lens)].to) /\ DOMAIN f[Len(lens)].to = DOMAIN s
  BY <1>4
<1> QED BY <1>1, <1>5, EditSettles

(* The marks are looked at, a chunk is submitted.                          *)
LEMMA SubmitSettles ==
    ASSUME NEW s, Good(s)
    PROVE  /\ Settles(s, MaybePause(s))
           /\ Settles(s, submit_next_chunk(s))
<1>1. Shape(s)
  BY DEF Good
<1>2. Settles(s, MaybePause(s))
  <2> PICK r : r = MaybePause(s)
    OBVIOUS
  <2>1. Same(s, r) /\ DOMAIN r = DOMAIN s
    BY <1>1 DEF MaybePause, Same, Shape
  <2> QED BY <2>1, EditSettles
<1>3. Settles(s, submit_next_chunk(s))
  <2> PICK r : r = submit_next_chunk(s)
    OBVIOUS
  <2>1. Same(s, r) /\ DOMAIN r = DOMAIN s
    BY <1>1 DEF submit_next_chunk, Same, Shape
  <2> QED BY <2>1, EditSettles
<1> QED BY <1>2, <1>3

(* The next chunk, flushed or left staged.                                 *)
LEMMA NextChunkSettles ==
    ASSUME NEW s, Good(s), NextChunk(s)
    PROVE  Settles(s, t')
<1> PICK c : c = submit_next_chunk(s)
  OBVIOUS
<1>1. Settles(s, c) /\ Good(c)
  BY SubmitSettles DEF Settles
<1>2. Settles(s, Flush(c))
  BY <1>1, FlushSettles, SettlesTrans
<1> PICK r : r = [c EXCEPT !.write.cancelling = FALSE]
  OBVIOUS
<1>3. Same(c, r) /\ DOMAIN r = DOMAIN c
  BY <1>1 DEF Good, Shape, Same
<1>4. Settles(s, r)
  BY <1>1, <1>3, EditSettles, SettlesTrans
<1>5. t' = s \/ t' = Flush(c) \/ t' = r
  BY DEF NextChunk
<1> QED BY <1>2, <1>4, <1>5, SettlesRefl

(* The first statements of a write callback.                               *)
LEMMA WriteStartsSettles ==
    ASSUME NEW s, Good(s), NEW n
    PROVE  Settles(s, WriteStarts(s, n))
<1>1. PICK s1 : s1 = [s EXCEPT !.write.id = FALSE, !.write.cancelling = FALSE,
                             !.in_flight = FALSE]
  OBVIOUS
<1>2. Same(s, s1) /\ DOMAIN s1 = DOMAIN s
  BY <1>1 DEF Good, Shape, Same
<1>3. Settles(s, s1) /\ Good(s1)
  BY <1>2, EditSettles
<1>4. PICK s2 : s2 = [s1 EXCEPT !.buffer_size = @ - (IF n < @ THEN n ELSE @),
                              !.total = @ + n]
  OBVIOUS
<1>5. Same(s1, s2) /\ DOMAIN s2 = DOMAIN s1
  BY <1>3, <1>4 DEF Good, Shape, Same
<1>6. Settles(s1, s2) /\ Good(s2)
  BY <1>3, <1>5, EditSettles
<1>7. PICK s3 : s3 = [s2 EXCEPT !.offset = @ + n]
  OBVIOUS
<1>8. Same(s2, s3) /\ DOMAIN s3 = DOMAIN s2
  BY <1>6, <1>7 DEF Good, Shape, Same
<1>9. Settles(s2, s3)
  BY <1>6, <1>8, EditSettles
<1>10. PICK s4 : s4 = [s2 EXCEPT !.index = @ + 1, !.offset = 0, !.exported = @ - 1]
  OBVIOUS
<1>11. Same(s2, s4) /\ DOMAIN s4 = DOMAIN s2
  BY <1>6, <1>10 DEF Good, Shape, Same
<1>12. Settles(s2, s4)
  BY <1>6, <1>11, EditSettles
<1>13. WriteStarts(s, n) = s1 \/ WriteStarts(s, n) = s3 \/ WriteStarts(s, n) = s4
  BY <1>1, <1>4, <1>7, <1>10 DEF WriteStarts
<1> QED BY <1>3, <1>6, <1>9, <1>12, <1>13, SettlesTrans

(* A write failed.                                                         *)
LEMMA WriteFailsSettles ==
    ASSUME NEW s, Good(s)
    PROVE  Settles(s, WriteFails(s))
<1>1. PICK e : e = [s EXCEPT !.broken = TRUE,
                           !.failed = @ \/ (~s.write.is_closing /\ ~s.is_closing)]
  OBVIOUS
<1>2. Same(s, e) /\ DOMAIN e = DOMAIN s
  BY <1>1 DEF Good, Shape, Same
<1>3. Settles(s, e) /\ Good(e)
  BY <1>2, EditSettles
<1>4. PICK c : c = IF ~s.write.is_closing /\ s.write.lost_callback
                 THEN close_transports(e, "error") ELSE e
  OBVIOUS
<1>5. Settles(s, c) /\ Good(c)
  <2>1. Settles(e, close_transports(e, "error")) /\ Settles(e, e)
    BY <1>3, CloseTransportsSettles, SettlesRefl
  <2> QED BY <1>3, <1>4, <2>1, SettlesTrans DEF Settles
<1>6. PICK d : d = [c EXCEPT !.write.is_closing = TRUE, !.write.closed = TRUE]
  OBVIOUS
<1>7. Same(c, d) /\ DOMAIN d = DOMAIN c
  BY <1>5, <1>6 DEF Good, Shape, Same
<1>8. Settles(c, d) /\ Good(d)
  BY <1>5, <1>7, EditSettles
<1>9. WriteFails(s) = maybe_close_fd(d)
  BY <1>1, <1>4, <1>6 DEF WriteFails
<1> QED BY <1>5, <1>8, <1>9, MaybeCloseSettles, SettlesTrans

(* Everything is written.                                                  *)
LEMMA WriteDrainedSettles ==
    ASSUME NEW s, Good(s)
    PROVE  Settles(s, WriteDrained(s))
<1>1. PICK s1 : s1 = [s EXCEPT !.exported = @ - (Len(s.bufs) - s.index),
                             !.bufs = <<>>, !.index = 0, !.offset = 0,
                             !.eof_pending = FALSE,
                             !.fin = IF s.eof_pending THEN "staged" ELSE @,
                             !.total = 0]
  OBVIOUS
<1>2. Same(s, s1) /\ DOMAIN s1 = DOMAIN s
  BY <1>1 DEF Good, Shape, Same
<1>3. Settles(s, s1) /\ Good(s1)
  BY <1>2, EditSettles
<1>4. PICK d : d = [s1 EXCEPT !.write.closed = TRUE]
  OBVIOUS
<1>5. Same(s1, d) /\ DOMAIN d = DOMAIN s1
  BY <1>3, <1>4 DEF Good, Shape, Same
<1>6. Settles(s1, d) /\ Good(d)
  BY <1>3, <1>5, EditSettles
<1>7. Settles(s, maybe_close_fd(d))
  BY <1>3, <1>6, MaybeCloseSettles, SettlesTrans
<1>8. WriteDrained(s) = maybe_close_fd(d) \/ WriteDrained(s) = s1
  BY <1>1, <1>4 DEF WriteDrained
<1> QED BY <1>3, <1>7, <1>8

(* resume_writing raised.                                                  *)
LEMMA ResumeRaisesSettles ==
    ASSUME NEW s, Good(s)
    PROVE  Settles(s, ResumeRaises(s))
<1>1. PICK m : m = maybe_close_fd(s)
  OBVIOUS
<1>2. Settles(s, m) /\ Good(m)
  BY <1>1, MaybeCloseSettles DEF Settles
<1>3. PICK e : e = [m EXCEPT !.broken = TRUE,
                           !.failed = @ \/ (m.write.lost_callback /\ ~m.is_closing)]
  OBVIOUS
<1>4. Same(m, e) /\ DOMAIN e = DOMAIN m
  BY <1>2, <1>3 DEF Good, Shape, Same
<1>5. Settles(m, e) /\ Good(e)
  BY <1>2, <1>4, EditSettles
<1>6. PICK c : c = IF m.write.lost_callback THEN close_transports(e, "error") ELSE e
  OBVIOUS
<1>7. Settles(e, c) /\ Good(c)
  BY <1>5, <1>6, CloseTransportsSettles, SettlesRefl DEF Settles
<1>8. PICK d : d = [c EXCEPT !.write.is_closing = TRUE, !.write.closed = TRUE,
                           !.write.cancelling = FALSE]
  OBVIOUS
<1>9. Same(c, d) /\ DOMAIN d = DOMAIN c
  BY <1>7, <1>8 DEF Good, Shape, Same
<1>10. Settles(c, d) /\ Good(d)
  BY <1>7, <1>9, EditSettles
<1>11. ResumeRaises(s) = maybe_close_fd(d)
  BY <1>1, <1>3, <1>6, <1>8 DEF ResumeRaises
<1> QED BY <1>2, <1>5, <1>7, <1>10, <1>11, MaybeCloseSettles, SettlesTrans

(* write_eof.                                                              *)
LEMMA WriteEofSettles ==
    ASSUME NEW s, Good(s)
    PROVE  Settles(s, transport_write_eof(s))
<1> PICK p, f : p = [s EXCEPT !.eof_pending = TRUE] /\ f = [s EXCEPT !.fin = "staged"]
  OBVIOUS
<1>1. /\ Same(s, p) /\ DOMAIN p = DOMAIN s
      /\ Same(s, f) /\ DOMAIN f = DOMAIN s
  BY DEF Good, Shape, Same
<1>2. Settles(s, p) /\ Good(p) /\ Settles(s, f) /\ Good(f)
  BY <1>1, EditSettles
<1>3. Settles(s, write_close(p)) /\ Settles(s, write_close(f))
  BY <1>2, WriteCloseSettles, SettlesTrans
<1>4. \/ transport_write_eof(s) = s
      \/ transport_write_eof(s) = write_close(p)
      \/ transport_write_eof(s) = write_close(f)
  BY DEF transport_write_eof, queue_eof
<1> QED BY <1>3, <1>4, SettlesRefl

-----------------------------------------------------------------------------
(* Operators of stream/read.zig and read_transport.zig.                    *)

(* The read that is in the ring has its id.                                *)
Named(s) == s.rop.at # "none" => s.read.id \/ s.read.closed

(* A read is started only when there is none in the ring.                  *)
LEMMA QueueReadArms ==
    ASSUME NEW s, Good(s), Agree(s), Named(s),
           NEW r, r = queue_read_operation(s)
    PROVE  /\ Good(r) /\ Agree(r) /\ Named(r)
           /\ r.is_reading /\ ~r.read.is_closing => r.read.id
           /\ r.is_reading = s.is_reading /\ r.is_closing = s.is_closing
           /\ r.closed = s.closed /\ r.record = s.record /\ r.saw_eof = s.saw_eof
           /\ r.read.closed = s.read.closed
           /\ r.read.is_closing = s.read.is_closing
           /\ s.read.id => r.read.id
           /\ \/ r.rop = s.rop
              \/ /\ s.rop.at = "none" /\ ~s.read.is_closing /\ ~s.read.id
                 /\ r.rop.at = "staged" /\ r.read.id
<1>1. CASE ~s.is_reading \/ s.read.is_closing \/ s.read.id
  <2>1. r = s
    BY <1>1 DEF queue_read_operation
  <2> QED BY <1>1, <2>1
<1>2. CASE ~(~s.is_reading \/ s.read.is_closing \/ s.read.id)
  <2>1. r = [s EXCEPT !.read.id = TRUE, !.rop = [NoOp EXCEPT !.at = "staged"]]
    BY <1>2 DEF queue_read_operation, perform
  <2>2. Shape(s)
    BY DEF Good
  <2>3. /\ r.is_reading = s.is_reading /\ r.is_closing = s.is_closing /\ r.closed = s.closed
        /\ r.saw_eof = s.saw_eof /\ r.record = s.record
        /\ r.rop = [NoOp EXCEPT !.at = "staged"] /\ r.read = [s.read EXCEPT !.id = TRUE]
        /\ DOMAIN r = DOMAIN s
    BY <2>1, <2>2 DEF Shape
  <2>4. r.rop.at = "staged" /\ "at" \in DOMAIN r.rop /\ "res" \in DOMAIN r.rop
    BY <2>3 DEF NoOp
  <2>5. /\ r.read.id /\ r.read.closed = s.read.closed
        /\ r.read.is_closing = s.read.is_closing
        /\ r.read.lost_callback = s.read.lost_callback /\ DOMAIN r.read = DOMAIN s.read
    BY <2>2, <2>3 DEF Shape
  <2>6. Shape(r)
    BY <2>2, <2>3, <2>4, <2>5 DEF Shape
  <2>7. s.rop.at = "none"
    BY <1>2 DEF Named, Good
  <2> QED BY <1>2, <2>3, <2>4, <2>5, <2>6, <2>7 DEF Good, Agree, Named
<1> QED BY <1>1, <1>2

(* The read callback after the stream's part: a read side that closes is   *)
(* closed, and so is one whose read failed.                                *)
LEMMA ReadReturnsSettles ==
    ASSUME NEW s, Good(s), NEW res
    PROVE  /\ Settles(s, ReadReturns(s, res))
           /\ res = "error" => ReadReturns(s, res).read.is_closing
<1>1. CASE s.read.is_closing
  <2> PICK c : c = [s EXCEPT !.read.closed = TRUE]
    OBVIOUS
  <2>1. /\ c.is_reading = s.is_reading /\ c.is_closing = s.is_closing /\ c.closed = s.closed
        /\ c.saw_eof = s.saw_eof /\ c.rop = s.rop /\ c.record = s.record
        /\ c.read = [s.read EXCEPT !.closed = TRUE] /\ DOMAIN c = DOMAIN s
    BY DEF Good, Shape
  <2>2. /\ c.read.id = s.read.id /\ c.read.closed
        /\ c.read.is_closing = s.read.is_closing
        /\ DOMAIN c.read = DOMAIN s.read
    BY <2>1 DEF Good, Shape
  <2>3. Settles(s, c) /\ Good(c)
    BY <1>1, <2>1, <2>2 DEF Settles, Good, Closes, Agree, Shape
  <2>4. Settles(s, maybe_close_fd(c))
    BY <2>3, MaybeCloseSettles, SettlesTrans
  <2>5. ReadReturns(s, res) = maybe_close_fd(c)
    BY <1>1 DEF ReadReturns
  <2> QED BY <1>1, <2>4, <2>5 DEF Settles, Closes
<1>2. CASE ~s.read.is_closing /\ res # "error"
  BY <1>2, SettlesRefl DEF ReadReturns
<1>3. CASE ~s.read.is_closing /\ res = "error"
  <2> PICK c : c = [s EXCEPT !.read.is_closing = TRUE, !.read.closed = TRUE,
                             !.broken = TRUE, !.failed = @ \/ ~s.is_closing]
    OBVIOUS
  <2>1. /\ c.is_reading = s.is_reading /\ c.is_closing = s.is_closing /\ c.closed = s.closed
        /\ c.saw_eof = s.saw_eof /\ c.rop = s.rop /\ c.record = s.record
        /\ DOMAIN c = DOMAIN s
    BY DEF Good, Shape
  <2>2. /\ c.read.id = s.read.id /\ c.read.closed /\ c.read.is_closing
        /\ DOMAIN c.read = DOMAIN s.read
    BY DEF Good, Shape
  <2>3. Good(c) /\ Closes(s, c)
    BY <2>1, <2>2 DEF Good, Closes, Shape
  <2>4. ReadReturns(s, res) = close_transports(c, "error")
    BY <1>3 DEF ReadReturns, Good
  <2> PICK r : r = close_transports(c, "error")
    OBVIOUS
  <2>5. Good(r) /\ Closes(c, r) /\ r.is_closing /\ r.read.is_closing
    BY <2>3, CloseTransportsCloses
  <2>6. Closes(s, r)
    BY <2>3, <2>5, ClosesTrans
  <2> QED BY <2>4, <2>5, <2>6 DEF Settles, Agree
<1> QED BY <1>1, <1>2, <1>3

(* The read callback raised: the read side is closed, and forgets its id.  *)
LEMMA ReadRaisesCloses ==
    ASSUME NEW s, Good(s), Agree(s), NEW r, r = ReadRaises(s)
    PROVE  /\ Good(r) /\ Agree(r) /\ r.read.closed
           /\ r.rop.res = s.rop.res
           /\ r.rop.at = s.rop.at \/ (s.rop.at = "staged" /\ r.rop.at = "flight")
           /\ r.saw_eof = s.saw_eof
           /\ r.record = s.record \/ (s.record # "none" /\ r.record = "stale")
<1>1. PICK m : m = maybe_close_fd(s)
  OBVIOUS
<1>2. Settles(s, m) /\ Good(m)
  BY <1>1, MaybeCloseSettles DEF Settles
<1>3. PICK e : e = [m EXCEPT !.broken = TRUE,
                             !.failed = @ \/ (m.read.lost_callback /\ ~m.is_closing)]
  OBVIOUS
<1>4. Same(m, e) /\ DOMAIN e = DOMAIN m
  BY <1>2, <1>3 DEF Good, Shape, Same
<1>5. Settles(m, e) /\ Good(e)
  BY <1>2, <1>4, EditSettles
<1>6. PICK c : c = IF m.read.lost_callback THEN close_transports(e, "error") ELSE e
  OBVIOUS
<1>7. Settles(e, c) /\ Good(c)
  BY <1>5, <1>6, CloseTransportsSettles, SettlesRefl DEF Settles
<1>8. c.read.is_closing
  <2>1. CASE m.read.lost_callback
    BY <1>5, <1>6, <2>1, CloseTransportsCloses
  <2>2. CASE ~m.read.lost_callback
    BY <1>2, <1>4, <1>6, <2>2 DEF Same, Good
  <2> QED BY <2>1, <2>2
<1>9. Settles(s, c)
  BY <1>2, <1>5, <1>7, SettlesTrans
<1>10. PICK d : d = [c EXCEPT !.read.is_closing = TRUE, !.read.closed = TRUE,
                              !.read.id = FALSE, !.read.cancelling = FALSE]
  OBVIOUS
<1>11. /\ d.is_reading = c.is_reading /\ d.is_closing = c.is_closing /\ d.closed = c.closed
       /\ d.saw_eof = c.saw_eof /\ d.rop = c.rop /\ d.record = c.record
       /\ DOMAIN d = DOMAIN c
  BY <1>7, <1>10 DEF Good, Shape
<1>12. d.read.closed /\ d.read.is_closing /\ DOMAIN d.read = DOMAIN c.read
  BY <1>7, <1>10 DEF Good, Shape
<1>13. Good(d) /\ Agree(d)
  BY <1>7, <1>8, <1>9, <1>11, <1>12 DEF Good, Agree, Shape, Settles
<1>14. Settles(d, maybe_close_fd(d))
  BY <1>13, MaybeCloseSettles
<1>15. r = maybe_close_fd(d)
  BY <1>1, <1>3, <1>6, <1>10 DEF ReadRaises
<1> QED BY <1>9, <1>11, <1>12, <1>13, <1>14, <1>15 DEF Settles, Closes

-----------------------------------------------------------------------------
(* Steps that are not of the read side.                                    *)

(* What such a step does.                                                  *)
Plain ==
    /\ Settles(t, t')
    /\ ready'.read = ready.read
    /\ UNCHANGED <<buffer, given, taken>>
    /\ phase' = "poll" => ready' = NothingReady
    /\ phase = "data_callback" => phase' = phase
    /\ phase = "batch" <=> phase' = "batch"
    /\ phase = "batch" => OthersFirst \/ t'.record = t.record

(* It keeps the transport armed.                                           *)
LEMMA PlainKeepsArmed ==
    ASSUME ArmedInv, Plain
    PROVE  ArmedInv'
<1>1. Open' => Open
  BY DEF Plain, Settles, Closes, Open
<1>2. Good(t)' /\ Agree(t)'
  BY DEF Plain, Settles, ArmedInv
<1> QED BY <1>1, <1>2 DEF ArmedInv, Plain, Settles, Closes

(* It neither gives nor loses a chunk.                                     *)
LEMMA PlainKeepsChunks ==
    ASSUME OthersFirst = FALSE, ChunkInv, Plain
    PROVE  ChunkInv'
<1>1. t'.record = t.record
  BY DEF ChunkInv, Plain, Settles, Closes
<1>2. Open' => Open
  BY DEF Plain, Settles, Closes, Open
<1>3. /\ t'.rop.at # "none" => t.rop.at # "none"
      /\ t'.rop.at = "done" <=> t.rop.at = "done"
      /\ t'.rop.res = t.rop.res
  BY DEF Plain, Settles, Closes
<1>4. Undelivered' = Undelivered
  BY <1>1, <1>3 DEF Undelivered, Plain
<1>5. Deliverable' => Deliverable
  BY <1>1, <1>2, <1>3 DEF Deliverable, Plain
<1> QED BY <1>1, <1>3, <1>4, <1>5 DEF ChunkInv, Plain

(* A method that changes the transport by an operator that settles.        *)
LEMMA MethodIsPlain ==
    ASSUME NEW s, ArmedInv, Settles(t, s), Method(s)
    PROVE  Plain
BY DEF Plain, Method, InPython, Calls, ArmedInv

(* The methods but resume_reading.                                         *)
LEMMA MethodsArePlain ==
    ASSUME ArmedInv,
           \/ Close \/ Abort \/ ForceClose \/ PauseReading \/ WriteEof \/ OtherCancel
           \/ \E lens \in Payloads, raised \in BOOLEAN : Write(lens, raised)
           \/ \E l \in Limits : SetLimits(l)
    PROVE  Plain
<1>1. Good(t) /\ Agree(t)
  BY DEF ArmedInv
<1>2. CASE Close
  BY <1>1, <1>2, CloseSettles, MethodIsPlain DEF Close
<1>3. CASE Abort
  BY <1>1, <1>3, ForceCloseSettles, MethodIsPlain DEF Abort
<1>4. CASE ForceClose
  BY <1>1, <1>4, ForceCloseSettles, MethodIsPlain DEF ForceClose
<1>5. CASE PauseReading
  BY <1>1, <1>5, PauseSettles, MethodIsPlain DEF PauseReading
<1>6. CASE WriteEof
  BY <1>1, <1>6, WriteEofSettles, MethodIsPlain DEF WriteEof
<1>7. CASE OtherCancel
  BY <1>1, <1>7, FlushSettles, MethodIsPlain DEF OtherCancel
<1>8. ASSUME NEW lens \in Payloads, NEW raised \in BOOLEAN, Write(lens, raised)
      PROVE  Plain
  <2>1. PICK s : s = AppendBuffers(t, lens).to
    OBVIOUS
  <2>2. Settles(t, s) /\ Good(s)
    BY <1>1, <2>1, AppendSettles, StreamAssumption DEF Settles
  <2>3. Settles(t, MaybePause(s))
    BY <2>2, SubmitSettles, SettlesTrans
  <2>4. t' = s \/ t' = MaybePause(s)
    BY <1>8, <2>1 DEF Write
  <2>5. Settles(t, t')
    BY <2>2, <2>3, <2>4
  <2> QED BY <1>8, <2>5 DEF Write, Plain, InPython, Calls, ArmedInv
<1>9. ASSUME NEW l \in Limits, SetLimits(l)
      PROVE  Plain
  <2>1. PICK s : s = [t EXCEPT !.high = l[1], !.low = l[2]]
    OBVIOUS
  <2>2. Same(t, s) /\ DOMAIN s = DOMAIN t
    BY <1>1, <2>1 DEF Good, Shape, Same
  <2>3. Settles(t, s) /\ Good(s)
    BY <1>1, <2>2, EditSettles
  <2>4. PICK p : p = MaybePause(s)
    OBVIOUS
  <2>5. Settles(s, p) /\ Good(p)
    BY <2>3, <2>4, SubmitSettles DEF Settles
  <2>6. PICK r : r = [p EXCEPT !.is_writing = @ \/ t.buffer_size <= l[2]]
    OBVIOUS
  <2>7. Same(p, r) /\ DOMAIN r = DOMAIN p
    BY <2>5, <2>6 DEF Good, Shape, Same
  <2>8. Settles(p, r)
    BY <2>5, <2>7, EditSettles
  <2>9. Settles(t, r)
    BY <2>3, <2>5, <2>8, SettlesTrans
  <2>10. Method(r)
    BY <1>9, <2>1, <2>4, <2>6 DEF SetLimits
  <2> QED BY <2>9, <2>10, MethodIsPlain
<1> QED BY <1>2, <1>3, <1>4, <1>5, <1>6, <1>7, <1>8, <1>9

(* The loop's own steps, the write callback, and the kernel's writes.      *)
LEMMA LoopStepsArePlain ==
    ASSUME ArmedInv,
           \/ Tick \/ DataReturns \/ WriteCompleted \/ ResumeReturns
           \/ ResumeWritingRaises \/ ConnectionLost
           \/ \E res \in {"data", "eof", "error", "canceled"} : KernelWrites(res)
    PROVE  Plain
<1>1. Good(t) /\ Shape(t)
  BY DEF ArmedInv, Good
<1>2. CASE Tick
  <2>1. PICK s : s = IF NeedsSubmission(t) THEN submit_next_chunk(t) ELSE t
    OBVIOUS
  <2>2. Settles(t, s) /\ Good(s)
    BY <1>1, <2>1, SubmitSettles, SettlesRefl DEF Settles
  <2>3. Settles(t, t')
    BY <1>2, <2>1, <2>2, FlushSettles, SettlesTrans DEF Tick
  <2> QED BY <1>2, <2>3 DEF Tick, Plain
<1>3. CASE DataReturns
  <2>1. Settles(t, t')
    BY <1>1, <1>3, SettlesRefl DEF DataReturns
  <2> QED BY <1>3, <2>1 DEF DataReturns, Plain
<1>4. CASE WriteCompleted
  <2>1. PICK n : n = IF ready.write.res = "data" THEN ready.write.len ELSE 0
    OBVIOUS
  <2>2. PICK s : s = WriteStarts(t, n)
    OBVIOUS
  <2>3. Settles(t, s) /\ Good(s)
    BY <1>1, <2>2, WriteStartsSettles DEF Settles
  <2>4. PICK d : d = IF s.buffer_size = 0 THEN WriteDrained(s) ELSE s
    OBVIOUS
  <2>5. Settles(s, d) /\ Good(d)
    BY <2>3, <2>4, WriteDrainedSettles, SettlesRefl DEF Settles
  <2>6. Settles(t, d)
    BY <2>3, <2>5, SettlesTrans
  <2>7. PICK m : m = maybe_close_fd(d)
    OBVIOUS
  <2>8. Settles(d, m) /\ Good(m)
    BY <2>5, <2>7, MaybeCloseSettles DEF Settles
  <2>9. Settles(t, m)
    BY <2>6, <2>8, SettlesTrans
  <2>10. PICK w : w = [d EXCEPT !.is_writing = TRUE]
    OBVIOUS
  <2>11. Same(d, w) /\ DOMAIN w = DOMAIN d
    BY <2>5, <2>10 DEF Good, Shape, Same
  <2>12. Settles(d, w)
    BY <2>5, <2>11, EditSettles
  <2>13. Settles(t, w)
    BY <2>6, <2>12, SettlesTrans
  <2>14. Settles(t, WriteFails(s))
    BY <2>3, WriteFailsSettles, SettlesTrans
  <2>15. t' = WriteFails(s) \/ t' = s \/ t' = w \/ NextChunk(m)
    BY <1>4, <2>1, <2>2, <2>4, <2>7, <2>10 DEF WriteCompleted
  <2>16. NextChunk(m) => Settles(t, t')
    BY <2>8, <2>9, NextChunkSettles, SettlesTrans
  <2>17. Settles(t, t')
    BY <2>3, <2>13, <2>14, <2>15, <2>16
  <2>18. /\ phase = "run" /\ phase' \in {"run", "resume_end", "resume_drain"}
         /\ ready' = [ready EXCEPT !.write = NoCallback]
         /\ UNCHANGED <<buffer, given, taken>>
    BY <1>4 DEF WriteCompleted
  <2>19. ready'.read = ready.read
    BY <2>18 DEF ArmedInv
  <2> QED BY <2>17, <2>18, <2>19 DEF Plain
<1>5. CASE ResumeReturns
  <2>1. PICK m : m = maybe_close_fd(t)
    OBVIOUS
  <2>2. Settles(t, m) /\ Good(m)
    BY <1>1, <2>1, MaybeCloseSettles DEF Settles
  <2>3. NextChunk(m) \/ t' = m
    BY <1>5, <2>1 DEF ResumeReturns
  <2>4. Settles(t, t')
    BY <2>2, <2>3, NextChunkSettles, SettlesTrans
  <2> QED BY <1>5, <2>4 DEF ResumeReturns, Plain
<1>6. CASE ResumeWritingRaises
  <2>1. Settles(t, t')
    BY <1>1, <1>6, ResumeRaisesSettles DEF ResumeWritingRaises
  <2> QED BY <1>6, <2>1 DEF ResumeWritingRaises, Plain
<1>7. CASE ConnectionLost
  <2>1. PICK s : s = [t EXCEPT !.called = @ + 1]
    OBVIOUS
  <2>2. Same(t, s) /\ DOMAIN s = DOMAIN t
    BY <1>1, <2>1 DEF Shape, Same
  <2>3. Settles(t, t')
    BY <1>1, <1>7, <2>1, <2>2, EditSettles DEF ConnectionLost
  <2>4. ready'.read = ready.read
    BY <1>7 DEF ConnectionLost
  <2> QED BY <1>7, <2>3, <2>4 DEF ConnectionLost, Plain
<1>8. ASSUME NEW res \in {"data", "eof", "error", "canceled"}, KernelWrites(res)
      PROVE  Plain
  <2>1. Same(t, t') /\ DOMAIN t' = DOMAIN t
    BY <1>1, <1>8 DEF KernelWrites, Shape, Same
  <2>2. Settles(t, t') /\ t'.record = t.record
    BY <1>1, <2>1, EditSettles DEF Same
  <2> QED BY <1>8, <2>2 DEF KernelWrites, Plain, ArmedInv
<1> QED BY <1>2, <1>3, <1>4, <1>5, <1>6, <1>7, <1>8

-----------------------------------------------------------------------------
(* Steps of the read side.  Each lemma is about one action.                *)

(* A read is started if there is none, and then the transport settles.     *)
LEMMA ArmsAgain ==
    ASSUME ArmedInv, NEW s, Good(s), Agree(s), Named(s),
           s.rop = t.rop, s.is_closing = t.is_closing, s.closed = t.closed,
           s.record = t.record, s.saw_eof = t.saw_eof,
           NEW q, q = queue_read_operation(s), Settles(q, t')
    PROVE  /\ Good(t') /\ Agree(t') /\ Named(t')
           /\ Open' => Open
           /\ Open' /\ t'.is_reading => t'.read.id
           /\ t'.saw_eof = t.saw_eof
           /\ t'.record = t.record \/ (t.record # "none" /\ t'.record = "stale")
           /\ s.read.id \/ s.read.closed => t'.read.id \/ t'.read.closed
           /\ \/ t'.rop.res = t.rop.res /\ t'.rop.at = t.rop.at
              \/ t'.rop.res = t.rop.res /\ t.rop.at = "staged" /\ t'.rop.at = "flight"
              \/ /\ t.rop.at = "none" /\ t'.rop.at \in {"staged", "flight"}
                 /\ Open /\ ~s.read.id
<1>1. /\ Good(q) /\ Agree(q) /\ Named(q)
      /\ q.is_reading /\ ~q.read.is_closing => q.read.id
      /\ q.is_closing = s.is_closing /\ q.closed = s.closed
      /\ q.record = s.record /\ q.saw_eof = s.saw_eof
      /\ q.read.closed = s.read.closed
      /\ s.read.id => q.read.id
      /\ \/ q.rop = s.rop
         \/ /\ s.rop.at = "none" /\ ~s.read.is_closing /\ ~s.read.id
            /\ q.rop.at = "staged" /\ q.read.id
  BY QueueReadArms
<1>2. Good(t') /\ Agree(t')
  BY <1>1 DEF Settles
<1>3. Open' => Open
  BY <1>1 DEF Open, Settles, Closes
<1>4. Open' /\ t'.is_reading => t'.read.id
  BY <1>1, <1>2 DEF Open, Settles, Closes, Agree
<1>5. Named(t')
  BY <1>1 DEF Named, Settles, Closes
<1>6. ~s.read.is_closing => Open
  BY DEF Agree, Open
<1> QED BY <1>1, <1>2, <1>3, <1>4, <1>5, <1>6 DEF Settles, Closes

(* The same with nothing else under way: in resume_reading, and when       *)
(* data_received returned to the read callback.                            *)
LEMMA RearmKeeps ==
    ASSUME ArmedInv, NEW s, Good(s), Agree(s), s.read = t.read,
           s.rop = t.rop, s.is_closing = t.is_closing, s.closed = t.closed,
           s.record = t.record, s.saw_eof = t.saw_eof,
           NEW q, q = queue_read_operation(s), Settles(q, t'),
           ready' = ready, phase' \in {phase, "run"}, UNCHANGED <<buffer, given, taken>>
    PROVE  ArmedInv' /\ (phase # "batch" /\ ChunkInv => ChunkInv')
<1>1. Named(s)
  BY DEF ArmedInv, Named
<1>2. /\ Good(t') /\ Agree(t') /\ Named(t')
      /\ Open' => Open
      /\ Open' /\ t'.is_reading => t'.read.id
      /\ t'.saw_eof = t.saw_eof
      /\ t'.record = t.record \/ (t.record # "none" /\ t'.record = "stale")
      /\ s.read.id \/ s.read.closed => t'.read.id \/ t'.read.closed
      /\ \/ t'.rop.res = t.rop.res /\ t'.rop.at = t.rop.at
         \/ t'.rop.res = t.rop.res /\ t.rop.at = "staged" /\ t'.rop.at = "flight"
         \/ /\ t.rop.at = "none" /\ t'.rop.at \in {"staged", "flight"}
            /\ Open /\ ~s.read.id
  BY <1>1, ArmsAgain
<1>3. ~s.read.id /\ Open => ~(ready.read.res # "none" /\ ~ready.read.batch)
  BY DEF ArmedInv, Good, Agree, Open
<1>4. ArmedInv'
  BY <1>2, <1>3 DEF ArmedInv, Named
<1>5. ASSUME phase # "batch", ChunkInv
      PROVE  ChunkInv'
  <2>1. t'.record = "none" /\ t.record = "none"
    BY <1>2, <1>5 DEF ChunkInv
  <2>2. Undelivered' = Undelivered
    BY <1>2, <2>1 DEF Undelivered
  <2>3. Deliverable' => Deliverable
    BY <1>2, <2>1 DEF Deliverable
  <2> QED BY <1>5, <2>1, <2>2, <2>3 DEF ChunkInv
<1> QED BY <1>4, <1>5

(* resume_reading.                                                         *)
LEMMA ResumeReadingKeeps ==
    ASSUME ArmedInv, ResumeReading
    PROVE  ArmedInv' /\ (OthersFirst = FALSE /\ ChunkInv => ChunkInv')
<1>1. CASE t.closed
  <2>1. Settles(t, transport_resume_reading(t))
    BY <1>1, SettlesRefl DEF transport_resume_reading, ArmedInv
  <2>2. Plain
    BY <2>1, MethodIsPlain DEF ResumeReading
  <2> QED BY <2>2, PlainKeepsArmed, PlainKeepsChunks
<1>2. CASE ~t.closed
  <2>1. PICK s : s = [t EXCEPT !.is_reading = TRUE]
    OBVIOUS
  <2>2. /\ s.is_reading /\ s.is_closing = t.is_closing /\ s.closed = t.closed
        /\ s.record = t.record /\ s.saw_eof = t.saw_eof /\ s.read = t.read
        /\ s.rop = t.rop /\ DOMAIN s = DOMAIN t
    BY <2>1 DEF ArmedInv, Good, Shape
  <2>3. Good(s) /\ Agree(s) /\ Named(s)
    BY <2>2 DEF ArmedInv, Good, Shape, Agree, Named
  <2>4. PICK q : q = queue_read_operation(s)
    OBVIOUS
  <2>5. t' = q
    BY <1>2, <2>1, <2>4 DEF ResumeReading, Method, transport_resume_reading
  <2>6. Settles(q, t')
    BY <2>3, <2>4, <2>5, QueueReadArms, SettlesRefl
  <2>7. /\ ready' = ready /\ phase' = phase
        /\ UNCHANGED <<buffer, given, taken>>
        /\ phase = "batch" => OthersFirst
    BY DEF ResumeReading, Method, InPython, Calls
  <2>8. ArmedInv' /\ (phase # "batch" /\ ChunkInv => ChunkInv')
    BY <2>2, <2>3, <2>4, <2>6, <2>7, RearmKeeps
  <2> QED BY <2>7, <2>8
<1> QED BY <1>1, <1>2

(* fetch_completed_tasks.                                                  *)
LEMMA HarvestKeeps ==
    ASSUME ArmedInv, NEW full \in BOOLEAN, Harvest(full)
    PROVE  ArmedInv' /\ (ChunkInv => ChunkInv')
<1> DEFINE got == t.rop.at = "done"
           batch == got /\ t.rop.res = "data" /\ ~full
<1>1. PICK t1 : t1 = [t EXCEPT !.soon = 0, !.rop = IF t.rop.at = "done" THEN NoOp ELSE @,
                               !.wop = IF t.wop.at = "done" THEN NoOp ELSE @]
  OBVIOUS
<1>2. /\ t1.is_reading = t.is_reading /\ t1.is_closing = t.is_closing /\ t1.closed = t.closed
      /\ t1.record = t.record /\ t1.saw_eof = t.saw_eof /\ t1.read = t.read
      /\ t1.rop = (IF got THEN NoOp ELSE t.rop) /\ DOMAIN t1 = DOMAIN t
  BY <1>1 DEF ArmedInv, Good, Shape
<1>3. PICK h : h = [t1.read EXCEPT !.id = FALSE, !.cancelling = FALSE]
  OBVIOUS
<1>4. /\ h.is_closing = t.read.is_closing /\ h.closed = t.read.closed
      /\ h.lost_callback = t.read.lost_callback /\ DOMAIN h = DOMAIN t.read
  BY <1>2, <1>3 DEF ArmedInv, Good, Shape
<1>5. t' = IF batch THEN [t1 EXCEPT !.record = "fresh", !.read.id = FALSE,
                                    !.read.cancelling = FALSE]
           ELSE t1
  BY <1>1 DEF Harvest
<1>6. /\ t'.is_reading = t.is_reading /\ t'.is_closing = t.is_closing /\ t'.closed = t.closed
      /\ t'.saw_eof = t.saw_eof
      /\ t'.record = (IF batch THEN "fresh" ELSE t.record)
      /\ t'.read = (IF batch THEN h ELSE t.read)
      /\ t'.rop = (IF got THEN NoOp ELSE t.rop) /\ DOMAIN t' = DOMAIN t
  BY <1>2, <1>3, <1>5 DEF ArmedInv, Good, Shape
<1>7. /\ "at" \in DOMAIN t'.rop /\ "res" \in DOMAIN t'.rop
      /\ got => t'.rop.at = "none" /\ t'.rop.res = "none"
  BY <1>6 DEF NoOp, ArmedInv, Good, Shape
<1>8. /\ phase = "poll" /\ ready = NothingReady
      /\ phase' = IF batch THEN "batch" ELSE "run"
      /\ got => ready'.read.res = t.rop.res /\ ready'.read.batch = batch
      /\ ~got => ready'.read = NoCallback
      /\ UNCHANGED <<buffer, given, taken>>
  BY DEF Harvest, ArmedInv
<1>9. Good(t') /\ Agree(t')
  BY <1>4, <1>6, <1>7 DEF ArmedInv, Good, Shape, Agree
<1>10. NoCallback.res = "none" /\ ready.read.res = "none"
  BY <1>8 DEF NoCallback, NothingReady
<1>11. ArmedInv'
  <2>1. CASE got
    BY <1>6, <1>7, <1>8, <1>9, <1>10, <2>1 DEF ArmedInv, Open
  <2>2. CASE ~got
    BY <1>6, <1>7, <1>8, <1>9, <1>10, <2>2 DEF ArmedInv, Open
  <2> QED BY <2>1, <2>2
<1>12. ASSUME ChunkInv
       PROVE  ChunkInv'
  <2>1. t.record = "none"
    BY <1>8, <1>12 DEF ChunkInv
  <2>2. Undelivered' = Undelivered
    <3>1. ~GivesData(ready.read) /\ ~(t'.rop.at = "done")
      BY <1>6, <1>7, <1>10 DEF GivesData
    <3>2. GivesData(ready.read)' <=> got /\ t.rop.res = "data" /\ ~batch
      BY <1>8, <1>10 DEF GivesData
    <3>3. t'.record = "fresh" <=> batch
      BY <1>6, <2>1
    <3> QED BY <2>1, <3>1, <3>2, <3>3 DEF Undelivered
  <2>3. Deliverable' => Deliverable
    BY <1>6, <1>7, <1>8, <1>10, <2>1 DEF Deliverable, GivesData, Open
  <2>4. /\ t'.record = IF phase' = "batch" THEN "fresh" ELSE "none"
        /\ phase' = "batch" => t'.rop.at = "none" /\ ready'.read.batch
    BY <1>6, <1>7, <1>8, <2>1
  <2> QED BY <1>8, <1>12, <2>2, <2>3, <2>4 DEF ChunkInv
<1> QED BY <1>11, <1>12

(* dispatch_completion_batch: the record's chunk is the next one.          *)
LEMMA DispatchKeeps ==
    ASSUME ArmedInv, Dispatch
    PROVE  ArmedInv' /\ (ChunkInv => ChunkInv')
<1>1. /\ t'.is_reading = t.is_reading /\ t'.is_closing = t.is_closing /\ t'.closed = t.closed
      /\ t'.saw_eof = t.saw_eof /\ t'.record = "none" /\ t'.read = t.read /\ t'.rop = t.rop
      /\ DOMAIN t' = DOMAIN t
  BY DEF Dispatch, ArmedInv, Good, Shape
<1>2. /\ phase = "batch" /\ phase' \in {"data", "run"} /\ ready' = ready
      /\ UNCHANGED <<buffer, taken>>
      /\ t.record = "fresh" => given' = Append(given, buffer)
      /\ t.record # "fresh" => given' = given
  BY DEF Dispatch
<1>3. ArmedInv'
  BY <1>1, <1>2 DEF ArmedInv, Good, Shape, Agree, Open
<1>4. ASSUME ChunkInv
      PROVE  ChunkInv'
  <2>1. /\ t.record = "fresh" /\ t.rop.at = "none" /\ ready.read.batch
        /\ taken \in Nat /\ given \in Seq(Nat)
        /\ given' = Append(given, buffer)
    BY <1>2, <1>4 DEF ChunkInv
  <2>2. Undelivered = 1 /\ Undelivered' = 0
    BY <1>1, <1>2, <2>1 DEF Undelivered, GivesData
  <2>3. buffer = taken /\ taken = Len(given) + 1
    BY <1>4, <2>1, <2>2 DEF ChunkInv, Deliverable
  <2>4. /\ given' \in Seq(Nat) /\ Len(given') = Len(given) + 1
        /\ \A i \in DOMAIN given' : given'[i] = i
    BY <1>4, <2>1, <2>3 DEF ChunkInv
  <2> QED BY <1>1, <1>2, <2>1, <2>2, <2>3, <2>4 DEF ChunkInv
<1> QED BY <1>3, <1>4

(* The kernel completes a read: a chunk is read only into a buffer that    *)
(* nobody else will still look at.                                         *)
LEMMA KernelReadsKeeps ==
    ASSUME ArmedInv, NEW res \in {"data", "eof", "error", "canceled"}, KernelReads(res)
    PROVE  ArmedInv' /\ (ChunkInv => ChunkInv')
<1>1. /\ t'.is_reading = t.is_reading /\ t'.is_closing = t.is_closing /\ t'.closed = t.closed
      /\ t'.record = t.record /\ t'.read = t.read /\ DOMAIN t' = DOMAIN t
      /\ t'.saw_eof = (t.saw_eof \/ res = "eof")
  BY DEF KernelReads, ArmedInv, Good, Shape
<1>2. /\ t'.rop.at = "done" /\ t'.rop.res = res
      /\ "at" \in DOMAIN t'.rop /\ "res" \in DOMAIN t'.rop
  BY DEF KernelReads, ArmedInv, Good, Shape
<1>3. /\ t.rop.at = "flight" /\ ready' = ready /\ phase' = phase /\ given' = given
      /\ \/ res = "data" /\ taken' = taken + 1 /\ buffer' = taken + 1
         \/ res # "data" /\ taken' = taken /\ buffer' = buffer
  BY DEF KernelReads
<1>4. Good(t') /\ Agree(t')
  BY <1>1, <1>2 DEF ArmedInv, Good, Shape, Agree
<1>5. ArmedInv'
  BY <1>1, <1>2, <1>3, <1>4 DEF ArmedInv, Open
<1>6. ASSUME ChunkInv
      PROVE  ChunkInv'
  <2>1. phase # "batch" /\ t.record = "none"
    BY <1>3, <1>6 DEF ChunkInv
  <2>2. ~GivesData(ready.read)
    BY <1>3 DEF ArmedInv, GivesData
  <2>3. /\ Undelivered = 0
        /\ Undelivered' = IF res = "data" THEN 1 ELSE 0
    BY <1>1, <1>2, <1>3, <2>1, <2>2 DEF Undelivered
  <2>4. taken = Len(given) /\ taken \in Nat /\ given \in Seq(Nat)
    BY <1>3, <1>6, <2>3 DEF ChunkInv, Deliverable
  <2> QED BY <1>1, <1>3, <1>6, <2>1, <2>3, <2>4 DEF ChunkInv
<1> QED BY <1>5, <1>6

(* The read callback took its completion, and does not give data: the      *)
(* chunk, if there is one, was given by the batch.                         *)
LEMMA CallbackKeeps ==
    ASSUME ArmedInv, phase = "run", phase' \in {"run", "eof", "data_callback"},
           ready'.read = NoCallback,
           Good(t'), Agree(t'), Named(t'), Open' => Open, t'.saw_eof = t.saw_eof,
           t'.record = t.record \/ (t.record # "none" /\ t'.record = "stale"),
           Open' /\ t'.is_reading /\ ~t'.saw_eof => t'.read.id \/ phase' = "data_callback",
           \/ t'.rop.res = t.rop.res /\ t'.rop.at = t.rop.at
           \/ t'.rop.res = t.rop.res /\ t.rop.at = "staged" /\ t'.rop.at = "flight"
           \/ /\ t.rop.at = "none" /\ t'.rop.at \in {"staged", "flight"}
              /\ Open
    PROVE  /\ ArmedInv'
           /\ ~GivesData(ready.read) /\ UNCHANGED <<buffer, given, taken>> /\ ChunkInv
                => ChunkInv'
<1>1. ready'.read.res = "none"
  BY DEF NoCallback
<1>2. ArmedInv'
  BY <1>1 DEF ArmedInv, Named
<1>3. ASSUME ~GivesData(ready.read), UNCHANGED <<buffer, given, taken>>, ChunkInv
      PROVE  ChunkInv'
  <2>1. t'.record = "none" /\ t.record = "none"
    BY <1>3 DEF ChunkInv
  <2>2. ~GivesData(ready'.read)
    BY <1>1 DEF GivesData
  <2>3. Undelivered' = Undelivered
    BY <1>3, <2>1, <2>2 DEF Undelivered
  <2>4. Deliverable' => Deliverable
    BY <1>3, <2>1, <2>2 DEF Deliverable
  <2> QED BY <1>3, <2>1, <2>3, <2>4 DEF ChunkInv
<1> QED BY <1>2, <1>3

(* The callback of a read.                                                 *)
LEMMA ReadCompletedKeeps ==
    ASSUME ArmedInv, ReadCompleted
    PROVE  ArmedInv' /\ (ChunkInv => ChunkInv')
<1>1. PICK s : s = ReadStarts(t, ready.read.batch)
  OBVIOUS
<1>2. /\ s.is_reading = t.is_reading /\ s.is_closing = t.is_closing /\ s.closed = t.closed
      /\ s.record = t.record /\ s.saw_eof = t.saw_eof /\ s.rop = t.rop
      /\ DOMAIN s = DOMAIN t
  BY <1>1 DEF ReadStarts, ArmedInv, Good, Shape
<1>3. /\ s.read.is_closing = t.read.is_closing /\ s.read.closed = t.read.closed
      /\ s.read.lost_callback = t.read.lost_callback /\ DOMAIN s.read = DOMAIN t.read
      /\ ready.read.batch => s.read.id = t.read.id
  BY <1>1 DEF ReadStarts, ArmedInv, Good, Shape
<1>4. Good(s) /\ Agree(s)
  BY <1>2, <1>3 DEF ArmedInv, Good, Shape, Agree
<1>5. ~ready.read.batch => t.rop.at = "none"
  BY DEF ReadCompleted, ArmedInv
<1>6. Named(s)
  BY <1>2, <1>3, <1>5 DEF ArmedInv, Named
<1>7. /\ phase = "run" /\ ready.read.res # "none"
      /\ ready'.read = NoCallback /\ UNCHANGED <<buffer, taken>>
  BY DEF ReadCompleted
<1>8. StreamClosing(s) <=> ~Open
  BY <1>2, <1>4 DEF StreamClosing, Good, Agree, Open
<1>9. CASE /\ StreamClosing(s)
           /\ t' = ReadReturns(maybe_close_fd(
                        [s EXCEPT !.read.closed = @ \/ StreamClosing(s)]), ready.read.res)
           /\ UNCHANGED <<phase, given>>
  <2>1. PICK x : x = [s EXCEPT !.read.closed = @ \/ StreamClosing(s)]
    OBVIOUS
  <2>2. /\ x.is_reading = s.is_reading /\ x.is_closing = s.is_closing /\ x.closed = s.closed
        /\ x.record = s.record /\ x.saw_eof = s.saw_eof /\ x.rop = s.rop
        /\ x.read = [s.read EXCEPT !.closed = @ \/ StreamClosing(s)]
        /\ DOMAIN x = DOMAIN s
    BY <1>4, <2>1 DEF Good, Shape
  <2>3. /\ x.read.is_closing = s.read.is_closing /\ x.read.closed
        /\ x.read.lost_callback = s.read.lost_callback /\ DOMAIN x.read = DOMAIN s.read
    BY <1>4, <1>9, <2>2 DEF Good, Shape
  <2>4. s.read.is_closing
    BY <1>4, <1>9 DEF StreamClosing, Good, Agree
  <2>5. Good(x) /\ Agree(x)
    BY <1>4, <2>2, <2>3, <2>4 DEF Good, Shape, Agree
  <2>6. PICK m : m = maybe_close_fd(x)
    OBVIOUS
  <2>7. Settles(x, m) /\ Good(m)
    BY <2>5, <2>6, MaybeCloseSettles DEF Settles
  <2>8. Settles(m, t')
    BY <1>9, <2>1, <2>6, <2>7, ReadReturnsSettles
  <2>9. Settles(x, t')
    BY <2>7, <2>8, SettlesTrans
  <2>10. /\ Good(t') /\ Agree(t') /\ t'.read.closed /\ t'.saw_eof = t.saw_eof
         /\ t'.record = t.record \/ (t.record # "none" /\ t'.record = "stale")
         /\ t'.rop.res = t.rop.res
         /\ t'.rop.at = t.rop.at \/ (t.rop.at = "staged" /\ t'.rop.at = "flight")
    BY <1>2, <2>2, <2>3, <2>5, <2>9 DEF Settles, Closes
  <2>11. ~Open'
    BY <2>10 DEF Good, Agree, Open
  <2>12. Named(t')
    BY <2>10 DEF Named
  <2>13. /\ ArmedInv'
         /\ ~GivesData(ready.read) /\ UNCHANGED <<buffer, given, taken>> /\ ChunkInv
                => ChunkInv'
    BY <1>7, <1>9, <2>10, <2>11, <2>12, CallbackKeeps
  <2>14. ASSUME GivesData(ready.read), ChunkInv
         PROVE  ChunkInv'
    <3>1. t'.record = "none" /\ phase' = "run"
      BY <1>7, <1>9, <2>10, <2>14 DEF ChunkInv
    <3>2. t'.rop.at = "none"
      BY <1>5, <2>10, <2>14 DEF GivesData
    <3>3. ~GivesData(ready'.read)
      BY <1>7 DEF GivesData, NoCallback
    <3>4. ~Deliverable' /\ Undelivered' = 0
      BY <2>11, <3>1, <3>2, <3>3 DEF Deliverable, Undelivered
    <3> QED BY <1>7, <1>9, <2>14, <3>1, <3>4 DEF ChunkInv
  <2> QED BY <1>7, <1>9, <2>13, <2>14
<1>10. ASSUME ~StreamClosing(s), ~GivesData(ready.read), UNCHANGED <<phase, given>>,
              t' = ReadReturns(maybe_close_fd(queue_read_operation(s)), ready.read.res)
       PROVE  ArmedInv' /\ (ChunkInv => ChunkInv')
  <2>1. PICK q : q = queue_read_operation(s)
    OBVIOUS
  <2>2. Good(q)
    BY <1>4, <1>6, <2>1, QueueReadArms
  <2>3. PICK m : m = maybe_close_fd(q)
    OBVIOUS
  <2>4. Settles(q, m) /\ Good(m)
    BY <2>2, <2>3, MaybeCloseSettles DEF Settles
  <2>5. Settles(m, t')
    BY <1>10, <2>1, <2>3, <2>4, ReadReturnsSettles
  <2>6. Settles(q, t')
    BY <2>4, <2>5, SettlesTrans
  <2>7. /\ Good(t') /\ Agree(t') /\ Named(t')
        /\ Open' => Open
        /\ Open' /\ t'.is_reading => t'.read.id
        /\ t'.saw_eof = t.saw_eof
        /\ t'.record = t.record \/ (t.record # "none" /\ t'.record = "stale")
        /\ \/ t'.rop.res = t.rop.res /\ t'.rop.at = t.rop.at
           \/ t'.rop.res = t.rop.res /\ t.rop.at = "staged" /\ t'.rop.at = "flight"
           \/ /\ t.rop.at = "none" /\ t'.rop.at \in {"staged", "flight"}
              /\ Open /\ ~s.read.id
    BY <1>2, <1>4, <1>6, <2>1, <2>6, ArmsAgain
  <2>8. /\ ArmedInv'
        /\ ~GivesData(ready.read) /\ UNCHANGED <<buffer, given, taken>> /\ ChunkInv
                => ChunkInv'
    BY <1>7, <1>10, <2>7, CallbackKeeps
  <2> QED BY <1>7, <1>10, <2>8
<1>11. ASSUME ~StreamClosing(s), ready.read.res = "error", UNCHANGED <<phase, given>>,
              t' = ReadReturns(maybe_close_fd(s), ready.read.res)
       PROVE  ArmedInv' /\ (ChunkInv => ChunkInv')
  <2>1. PICK m : m = maybe_close_fd(s)
    OBVIOUS
  <2>2. Settles(s, m) /\ Good(m)
    BY <1>4, <2>1, MaybeCloseSettles DEF Settles
  <2>3. Settles(m, t') /\ t'.read.is_closing
    BY <1>11, <2>1, <2>2, ReadReturnsSettles
  <2>4. Settles(s, t')
    BY <2>2, <2>3, SettlesTrans
  <2>5. /\ Good(t') /\ Agree(t') /\ t'.saw_eof = t.saw_eof
        /\ t'.record = t.record \/ (t.record # "none" /\ t'.record = "stale")
        /\ t'.rop.res = t.rop.res
        /\ t'.rop.at = t.rop.at \/ (t.rop.at = "staged" /\ t'.rop.at = "flight")
    BY <1>2, <1>4, <2>4 DEF Settles, Closes
  <2>6. ~Open'
    BY <2>3, <2>5 DEF Agree, Open
  <2>7. Named(t')
    BY <1>2, <1>6, <2>4, <2>5 DEF Named, Settles, Closes
  <2>8. ~GivesData(ready.read)
    BY <1>11 DEF GivesData
  <2>9. /\ ArmedInv'
        /\ ~GivesData(ready.read) /\ UNCHANGED <<buffer, given, taken>> /\ ChunkInv
                => ChunkInv'
    BY <1>7, <1>11, <2>5, <2>6, <2>7, CallbackKeeps
  <2> QED BY <1>7, <1>11, <2>8, <2>9
<1>12. ASSUME ready.read.res = "eof", t' = s, phase' = "eof", given' = given
       PROVE  ArmedInv' /\ (ChunkInv => ChunkInv')
  <2>1. t.saw_eof
    BY <1>12 DEF ArmedInv
  <2>2. ~GivesData(ready.read)
    BY <1>12 DEF GivesData
  <2>3. Open' => Open
    BY <1>2, <1>12 DEF Open
  <2>4. /\ ArmedInv'
        /\ ~GivesData(ready.read) /\ UNCHANGED <<buffer, given, taken>> /\ ChunkInv
                => ChunkInv'
    BY <1>2, <1>4, <1>6, <1>7, <1>12, <2>1, <2>3, CallbackKeeps
  <2> QED BY <1>7, <1>12, <2>2, <2>4
<1>13. ASSUME GivesData(ready.read), t' = s, phase' = "data_callback",
              given' = Append(given, buffer)
       PROVE  ArmedInv' /\ (ChunkInv => ChunkInv')
  <2>1. Open' => Open
    BY <1>2, <1>13 DEF Open
  <2>2. ArmedInv'
    BY <1>2, <1>4, <1>6, <1>7, <1>13, <2>1, CallbackKeeps
  <2>3. ASSUME ChunkInv
        PROVE  ChunkInv'
    <3>1. t.rop.at = "none" /\ t'.rop.at = "none"
      BY <1>2, <1>5, <1>13 DEF GivesData
    <3>2. t.record = "none" /\ t'.record = "none" /\ taken \in Nat /\ given \in Seq(Nat)
      BY <1>2, <1>7, <1>13, <2>3 DEF ChunkInv
    <3>3. ~GivesData(ready'.read)
      BY <1>7 DEF GivesData, NoCallback
    <3>4. Undelivered = 1 /\ Undelivered' = 0
      BY <1>13, <3>1, <3>2, <3>3 DEF Undelivered
    <3>5. buffer = taken /\ taken = Len(given) + 1
      BY <1>13, <2>3, <3>2, <3>4 DEF ChunkInv, Deliverable
    <3>6. /\ given' \in Seq(Nat) /\ Len(given') = Len(given) + 1
          /\ \A i \in DOMAIN given' : given'[i] = i
      BY <1>13, <2>3, <3>2, <3>5 DEF ChunkInv
    <3> QED BY <1>7, <1>13, <3>2, <3>4, <3>5, <3>6 DEF ChunkInv
  <2> QED BY <2>2, <2>3
<1>14. \/ /\ StreamClosing(s)
          /\ t' = ReadReturns(maybe_close_fd(
                       [s EXCEPT !.read.closed = @ \/ StreamClosing(s)]), ready.read.res)
          /\ UNCHANGED <<phase, given>>
       \/ /\ ~StreamClosing(s) /\ ~GivesData(ready.read) /\ UNCHANGED <<phase, given>>
          /\ t' = ReadReturns(maybe_close_fd(queue_read_operation(s)), ready.read.res)
       \/ /\ ~StreamClosing(s) /\ ready.read.res = "error" /\ UNCHANGED <<phase, given>>
          /\ t' = ReadReturns(maybe_close_fd(s), ready.read.res)
       \/ ready.read.res = "eof" /\ t' = s /\ phase' = "eof" /\ given' = given
       \/ /\ GivesData(ready.read) /\ t' = s /\ phase' = "data_callback"
          /\ given' = Append(given, buffer)
  BY <1>1 DEF ReadCompleted, GivesData
<1> QED BY <1>9, <1>10, <1>11, <1>12, <1>13, <1>14

(* data_received or eof_received returned to the read callback.            *)
LEMMA ReadCallReturnsKeeps ==
    ASSUME ArmedInv, NEW keep_open \in BOOLEAN, ReadCallReturns(keep_open)
    PROVE  ArmedInv' /\ (OthersFirst = FALSE /\ ChunkInv => ChunkInv')
<1>1. Good(t) /\ Agree(t)
  BY DEF ArmedInv
<1>2. /\ phase \in {"eof", "data_callback"} /\ phase' = "run" /\ ready' = ready
      /\ UNCHANGED <<buffer, given, taken>>
  BY DEF ReadCallReturns
<1>3. CASE phase = "data_callback"
  <2>1. PICK q : q = queue_read_operation(t)
    OBVIOUS
  <2>2. PICK m : m = maybe_close_fd(q)
    OBVIOUS
  <2>3. Good(q)
    <3>1. Named(t)
      BY DEF ArmedInv, Named
    <3> QED BY <1>1, <2>1, <3>1, QueueReadArms
  <2>4. Settles(q, m) /\ Good(m)
    BY <2>2, <2>3, MaybeCloseSettles DEF Settles
  <2>5. t' = ReadReturns(m, "data")
    BY <1>3, <2>1, <2>2 DEF ReadCallReturns
  <2>6. Settles(q, t')
    BY <2>4, <2>5, ReadReturnsSettles, SettlesTrans
  <2> QED BY <1>1, <1>2, <1>3, <2>1, <2>6, RearmKeeps
<1>4. CASE phase = "eof"
  <2>1. PICK s : s = IF keep_open THEN t ELSE close_transports(t, "None")
    OBVIOUS
  <2>2. Settles(t, s) /\ Good(s)
    BY <1>1, <2>1, CloseTransportsSettles, SettlesRefl DEF Settles
  <2>3. PICK m : m = maybe_close_fd(s)
    OBVIOUS
  <2>4. Settles(s, m) /\ Good(m)
    BY <2>2, <2>3, MaybeCloseSettles DEF Settles
  <2>5. t' = ReadReturns(m, "data")
    BY <1>4, <2>1, <2>3 DEF ReadCallReturns
  <2>6. Settles(m, t')
    BY <2>4, <2>5, ReadReturnsSettles
  <2>7. Settles(t, t')
    BY <2>2, <2>4, <2>6, SettlesTrans
  <2>8. Plain
    BY <1>2, <1>4, <2>7 DEF Plain
  <2> QED BY <2>8, PlainKeepsArmed, PlainKeepsChunks
<1> QED BY <1>2, <1>3, <1>4

(* data_received or eof_received raised out of the read callback.          *)
LEMMA ReadCallRaisesKeeps ==
    ASSUME ArmedInv, ReadCallRaises
    PROVE  ArmedInv' /\ (ChunkInv => ChunkInv')
<1>1. /\ phase \in {"eof", "data_callback"} /\ phase' = "run" /\ ready' = ready
      /\ UNCHANGED <<buffer, given, taken>> /\ t' = ReadRaises(t)
  BY DEF ReadCallRaises
<1>2. /\ Good(t') /\ Agree(t') /\ t'.read.closed
      /\ t'.rop.res = t.rop.res
      /\ t'.rop.at = t.rop.at \/ (t.rop.at = "staged" /\ t'.rop.at = "flight")
      /\ t'.saw_eof = t.saw_eof
      /\ t'.record = t.record \/ (t.record # "none" /\ t'.record = "stale")
  BY <1>1, ReadRaisesCloses DEF ArmedInv
<1>3. ~Open'
  BY <1>2 DEF Good, Agree, Open
<1>4. ArmedInv'
  BY <1>1, <1>2, <1>3 DEF ArmedInv
<1>5. ASSUME ChunkInv
      PROVE  ChunkInv'
  <2>1. t'.record = "none" /\ t.record = "none"
    BY <1>1, <1>2, <1>5 DEF ChunkInv
  <2>2. Undelivered' = Undelivered
    BY <1>1, <1>2, <2>1 DEF Undelivered
  <2>3. Deliverable' => Deliverable
    BY <1>1, <1>2, <1>3, <2>1 DEF Deliverable
  <2> QED BY <1>1, <1>5, <2>1, <2>2, <2>3 DEF ChunkInv
<1> QED BY <1>4, <1>5

-----------------------------------------------------------------------------
(* The two theorems.                                                       *)

(* A new transport has its first read staged.                              *)
LEMMA InitHolds ==
    ASSUME Init
    PROVE  ArmedInv /\ ChunkInv
<1>1. /\ t.is_reading /\ ~t.is_closing /\ ~t.closed /\ t.record = "none" /\ ~t.saw_eof
      /\ t.read = [Half EXCEPT !.id = TRUE] /\ t.rop = [NoOp EXCEPT !.at = "staged"]
      /\ "is_reading" \in DOMAIN t /\ "is_closing" \in DOMAIN t /\ "closed" \in DOMAIN t
      /\ "record" \in DOMAIN t /\ "saw_eof" \in DOMAIN t
      /\ "read" \in DOMAIN t /\ "rop" \in DOMAIN t
  BY DEF Init
<1>2. /\ t.read.id /\ ~t.read.is_closing /\ ~t.read.closed /\ t.read.lost_callback
      /\ "id" \in DOMAIN t.read /\ "is_closing" \in DOMAIN t.read
      /\ "closed" \in DOMAIN t.read /\ "lost_callback" \in DOMAIN t.read
  BY <1>1 DEF Half
<1>3. /\ t.rop.at = "staged" /\ "at" \in DOMAIN t.rop /\ "res" \in DOMAIN t.rop
  BY <1>1 DEF NoOp
<1>4. /\ ready = NothingReady /\ phase = "run" /\ given = <<>> /\ taken = 0
      /\ ready.read.res = "none"
  BY DEF Init, NothingReady, NoCallback
<1>5. ArmedInv
  BY <1>1, <1>2, <1>3, <1>4 DEF ArmedInv, Good, Shape, Agree
<1>6. Undelivered = 0
  BY <1>1, <1>3, <1>4 DEF Undelivered, GivesData
<1>7. ChunkInv
  BY <1>1, <1>4, <1>6 DEF ChunkInv
<1> QED BY <1>5, <1>7

(* Every step keeps the two invariants.                                    *)
LEMMA StepHolds ==
    ASSUME ArmedInv, [Next]_vars
    PROVE  ArmedInv' /\ (OthersFirst = FALSE /\ ChunkInv => ChunkInv')
<1>1. CASE UNCHANGED vars
  <2>1. ArmedInv'
    BY <1>1 DEF vars, ArmedInv, Open, Good, Shape, Agree
  <2>2. ChunkInv => ChunkInv'
    BY <1>1 DEF vars, ChunkInv, Deliverable, Undelivered, GivesData, Open
  <2> QED BY <2>1, <2>2
<1>2. CASE Python
  BY <1>2, MethodsArePlain, PlainKeepsArmed, PlainKeepsChunks, ResumeReadingKeeps DEF Python
<1>3. CASE LoopThread
  BY <1>3, LoopStepsArePlain, PlainKeepsArmed, PlainKeepsChunks, HarvestKeeps, DispatchKeeps,
     ReadCompletedKeeps, ReadCallReturnsKeeps, ReadCallRaisesKeeps DEF LoopThread
<1>4. CASE Kernel
  BY <1>4, LoopStepsArePlain, PlainKeepsArmed, PlainKeepsChunks, KernelReadsKeeps DEF Kernel
<1> QED BY <1>1, <1>2, <1>3, <1>4 DEF Next

(* A transport that is reading has a read under way or a callback that     *)
(* will start one, and no read in the ring is forgotten: whatever the      *)
(* protocol calls and however completions, pauses and errors interleave,   *)
(* with other streams in the batch or without.                             *)
THEOREM ReadingStaysArmed == Spec => []ReadingIsArmed
<1>1. Spec => Init /\ [][Next]_vars
  BY PTL DEF Spec
<1>2. Init => ArmedInv
  BY InitHolds
<1>3. ArmedInv /\ [Next]_vars => ArmedInv'
  BY StepHolds
<1>4. ArmedInv => ReadingIsArmed
  BY DEF ArmedInv, ReadingIsArmed
<1> QED BY <1>1, <1>2, <1>3, <1>4, PTL

(* Chunks reach data_received in order, each once, and while the transport *)
(* is open none is lost, for any number of them.  The hypothesis is that   *)
(* no other stream's data_received runs between the harvest of a read and  *)
(* its dispatch: it could resume this transport, and the new read would    *)
(* overwrite the buffer that the record refers to (runner.zig:310).        *)
THEOREM ChunksArrive ==
    ASSUME OthersFirst = FALSE
    PROVE  Spec => []ChunksInOrder
<1>1. Spec => Init /\ [][Next]_vars
  BY PTL DEF Spec
<1>2. Init => ArmedInv /\ ChunkInv
  BY InitHolds
<1>3. ArmedInv /\ ChunkInv /\ [Next]_vars => ArmedInv' /\ ChunkInv'
  BY StepHolds
<1>4. ChunkInv => ChunksInOrder
  BY DEF ChunkInv, ChunksInOrder, Deliverable
<1> QED BY <1>1, <1>2, <1>3, <1>4, PTL

-----------------------------------------------------------------------------
(* The lifecycle: what closing, reporting and failing keep.                *)

(* The fields of the transport.                                            *)
WShape(s) ==
    /\ {"is_reading", "is_writing", "is_closing", "closed", "fd", "attached", "record",
        "pending_lost_exc", "connection_lost_notified", "high", "low", "read", "write",
        "in_flight", "eof_pending", "bufs", "index", "offset", "buffer_size", "total",
        "exported", "rop", "wop", "fin", "soon", "called", "exc", "broken", "failed",
        "saw_eof"} \subseteq DOMAIN s
    /\ {"id", "cancelling", "is_closing", "closed", "lost_callback"} \subseteq DOMAIN s.read
    /\ {"id", "cancelling", "is_closing", "closed", "lost_callback"} \subseteq DOMAIN s.write
    /\ {"at", "cancel", "res", "from", "len"} \subseteq DOMAIN s.rop
    /\ {"at", "cancel", "res", "from", "len"} \subseteq DOMAIN s.wop

(* A read that was cancelled or is complete, or (b) its callback.          *)
Driven(s, b) == s.rop.cancel \/ s.rop.at = "done" \/ b

(* What holds of the transport between any two statements, while a read's  *)
(* callback is queued (b), one that did not go through the batch (c).      *)
Sound(s, b, c) ==
    /\ WShape(s)
    /\ s.read.closed => s.read.is_closing
    /\ ~s.read.lost_callback => s.read.is_closing
    /\ s.connection_lost_notified => s.closed /\ s.read.closed /\ s.write.closed
    /\ s.write.is_closing <=> ~s.write.lost_callback
    /\ s.write.closed => s.write.is_closing
    /\ s.write.closed /\ ~s.broken => s.buffer_size = 0 /\ ~s.in_flight
    /\ s.write.closed /\ s.in_flight => s.closed
    /\ s.read.cancelling => s.read.id /\ Driven(s, c)
    /\ s.read.id => s.rop.at # "none" \/ c
    /\ s.read.is_closing /\ ~s.read.closed => Driven(s, b)
    /\ s.rop.at \in {"none", "staged", "flight", "done"}
    /\ s.soon \in Nat /\ s.buffer_size \in Nat
    /\ c => b

(* The error that closed the transport is reported, or will be.            *)
Blames(s) ==
    s.failed => IF s.connection_lost_notified THEN s.exc = "error"
                ELSE s.pending_lost_exc = "error"

(* A write side that waits to be closed has something to write.            *)
Due(s) == s.write.is_closing /\ ~s.write.closed => s.in_flight \/ s.buffer_size > 0

(* The transport and its halves, between two callbacks or calls.           *)
Edge(s) ==
    /\ s.is_closing \/ s.closed => s.write.is_closing
    /\ s.closed /\ ~s.is_closing => ~s.read.lost_callback
    /\ ~s.is_closing /\ ~s.closed => s.pending_lost_exc = "null"

(* With both halves closed connection_lost is scheduled, or a read's       *)
(* callback will schedule it.                                              *)
Answers(s, b) ==
    s.is_closing /\ s.read.closed /\ s.write.closed =>
        s.connection_lost_notified \/ Driven(s, b)

(* The transport and its halves agree, and a closed one reports.           *)
Lives(s, b) == Agree(s) /\ Edge(s) /\ Answers(s, b)

(* Both halves are closed, and connection_lost is scheduled.               *)
Reported(s) == s.read.closed /\ s.write.closed => s.connection_lost_notified

(* The write queue is the same, and its operation submitted at most.       *)
SameQueue(s, r) ==
    /\ r.in_flight = s.in_flight /\ r.bufs = s.bufs /\ r.index = s.index /\ r.offset = s.offset
    /\ r.buffer_size = s.buffer_size /\ r.total = s.total /\ r.exported = s.exported
    /\ r.high = s.high /\ r.low = s.low /\ r.called = s.called
    /\ r.wop.res = s.wop.res /\ r.wop.from = s.wop.from /\ r.wop.len = s.wop.len
    /\ r.wop.at = s.wop.at \/ (s.wop.at = "staged" /\ r.wop.at = "flight")

(* The read operation is submitted or cancelled at most.                   *)
SameRop(s, r) ==
    /\ s.rop.cancel => r.rop.cancel
    /\ r.rop.at = s.rop.at \/ (s.rop.at = "staged" /\ r.rop.at = "flight")

(* The flags of the transport are the same.                                *)
SameFlags(s, r) ==
    /\ r.is_writing = s.is_writing /\ r.is_closing = s.is_closing /\ r.closed = s.closed
    /\ r.pending_lost_exc = s.pending_lost_exc
    /\ r.connection_lost_notified = s.connection_lost_notified
    /\ r.soon = s.soon /\ r.exc = s.exc
    /\ r.broken = s.broken /\ r.failed = s.failed

(* Nothing is taken back: what is closed stays closed, connection_lost is  *)
(* scheduled once.                                                         *)
Rises(s, r) ==
    /\ s.read.closed => r.read.closed
    /\ s.read.is_closing => r.read.is_closing
    /\ s.write.closed => r.write.closed
    /\ s.write.is_closing => r.write.is_closing
    /\ s.closed => r.closed
    /\ s.is_closing => r.is_closing
    /\ s.broken => r.broken
    /\ r.is_writing = s.is_writing \/ r.closed
    /\ ~r.is_closing /\ ~r.closed => r.pending_lost_exc = s.pending_lost_exc
    /\ s.connection_lost_notified => r.connection_lost_notified /\ r.exc = s.exc
    /\ r.soon = IF r.connection_lost_notified /\ ~s.connection_lost_notified
                THEN s.soon + 1 ELSE s.soon

(* What everything but writing does to the write side, at most.            *)
Moves(s, r) == SameQueue(s, r) /\ Rises(s, r) /\ (Due(s) => Due(r))

(* And it forgets no error.                                                *)
Stays(s, r) == Moves(s, r) /\ (Blames(s) => Blames(r))

(* What steps do to the reporting of connection_lost composes.             *)
LEMMA RisesTrans ==
    ASSUME NEW s, NEW r, NEW q, Rises(s, r), Rises(r, q), s.soon \in Nat
    PROVE  Rises(s, q)
BY DEF Rises

(* So do the steps that leave the write queue alone.                       *)
LEMMA MovesTrans ==
    ASSUME NEW s, NEW r, NEW q, Moves(s, r), Moves(r, q), s.soon \in Nat
    PROVE  Moves(s, q)
BY RisesTrans DEF Moves, SameQueue

(* And those that also keep the blame for an error.                        *)
LEMMA StaysTrans ==
    ASSUME NEW s, NEW r, NEW q, Stays(s, r), Stays(r, q), s.soon \in Nat
    PROVE  Stays(s, q)
BY MovesTrans DEF Stays

(* Doing nothing is such a step.                                           *)
LEMMA StaysRefl ==
    ASSUME NEW s
    PROVE  Stays(s, s) /\ SameRop(s, s)
BY DEF Moves, Rises, Stays, SameQueue, SameRop

(* A read is cancelled and submitted only forwards.                        *)
LEMMA SameRopTrans ==
    ASSUME NEW s, NEW r, NEW q, SameRop(s, r), SameRop(r, q)
    PROVE  SameRop(s, q)
BY DEF SameRop

(* Cancelling a read in the ring leads to its callback.                    *)
LEMMA CancelReadKeeps ==
    ASSUME NEW s, NEW b, NEW c, Sound(s, b, c), s.read.id, NEW r, r = CancelRead(s)
    PROVE  /\ Sound(r, b, c) /\ Stays(s, r) /\ SameRop(s, r) /\ SameFlags(s, r)
           /\ r.read = [s.read EXCEPT !.cancelling = TRUE] /\ r.write = s.write
           /\ Driven(r, c)
BY DEF WShape, Flush, SameQueue, SameFlags, SameRop, Sound, Moves, Rises, Stays, Driven, CancelRead, Cancelled, Blames, Due

(* Submitting the ring changes where operations are, nothing else.         *)
LEMMA FlushKeeps ==
    ASSUME NEW s, NEW b, NEW c, Sound(s, b, c), NEW r, r = Flush(s)
    PROVE  /\ Sound(r, b, c) /\ Stays(s, r) /\ SameRop(s, r) /\ SameFlags(s, r)
           /\ r.read = s.read /\ r.write = s.write
BY DEF WShape, Flush, SameQueue, SameFlags, SameRop, Sound, Moves, Rises, Stays, Driven, Blames, Due

(* Closing the descriptor disturbs neither half.                           *)
LEMMA CloseFdKeeps ==
    ASSUME NEW s, NEW b, NEW c, Sound(s, b, c), NEW r, r = cancel_and_close_fd(s)
    PROVE  /\ Sound(r, b, c) /\ Stays(s, r) /\ SameRop(s, r) /\ SameFlags(s, r)
           /\ r.read = s.read /\ r.write = s.write
BY DEF WShape, Flush, SameQueue, SameFlags, SameRop, Sound, Moves, Rises, Stays, Driven, CancelByFd, Cancelled,
  cancel_and_close_fd, Blames, Due

(* schedule_connection_lost_once schedules it, if nobody did.              *)
LEMMA ScheduleKeeps ==
    ASSUME NEW s, NEW b, NEW c, Sound(s, b, c), NEW r, r = schedule_connection_lost_once(s),
      s.closed, s.read.closed, s.write.closed
    PROVE  /\ Sound(r, b, c) /\ Stays(s, r) /\ SameRop(s, r) /\ r.connection_lost_notified
           /\ r.read = s.read /\ r.write = s.write /\ r.is_closing = s.is_closing
BY DEF WShape, SameQueue, SameRop, Sound, Moves, Rises, Stays, Driven, schedule_connection_lost_once, Blames, Due

(* maybe_close_fd reports once both halves are closed.                     *)
LEMMA MaybeCloseKeeps ==
    ASSUME NEW s, NEW b, NEW c, Sound(s, b, c), NEW r, r = maybe_close_fd(s)
    PROVE  /\ Sound(r, b, c) /\ Stays(s, r) /\ SameRop(s, r)
           /\ r.read = s.read /\ r.write = s.write /\ r.is_closing = s.is_closing
           /\ Reported(r)
           /\ r.closed => s.closed \/ (s.read.closed /\ s.write.closed)
           /\ Agree(s) /\ Edge(s) => Lives(r, b)
<1>1. CASE s.read.closed /\ s.write.closed
  <2>1. PICK u : u = [BumpGeneration(s) EXCEPT !.closed = TRUE]
    OBVIOUS
  <2>2. /\ Sound(u, b, c) /\ Stays(s, u) /\ SameRop(s, u)
        /\ u.read = s.read /\ u.write = s.write /\ u.is_closing = s.is_closing /\ u.closed
    BY <2>1 DEF BumpGeneration, WShape, SameQueue, SameRop, Sound, Moves, Rises, Stays, Driven, Blames, Due
  <2>3. PICK v : v = cancel_and_close_fd(u)
    OBVIOUS
  <2>4. Sound(v, b, c) /\ Stays(u, v) /\ SameRop(u, v) /\ v.closed
        /\ v.read = u.read /\ v.write = u.write /\ v.is_closing = u.is_closing
    BY <2>2, <2>3, CloseFdKeeps DEF SameFlags
  <2>5. r = schedule_connection_lost_once(v)
    BY <1>1, <2>1, <2>3 DEF maybe_close_fd
  <2>6. /\ Sound(r, b, c) /\ Stays(v, r) /\ SameRop(v, r) /\ r.connection_lost_notified
        /\ r.read = v.read /\ r.write = v.write /\ r.is_closing = v.is_closing
    BY <1>1, <2>2, <2>4, <2>5, ScheduleKeeps
  <2>7. Stays(s, r) /\ SameRop(s, r)
    BY <2>2, <2>4, <2>6, StaysTrans, SameRopTrans DEF Sound
  <2> QED BY <1>1, <2>2, <2>4, <2>6, <2>7 DEF Reported, Lives, Agree, Edge, Answers, Sound
<1>2. CASE ~(s.read.closed /\ s.write.closed)
  <2>1. r = s
    BY <1>2 DEF maybe_close_fd
  <2> QED BY <1>2, <2>1, StaysRefl DEF Reported, Lives, Answers
<1> QED BY <1>1, <1>2

(* Closing the read half: at once, or when its cancelled read completes.   *)
LEMMA ReadCloseKeeps ==
    ASSUME NEW s, NEW b, NEW c, Sound(s, b, c), NEW r, r = read_close(s)
    PROVE  /\ Sound(r, b, c) /\ Stays(s, r) /\ SameRop(s, r)
           /\ r.read.is_closing /\ r.write = s.write /\ r.is_closing = s.is_closing
           /\ Reported(s) => Reported(r)
<1>1. CASE s.read.is_closing \/ s.read.closed
  <2>1. r = s
    BY <1>1 DEF read_close
  <2> QED BY <1>1, <2>1, StaysRefl DEF Sound
<1>2. CASE ~(s.read.is_closing \/ s.read.closed) /\ ~s.read.id
  <2>1. PICK u : u = [s EXCEPT !.read.closed = TRUE, !.read.is_closing = TRUE]
    OBVIOUS
  <2>2. /\ Sound(u, b, c) /\ Stays(s, u) /\ SameRop(s, u)
        /\ u.read.is_closing /\ u.write = s.write /\ u.is_closing = s.is_closing
    BY <1>2, <2>1 DEF WShape, SameQueue, SameRop, Sound, Moves, Rises, Stays, Driven, Blames, Due
  <2>3. r = maybe_close_fd(u)
    BY <1>2, <2>1 DEF read_close
  <2>4. /\ Sound(r, b, c) /\ Stays(u, r) /\ SameRop(u, r) /\ Reported(r)
        /\ r.read = u.read /\ r.write = u.write /\ r.is_closing = u.is_closing
    BY <2>2, <2>3, MaybeCloseKeeps
  <2> QED BY <2>2, <2>4, StaysTrans, SameRopTrans DEF Sound
<1>3. CASE ~(s.read.is_closing \/ s.read.closed) /\ s.read.id
  <2>1. PICK u : u = IF s.read.cancelling THEN s ELSE CancelRead(s)
    OBVIOUS
  <2>2. /\ Sound(u, b, c) /\ Stays(s, u) /\ SameRop(s, u) /\ u.write = s.write
        /\ u.is_closing = s.is_closing /\ Driven(u, b) /\ Driven(u, c) /\ u.read.id /\ ~u.read.closed
    <3>1. CASE s.read.cancelling
      BY <1>3, <2>1, <3>1, StaysRefl DEF Sound, Driven
    <3>2. CASE ~s.read.cancelling
      <4>1. /\ Sound(u, b, c) /\ Stays(s, u) /\ SameRop(s, u) /\ SameFlags(s, u)
            /\ u.read = [s.read EXCEPT !.cancelling = TRUE] /\ u.write = s.write /\ Driven(u, c)
        BY <1>3, <2>1, <3>2, CancelReadKeeps
      <4>2. u.read.id = s.read.id /\ u.read.closed = s.read.closed
        BY <4>1 DEF Sound, WShape
      <4>3. Driven(u, b)
        BY <4>1 DEF Sound, Driven
      <4> QED BY <1>3, <4>1, <4>2, <4>3 DEF SameFlags
    <3> QED BY <3>1, <3>2
  <2>3. r = [u EXCEPT !.read.is_closing = TRUE, !.read.lost_callback = FALSE]
    BY <1>3, <2>1 DEF read_close
  <2>4. /\ SameQueue(u, r) /\ r.rop = u.rop /\ SameFlags(u, r) /\ r.write = u.write
        /\ r.read.is_closing /\ ~r.read.closed /\ r.read.id = u.read.id
        /\ r.read.cancelling = u.read.cancelling /\ WShape(r)
    <3>1. WShape(u) /\ ~u.read.closed
      BY <2>2 DEF Sound
    <3>2. r.read.is_closing /\ r.read.closed = u.read.closed /\ r.read.id = u.read.id
          /\ r.read.cancelling = u.read.cancelling
      <4>1. r.read = [u.read EXCEPT !.is_closing = TRUE, !.lost_callback = FALSE]
        BY <2>3, <3>1 DEF WShape
      <4> QED BY <3>1, <4>1 DEF WShape
    <3>3. SameQueue(u, r) /\ r.rop = u.rop /\ SameFlags(u, r) /\ r.write = u.write
      BY <2>3, <3>1 DEF WShape, SameQueue, SameFlags
    <3>4. WShape(r)
      BY <2>3, <3>1 DEF WShape
    <3> QED BY <3>1, <3>2, <3>3, <3>4
  <2>5. Sound(r, b, c)
    BY <2>2, <2>4 DEF Sound, SameFlags, SameQueue, Driven
  <2>6. Stays(u, r) /\ SameRop(u, r) /\ Reported(r) /\ r.is_closing = u.is_closing
    BY <2>2, <2>4 DEF Moves, Rises, Stays, SameRop, SameFlags, SameQueue, Blames, Due, Reported
  <2> QED BY <2>2, <2>5, <2>6, <2>4, StaysTrans, SameRopTrans DEF Sound
<1> QED BY <1>1, <1>2, <1>3

(* Closing the write half: at once, or when its backlog is written.        *)
LEMMA WriteCloseKeeps ==
    ASSUME NEW s, NEW b, NEW c, Sound(s, b, c), NEW r, r = write_close(s)
    PROVE  /\ Sound(r, b, c) /\ Stays(s, r) /\ SameRop(s, r)
           /\ r.write.is_closing /\ r.read = s.read /\ r.is_closing = s.is_closing
           /\ Reported(s) => Reported(r)
           /\ Lives(s, b) => Lives(r, b)
<1>1. CASE s.write.is_closing \/ s.write.closed
  <2>1. r = s
    BY <1>1 DEF write_close
  <2> QED BY <1>1, <2>1, StaysRefl DEF Sound
<1>2. CASE ~(s.write.is_closing \/ s.write.closed) /\ ~s.in_flight /\ s.buffer_size = 0
  <2>1. PICK u : u = [s EXCEPT !.write.is_closing = TRUE, !.write.lost_callback = FALSE,
                               !.write.closed = TRUE]
    OBVIOUS
  <2>2. /\ u.write = [s.write EXCEPT !.is_closing = TRUE, !.lost_callback = FALSE, !.closed = TRUE]
        /\ u.read = s.read /\ u.rop = s.rop /\ SameQueue(s, u) /\ SameFlags(s, u)
    BY <2>1 DEF Sound, WShape, SameQueue, SameFlags
  <2>3. u.write.is_closing /\ ~u.write.lost_callback /\ u.write.closed /\ WShape(u)
    BY <2>1, <2>2 DEF Sound, WShape
  <2>4. /\ Sound(u, b, c) /\ Stays(s, u) /\ SameRop(s, u)
    BY <1>2, <2>2, <2>3 DEF SameQueue, SameFlags, SameRop, Sound, Moves, Rises, Stays, Driven, Blames, Due
  <2>5. r = maybe_close_fd(u)
    BY <1>2, <2>1 DEF write_close
  <2>6. /\ Sound(r, b, c) /\ Stays(u, r) /\ SameRop(u, r) /\ Reported(r)
        /\ r.read = u.read /\ r.write = u.write /\ r.is_closing = u.is_closing
        /\ Agree(u) /\ Edge(u) => Lives(r, b)
    BY <2>4, <2>5, MaybeCloseKeeps
  <2>7. Lives(s, b) => Agree(u) /\ Edge(u)
    BY <2>2, <2>3 DEF Lives, Agree, Edge, SameFlags
  <2> QED BY <2>2, <2>3, <2>4, <2>6, <2>7, StaysTrans, SameRopTrans DEF Sound, SameFlags
<1>3. CASE ~(s.write.is_closing \/ s.write.closed) /\ ~(~s.in_flight /\ s.buffer_size = 0)
  <2>1. r = [s EXCEPT !.write.is_closing = TRUE, !.write.lost_callback = FALSE]
    BY <1>3 DEF write_close
  <2>2. /\ r.write = [s.write EXCEPT !.is_closing = TRUE, !.lost_callback = FALSE]
        /\ r.read = s.read /\ r.rop = s.rop /\ SameQueue(s, r) /\ SameFlags(s, r)
    BY <2>1 DEF Sound, WShape, SameQueue, SameFlags
  <2>3. r.write.is_closing /\ ~r.write.lost_callback /\ r.write.closed = s.write.closed /\ WShape(r)
    <3>1. WShape(s)
      BY DEF Sound
    <3>2. r.write.is_closing /\ ~r.write.lost_callback /\ r.write.closed = s.write.closed
      BY <2>2, <3>1 DEF WShape
    <3>3. DOMAIN r = DOMAIN s /\ DOMAIN r.write = DOMAIN s.write
      BY <2>1, <2>2, <3>1 DEF WShape
    <3>4. r.read = s.read /\ r.rop = s.rop /\ r.wop = s.wop
      BY <2>1, <2>2, <3>1 DEF WShape
    <3>5. WShape(r)
      BY <3>1, <3>3, <3>4 DEF WShape
    <3> QED BY <3>2, <3>5
  <2>4. Sound(r, b, c) /\ SameRop(s, r)
    BY <1>3, <2>2, <2>3 DEF SameQueue, SameFlags, SameRop, Sound, Driven
  <2>5. Stays(s, r)
    BY <1>3, <2>2, <2>3 DEF SameQueue, SameFlags, Moves, Rises, Stays, Blames, Due, Sound
  <2>6. Lives(s, b) => Lives(r, b)
    BY <1>3, <2>2, <2>3 DEF Lives, Agree, Edge, Answers, SameFlags
  <2> QED BY <1>3, <2>2, <2>3, <2>4, <2>5, <2>6 DEF SameFlags, Reported
<1> QED BY <1>1, <1>2, <1>3


(* close_transports closes both halves and remembers an error.             *)
LEMMA CloseTransportsKeeps ==
    ASSUME NEW s, NEW b, NEW c, Sound(s, b, c), NEW x, NEW r, r = close_transports(s, x)
    PROVE  /\ Sound(r, b, c) /\ SameRop(s, r) /\ Moves(s, r)
           /\ Blames(s) \/ (~s.closed /\ s.pending_lost_exc = "null" /\ x = "error") => Blames(r)
           /\ r.read.is_closing /\ r.write.is_closing /\ r.is_closing
           /\ ~s.closed \/ Reported(s) => Reported(r)
           /\ Agree(r) /\ Edge(r)
<1>1. PICK u : u = IF ~s.closed /\ s.pending_lost_exc = "null"
                   THEN [s EXCEPT !.pending_lost_exc = x] ELSE s
  OBVIOUS
<1>2. /\ u.read = s.read /\ u.write = s.write /\ u.rop = s.rop /\ SameQueue(s, u)
      /\ u.is_writing = s.is_writing /\ u.is_closing = s.is_closing /\ u.closed = s.closed
      /\ u.connection_lost_notified = s.connection_lost_notified
      /\ u.soon = s.soon /\ u.exc = s.exc /\ u.broken = s.broken /\ u.failed = s.failed
      /\ WShape(u)
  BY <1>1 DEF Sound, WShape, SameQueue
<1>3. u.pending_lost_exc = IF ~s.closed /\ s.pending_lost_exc = "null" THEN x
                           ELSE s.pending_lost_exc
  BY <1>1 DEF Sound, WShape
<1>4. Sound(u, b, c)
  BY <1>2 DEF Sound, SameQueue, Driven
<1>5. Blames(s) \/ (~s.closed /\ s.pending_lost_exc = "null" /\ x = "error") => Blames(u)
  BY <1>2, <1>3 DEF Sound, Blames
<1>6. PICK v : v = read_close(u)
  OBVIOUS
<1>7. /\ Sound(v, b, c) /\ Stays(u, v) /\ SameRop(u, v)
      /\ v.read.is_closing /\ v.write = u.write /\ v.is_closing = u.is_closing
      /\ Reported(u) => Reported(v)
  BY <1>4, <1>6, ReadCloseKeeps
<1>8. PICK w : w = write_close(v)
  OBVIOUS
<1>9. /\ Sound(w, b, c) /\ Stays(v, w) /\ SameRop(v, w)
      /\ w.write.is_closing /\ w.read = v.read /\ w.is_closing = v.is_closing
      /\ Reported(v) => Reported(w)
  BY <1>7, <1>8, WriteCloseKeeps
<1>10. Stays(u, w) /\ SameRop(u, w)
  BY <1>4, <1>7, <1>9, StaysTrans, SameRopTrans DEF Sound
<1>11. PICK y : y = IF s.closed THEN [w EXCEPT !.is_reading = FALSE, !.is_closing = TRUE]
                    ELSE [w EXCEPT !.is_reading = FALSE, !.is_closing = TRUE, !.attached = FALSE]
  OBVIOUS
<1>12. /\ y.read = w.read /\ y.write = w.write /\ y.rop = w.rop /\ SameQueue(w, y)
       /\ y.is_writing = w.is_writing /\ y.is_closing /\ y.closed = w.closed
       /\ y.connection_lost_notified = w.connection_lost_notified
       /\ y.soon = w.soon /\ y.exc = w.exc /\ y.broken = w.broken /\ y.failed = w.failed
       /\ y.pending_lost_exc = w.pending_lost_exc
       /\ WShape(y)
  BY <1>9, <1>11 DEF Sound, WShape, SameQueue
<1>13. Sound(y, b, c) /\ SameRop(w, y)
  BY <1>9, <1>12 DEF Sound, SameQueue, SameRop, Driven
<1>14. Stays(w, y)
  BY <1>9, <1>12 DEF Sound, SameQueue, Moves, Rises, Stays, Blames, Due
<1>15. Stays(u, y) /\ SameRop(u, y)
  BY <1>4, <1>10, <1>13, <1>14, StaysTrans, SameRopTrans DEF Sound
<1>16. y.read.is_closing /\ y.write.is_closing /\ (Reported(s) => Reported(y))
  BY <1>2, <1>7, <1>9, <1>12 DEF Reported
<1>17. /\ Sound(r, b, c) /\ Stays(u, r) /\ SameRop(u, r)
       /\ r.read.is_closing /\ r.write.is_closing /\ r.is_closing
       /\ ~s.closed \/ Reported(s) => Reported(r)
  <2>1. CASE s.closed
    <3>1. r = y
      BY <1>1, <1>6, <1>8, <1>11, <2>1 DEF close_transports
    <3> QED BY <1>12, <1>13, <1>15, <1>16, <2>1, <3>1
  <2>2. CASE ~s.closed
    <3>1. r = maybe_close_fd(y)
      BY <1>1, <1>6, <1>8, <1>11, <2>2 DEF close_transports
    <3>2. /\ Sound(r, b, c) /\ Stays(y, r) /\ SameRop(y, r) /\ Reported(r)
          /\ r.read = y.read /\ r.write = y.write /\ r.is_closing = y.is_closing
      BY <1>13, <3>1, MaybeCloseKeeps
    <3> QED BY <1>4, <1>12, <1>15, <1>16, <3>2, StaysTrans, SameRopTrans DEF Sound
  <2> QED BY <2>1, <2>2
<1>18. SameRop(s, r)
  BY <1>2, <1>17 DEF SameRop
<1>19. Moves(s, r)
  BY <1>2, <1>17 DEF Stays, Moves, Rises, SameQueue, Due
<1>20. Agree(r) /\ Edge(r)
  BY <1>17 DEF Agree, Edge
<1> QED BY <1>5, <1>17, <1>18, <1>19, <1>20 DEF Stays

(* close() of the transport.                                               *)
LEMMA TransportCloseKeeps ==
    ASSUME NEW s, NEW b, NEW c, Sound(s, b, c), NEW r, r = transport_close(s)
    PROVE  /\ Sound(r, b, c) /\ Stays(s, r)
           /\ Lives(s, b) => Lives(r, b)
<1>1. CASE s.is_closing \/ s.closed
  BY <1>1, StaysRefl DEF transport_close
<1>2. CASE ~(s.is_closing \/ s.closed)
  <2>1. PICK u : u = [s EXCEPT !.is_closing = TRUE]
    OBVIOUS
  <2>2. /\ u.read = s.read /\ u.write = s.write /\ u.rop = s.rop /\ SameQueue(s, u)
        /\ u.is_writing = s.is_writing /\ u.is_closing /\ u.closed = s.closed
        /\ u.connection_lost_notified = s.connection_lost_notified
        /\ u.soon = s.soon /\ u.exc = s.exc /\ u.broken = s.broken /\ u.failed = s.failed
        /\ u.pending_lost_exc = s.pending_lost_exc
        /\ WShape(u)
    BY <2>1 DEF Sound, WShape, SameQueue
  <2>3. Sound(u, b, c)
    BY <2>2 DEF Sound, SameQueue, Driven
  <2>4. Stays(s, u)
    BY <2>2 DEF Sound, SameQueue, Moves, Rises, Stays, Blames, Due
  <2>5. CASE s.read.closed /\ s.write.closed
    <3>1. PICK v : v = [u EXCEPT !.closed = TRUE]
      OBVIOUS
    <3>2. /\ v.read = u.read /\ v.write = u.write /\ v.rop = u.rop /\ SameQueue(u, v)
          /\ v.is_writing = u.is_writing /\ v.is_closing /\ v.closed
          /\ v.connection_lost_notified = u.connection_lost_notified
          /\ v.soon = u.soon /\ v.exc = u.exc /\ v.broken = u.broken /\ v.failed = u.failed
          /\ v.pending_lost_exc = u.pending_lost_exc
          /\ WShape(v)
      BY <2>2, <3>1 DEF WShape, SameQueue
    <3>3. Sound(v, b, c)
      BY <2>3, <3>2 DEF Sound, SameQueue, Driven
    <3>4. Stays(u, v)
      BY <2>3, <3>2 DEF Sound, SameQueue, Moves, Rises, Stays, Blames, Due
    <3>5. PICK w : w = cancel_and_close_fd(v)
      OBVIOUS
    <3>6. /\ Sound(w, b, c) /\ Stays(v, w) /\ SameFlags(v, w)
          /\ w.read = v.read /\ w.write = v.write
      BY <3>3, <3>5, CloseFdKeeps
    <3>7. r = schedule_connection_lost_once(w)
      BY <1>2, <2>1, <2>5, <3>1, <3>5 DEF transport_close
    <3>8. /\ Sound(r, b, c) /\ Stays(w, r) /\ r.connection_lost_notified
          /\ r.read = w.read /\ r.write = w.write /\ r.is_closing = w.is_closing
      <4>1. w.closed /\ w.read.closed /\ w.write.closed
        BY <2>2, <2>5, <3>2, <3>6 DEF SameFlags
      <4> QED BY <3>6, <3>7, <4>1, ScheduleKeeps
    <3>9. Stays(s, r)
      <4>1. s.soon \in Nat /\ u.soon \in Nat /\ v.soon \in Nat
        BY <2>3, <3>3 DEF Sound
      <4>2. Stays(v, r)
        BY <3>6, <3>8, <4>1, StaysTrans
      <4>3. Stays(u, r)
        BY <3>4, <4>1, <4>2, StaysTrans
      <4> QED BY <2>4, <4>1, <4>3, StaysTrans
    <3>10. r.is_closing /\ r.read.closed /\ r.write.closed
      BY <2>2, <2>5, <3>2, <3>6, <3>8 DEF SameFlags
    <3> QED BY <3>8, <3>9, <3>10 DEF Lives, Agree, Edge, Answers, Sound
  <2>6. CASE ~(s.read.closed /\ s.write.closed)
    <3>1. r = close_transports(u, "None")
      BY <1>2, <2>1, <2>6 DEF transport_close
    <3>2. /\ Sound(r, b, c) /\ Moves(u, r)
          /\ Blames(u) => Blames(r)
          /\ ~u.closed => Reported(r)
          /\ Agree(r) /\ Edge(r)
      BY <2>3, <3>1, CloseTransportsKeeps
    <3>3. Stays(s, r)
      BY <2>4, <3>2, StaysTrans DEF Stays, Sound
    <3> QED BY <1>2, <2>2, <3>2, <3>3 DEF Lives, Answers, Reported
  <2> QED BY <2>5, <2>6
<1> QED BY <1>1, <1>2

(* Forcing the read half closed drops its report, not the other's.         *)
LEMMA ReadForceCloseKeeps ==
    ASSUME NEW s, NEW b, NEW c, Sound(s, b, c), NEW r, r = read_force_close(s)
    PROVE  /\ Sound(r, b, c) /\ Stays(s, r) /\ SameRop(s, r) /\ SameFlags(s, r)
           /\ r.read.closed /\ r.write = s.write
           /\ s.read.closed \/ ~r.read.lost_callback
<1>1. CASE s.read.closed
  BY <1>1, StaysRefl DEF read_force_close, SameFlags
<1>2. CASE ~s.read.closed
  <2>1. PICK u : u = [s EXCEPT !.read.closed = TRUE, !.read.is_closing = TRUE,
                               !.read.lost_callback = FALSE]
    OBVIOUS
  <2>2. /\ u.read = [s.read EXCEPT !.closed = TRUE, !.is_closing = TRUE, !.lost_callback = FALSE]
        /\ u.write = s.write /\ u.rop = s.rop /\ SameQueue(s, u) /\ SameFlags(s, u)
    BY <2>1 DEF Sound, WShape, SameQueue, SameFlags
  <2>3. /\ u.read.closed /\ u.read.is_closing /\ ~u.read.lost_callback
        /\ u.read.id = s.read.id /\ u.read.cancelling = s.read.cancelling /\ WShape(u)
    BY <2>1, <2>2 DEF Sound, WShape
  <2>4. Sound(u, b, c) /\ SameRop(s, u)
    BY <2>2, <2>3 DEF Sound, SameQueue, SameFlags, SameRop, Driven
  <2>5. Stays(s, u)
    BY <2>2, <2>3 DEF SameQueue, SameFlags, Moves, Rises, Stays, Blames, Due
  <2>6. CASE s.read.id /\ ~s.read.cancelling
    <3>1. r = CancelRead(u)
      BY <1>2, <2>1, <2>6 DEF read_force_close
    <3>2. /\ Sound(r, b, c) /\ Stays(u, r) /\ SameRop(u, r) /\ SameFlags(u, r)
          /\ r.read = [u.read EXCEPT !.cancelling = TRUE] /\ r.write = u.write
      BY <2>3, <2>4, <2>6, <3>1, CancelReadKeeps
    <3>3. r.read.closed /\ ~r.read.lost_callback
      BY <2>3, <3>2 DEF WShape
    <3>4. Stays(s, r) /\ SameRop(s, r)
      BY <2>4, <2>5, <3>2, StaysTrans, SameRopTrans DEF Sound
    <3> QED BY <2>2, <3>2, <3>3, <3>4 DEF SameFlags
  <2>7. CASE ~(s.read.id /\ ~s.read.cancelling)
    <3>1. r = u
      BY <1>2, <2>1, <2>7 DEF read_force_close
    <3> QED BY <2>2, <2>3, <2>4, <2>5, <3>1
  <2> QED BY <2>6, <2>7
<1> QED BY <1>1, <1>2

(* Forcing the write half closed, of a transport that gave up its backlog. *)
LEMMA WriteForceCloseKeeps ==
    ASSUME NEW s, NEW b, NEW c, Sound(s, b, c), s.closed, s.broken,
           NEW r, r = write_force_close(s)
    PROVE  /\ Sound(r, b, c) /\ Stays(s, r) /\ SameRop(s, r)
           /\ r.write.closed /\ r.read = s.read /\ r.is_closing = s.is_closing
           /\ s.write.closed => r = s
           /\ ~s.write.closed => Reported(r)
<1>1. CASE s.write.closed
  BY <1>1, StaysRefl DEF write_force_close
<1>2. CASE ~s.write.closed
  <2>1. PICK u : u = [s EXCEPT !.write.closed = TRUE, !.write.is_closing = TRUE,
                               !.write.lost_callback = FALSE]
    OBVIOUS
  <2>2. /\ u.write = [s.write EXCEPT !.closed = TRUE, !.is_closing = TRUE, !.lost_callback = FALSE]
        /\ u.read = s.read /\ u.rop = s.rop /\ u.wop = s.wop /\ SameQueue(s, u) /\ SameFlags(s, u)
    BY <2>1 DEF Sound, WShape, SameQueue, SameFlags
  <2>3. u.write.closed /\ u.write.is_closing /\ ~u.write.lost_callback /\ WShape(u)
    BY <2>1, <2>2 DEF Sound, WShape
  <2>4. Sound(u, b, c) /\ SameRop(s, u)
    BY <2>2, <2>3 DEF Sound, SameQueue, SameFlags, SameRop, Driven
  <2>5. Stays(s, u)
    BY <2>2, <2>3 DEF SameQueue, SameFlags, Moves, Rises, Stays, Blames, Due
  <2>6. PICK v : v = IF s.write.id /\ ~s.write.cancelling
                     THEN [CancelWrite(u) EXCEPT !.write.id = FALSE] ELSE u
    OBVIOUS
  <2>7. /\ Sound(v, b, c) /\ Stays(u, v) /\ SameRop(u, v) /\ SameFlags(u, v)
        /\ v.read = u.read /\ v.write.closed
    <3>1. CASE s.write.id /\ ~s.write.cancelling
      <4>1. PICK f : f = Flush(u)
        OBVIOUS
      <4>2. /\ Sound(f, b, c) /\ Stays(u, f) /\ SameRop(u, f) /\ SameFlags(u, f)
            /\ f.read = u.read /\ f.write = u.write
        BY <2>4, <4>1, FlushKeeps
      <4>3. v = [f EXCEPT !.wop = Cancelled(@), !.write.cancelling = TRUE, !.write.id = FALSE]
        BY <2>6, <3>1, <4>1 DEF CancelWrite
      <4>4. v.write = [f.write EXCEPT !.cancelling = TRUE, !.id = FALSE]
            /\ v.wop = Cancelled(f.wop)
        BY <4>2, <4>3 DEF Sound, WShape
      <4>5. /\ v.read = f.read /\ v.rop = f.rop /\ SameFlags(f, v)
            /\ v.in_flight = f.in_flight /\ v.bufs = f.bufs /\ v.index = f.index
            /\ v.offset = f.offset /\ v.buffer_size = f.buffer_size /\ v.total = f.total
            /\ v.exported = f.exported /\ v.high = f.high /\ v.low = f.low
            /\ v.called = f.called /\ DOMAIN v = DOMAIN f
        BY <4>2, <4>3 DEF Sound, WShape, SameFlags
      <4>6. /\ v.wop.res = f.wop.res /\ v.wop.from = f.wop.from /\ v.wop.len = f.wop.len
            /\ v.wop.at = f.wop.at /\ DOMAIN v.wop = DOMAIN f.wop
        BY <4>2, <4>4 DEF Sound, WShape, Cancelled
      <4>7. /\ v.write.closed = f.write.closed /\ v.write.is_closing = f.write.is_closing
            /\ v.write.lost_callback = f.write.lost_callback /\ DOMAIN v.write = DOMAIN f.write
        BY <4>2, <4>4 DEF Sound, WShape
      <4>8. SameQueue(f, v) /\ WShape(v)
        BY <4>2, <4>5, <4>6, <4>7 DEF SameQueue, Sound, WShape
      <4>9. Sound(v, b, c) /\ SameRop(f, v)
        BY <4>2, <4>5, <4>7, <4>8 DEF Sound, SameQueue, SameFlags, SameRop, Driven
      <4>10. Stays(f, v)
        BY <4>5, <4>7, <4>8 DEF SameQueue, SameFlags, Moves, Rises, Stays, Blames, Due
      <4> QED BY <2>3, <2>4, <4>2, <4>5, <4>7, <4>9, <4>10, StaysTrans, SameRopTrans
                 DEF Sound, SameFlags
    <3>2. CASE ~(s.write.id /\ ~s.write.cancelling)
      BY <2>3, <2>4, <2>6, <3>2, StaysRefl DEF SameFlags
    <3> QED BY <3>1, <3>2
  <2>8. r = maybe_close_fd(v)
    BY <1>2, <2>1, <2>6 DEF write_force_close
  <2>9. /\ Sound(r, b, c) /\ Stays(v, r) /\ SameRop(v, r) /\ Reported(r)
        /\ r.read = v.read /\ r.write = v.write /\ r.is_closing = v.is_closing
    BY <2>7, <2>8, MaybeCloseKeeps
  <2>10. Stays(s, r) /\ SameRop(s, r)
    BY <2>4, <2>5, <2>7, <2>9, StaysTrans, SameRopTrans DEF Sound
  <2> QED BY <1>2, <2>2, <2>7, <2>9, <2>10 DEF SameFlags
<1> QED BY <1>1, <1>2

(* abort() of the transport, and _force_close with an exception.           *)
LEMMA ForceCloseKeeps ==
    ASSUME NEW s, NEW b, NEW c, Sound(s, b, c), NEW x, NEW r, r = transport_force_close(s, x)
    PROVE  /\ Sound(r, b, c) /\ Stays(s, r)
           /\ Lives(s, b) => Lives(r, b)
<1>1. CASE s.closed
  BY <1>1, StaysRefl DEF transport_force_close
<1>2. CASE ~s.closed
  <2>1. PICK u : u = [BumpGeneration(s) EXCEPT !.attached = FALSE, !.closed = TRUE,
                          !.pending_lost_exc = x, !.broken = TRUE, !.failed = FALSE]
    OBVIOUS
  <2>2. /\ u.read = s.read /\ u.write = s.write /\ u.rop = s.rop /\ SameQueue(s, u)
        /\ u.is_writing = s.is_writing /\ u.is_closing = s.is_closing /\ u.closed
        /\ u.connection_lost_notified = s.connection_lost_notified
        /\ u.soon = s.soon /\ u.exc = s.exc /\ u.broken /\ ~u.failed
        /\ WShape(u)
    BY <2>1 DEF Sound, WShape, SameQueue, BumpGeneration
  <2>3. Sound(u, b, c) /\ SameRop(s, u)
    BY <2>2 DEF Sound, SameQueue, Driven, SameRop
  <2>4. Stays(s, u)
    BY <1>2, <2>2 DEF Sound, SameQueue, Moves, Rises, Stays, Blames, Due
  <2>5. PICK v : v = read_force_close(u)
    OBVIOUS
  <2>6. /\ Sound(v, b, c) /\ Stays(u, v) /\ SameRop(u, v) /\ SameFlags(u, v)
        /\ v.read.closed /\ v.write = u.write
        /\ u.read.closed \/ ~v.read.lost_callback
    BY <2>3, <2>5, ReadForceCloseKeeps
  <2>7. PICK w : w = write_force_close(v)
    OBVIOUS
  <2>8. /\ Sound(w, b, c) /\ Stays(v, w) /\ SameRop(v, w)
        /\ w.write.closed /\ w.read = v.read /\ w.is_closing = v.is_closing
        /\ v.write.closed => w = v
        /\ ~v.write.closed => Reported(w)
    <3>1. v.closed /\ v.broken
      BY <2>2, <2>6 DEF SameFlags
    <3> QED BY <2>6, <2>7, <3>1, WriteForceCloseKeeps
  <2>9. PICK y : y = [w EXCEPT !.is_reading = FALSE, !.is_writing = FALSE]
    OBVIOUS
  <2>10. /\ y.read = w.read /\ y.write = w.write /\ y.rop = w.rop /\ SameQueue(w, y)
         /\ y.is_closing = w.is_closing /\ y.closed = w.closed
         /\ y.connection_lost_notified = w.connection_lost_notified
         /\ y.soon = w.soon /\ y.exc = w.exc /\ y.broken = w.broken /\ y.failed = w.failed
         /\ y.pending_lost_exc = w.pending_lost_exc
         /\ WShape(y)
    BY <2>8, <2>9 DEF Sound, WShape, SameQueue
  <2>11. w.closed
    BY <2>2, <2>6, <2>8 DEF SameFlags, Stays, Moves, Rises
  <2>12. Sound(y, b, c) /\ SameRop(w, y)
    BY <2>8, <2>10 DEF Sound, SameQueue, Driven, SameRop
  <2>13. Stays(w, y)
    BY <2>10, <2>11 DEF SameQueue, Moves, Rises, Stays, Blames, Due
  <2>14. r = cancel_and_close_fd(y)
    BY <1>2, <2>1, <2>5, <2>7, <2>9 DEF transport_force_close
  <2>15. /\ Sound(r, b, c) /\ Stays(y, r) /\ SameRop(y, r) /\ SameFlags(y, r)
         /\ r.read = y.read /\ r.write = y.write
    BY <2>12, <2>14, CloseFdKeeps
  <2>16. Stays(s, r) /\ SameRop(s, r)
    <3>1. s.soon \in Nat /\ u.soon \in Nat /\ v.soon \in Nat /\ w.soon \in Nat
      BY <2>3, <2>6, <2>8 DEF Sound
    <3>2. Stays(s, v) /\ SameRop(s, v)
      BY <2>3, <2>4, <2>6, <3>1, StaysTrans, SameRopTrans
    <3>3. Stays(v, y) /\ SameRop(v, y)
      BY <2>8, <2>12, <2>13, <3>1, StaysTrans, SameRopTrans
    <3>4. Stays(v, r) /\ SameRop(v, r)
      BY <2>15, <3>1, <3>3, StaysTrans, SameRopTrans
    <3> QED BY <3>1, <3>2, <3>4, StaysTrans, SameRopTrans
  <2>17. ASSUME Lives(s, b)
         PROVE  Lives(r, b)
    <3>1. r.is_closing = s.is_closing /\ r.closed /\ r.read = v.read /\ r.write.closed
      BY <2>2, <2>6, <2>8, <2>10, <2>11, <2>15 DEF SameFlags
    <3>2. Agree(r)
      BY <2>6, <3>1 DEF Agree, Sound
    <3>3. Edge(r)
      BY <1>2, <2>2, <2>6, <2>15, <2>17, <3>1 DEF Edge, Lives, Agree, Sound
    <3>4. CASE s.write.closed /\ s.is_closing
      <4>1. s.connection_lost_notified \/ Driven(s, b)
        BY <2>17, <3>4 DEF Lives, Answers, Agree, Sound
      <4> QED BY <2>16, <3>2, <3>3, <4>1 DEF Lives, Answers, Driven, SameRop, Stays, Moves, Rises
    <3>5. CASE ~s.write.closed
      <4>1. w.connection_lost_notified
        BY <2>2, <2>6, <2>8, <3>5 DEF Reported
      <4> QED BY <2>10, <2>15, <3>2, <3>3, <4>1 DEF Lives, Answers, SameFlags
    <3>6. CASE ~s.is_closing
      BY <3>1, <3>2, <3>3, <3>6 DEF Lives, Answers
    <3> QED BY <3>4, <3>5, <3>6
  <2> QED BY <2>15, <2>16, <2>17
<1> QED BY <1>1, <1>2

(* read.is_reading is no part of it.                                       *)
LEMMA ReadingFlagKeeps ==
    ASSUME NEW s, NEW b, NEW c, Sound(s, b, c), NEW v, NEW r, r = [s EXCEPT !.is_reading = v]
    PROVE  /\ Sound(r, b, c) /\ Stays(s, r) /\ SameRop(s, r) /\ SameFlags(s, r)
           /\ r.read = s.read /\ r.write = s.write /\ r.rop = s.rop
           /\ Lives(s, b) => Lives(r, b)
<1>1. /\ r.read = s.read /\ r.write = s.write /\ r.rop = s.rop /\ SameQueue(s, r)
      /\ SameFlags(s, r) /\ WShape(r)
  BY DEF Sound, WShape, SameQueue, SameFlags
<1>2. Sound(r, b, c) /\ SameRop(s, r)
  BY <1>1 DEF Sound, SameQueue, Driven, SameRop, SameFlags
<1>3. Stays(s, r)
  BY <1>1 DEF SameQueue, Moves, Rises, Stays, Blames, Due, SameFlags
<1>4. Lives(s, b) => Lives(r, b)
  BY <1>1 DEF Lives, Agree, Edge, Answers, Driven, SameFlags
<1> QED BY <1>1, <1>2, <1>3, <1>4

(* pause_reading cancels a read and closes nothing.                        *)
LEMMA PauseReadingKeeps ==
    ASSUME NEW s, NEW b, NEW c, Sound(s, b, c), NEW r, r = transport_pause_reading(s)
    PROVE  /\ Sound(r, b, c) /\ Stays(s, r)
           /\ Lives(s, b) => Lives(r, b)
<1>1. CASE s.closed \/ ~s.is_reading
  BY <1>1, StaysRefl DEF transport_pause_reading
<1>2. CASE ~(s.closed \/ ~s.is_reading)
  <2>1. PICK u : u = IF s.read.id /\ ~s.read.cancelling THEN CancelRead(s) ELSE s
    OBVIOUS
  <2>2. Sound(u, b, c) /\ Stays(s, u) /\ (Lives(s, b) => Lives(u, b))
    <3>1. CASE s.read.id /\ ~s.read.cancelling
      <4>1. /\ Sound(u, b, c) /\ Stays(s, u) /\ SameRop(s, u) /\ SameFlags(s, u)
            /\ u.read = [s.read EXCEPT !.cancelling = TRUE] /\ u.write = s.write
        BY <2>1, <3>1, CancelReadKeeps
      <4>2. /\ u.read.is_closing = s.read.is_closing /\ u.read.closed = s.read.closed
            /\ u.read.lost_callback = s.read.lost_callback
        BY <4>1 DEF Sound, WShape
      <4> QED BY <4>1, <4>2 DEF Lives, Agree, Edge, Answers, Driven, SameFlags, SameRop
    <3>2. CASE ~(s.read.id /\ ~s.read.cancelling)
      BY <2>1, <3>2, StaysRefl
    <3> QED BY <3>1, <3>2
  <2>3. r = [u EXCEPT !.is_reading = FALSE]
    BY <1>2, <2>1 DEF transport_pause_reading
  <2>4. Sound(r, b, c) /\ Stays(u, r) /\ (Lives(u, b) => Lives(r, b))
    BY <2>2, <2>3, ReadingFlagKeeps
  <2> QED BY <2>2, <2>4, StaysTrans DEF Sound
<1> QED BY <1>1, <1>2

(* A new read starts only when the ring has none.                          *)
LEMMA QueueReadKeeps ==
    ASSUME NEW s, NEW b, NEW c, Sound(s, b, c), NEW r, r = queue_read_operation(s)
    PROVE  /\ Sound(r, b, c) /\ Stays(s, r) /\ SameFlags(s, r)
           /\ r.read.is_closing = s.read.is_closing /\ r.read.closed = s.read.closed
           /\ r.read.lost_callback = s.read.lost_callback
           /\ Lives(s, b) => Lives(r, b)
<1>1. CASE ~s.is_reading \/ s.read.is_closing \/ s.read.id
  BY <1>1, StaysRefl DEF queue_read_operation, SameFlags
<1>2. CASE ~(~s.is_reading \/ s.read.is_closing \/ s.read.id)
  <2>1. r = [s EXCEPT !.read.id = TRUE, !.rop = [NoOp EXCEPT !.at = "staged"]]
    BY <1>2 DEF queue_read_operation, perform
  <2>2. /\ r.read = [s.read EXCEPT !.id = TRUE] /\ r.rop = [NoOp EXCEPT !.at = "staged"]
        /\ r.write = s.write /\ SameQueue(s, r) /\ SameFlags(s, r) /\ DOMAIN r = DOMAIN s
        /\ r.wop = s.wop
    BY <2>1 DEF Sound, WShape, SameQueue, SameFlags
  <2>3. /\ r.read.id /\ r.read.is_closing = s.read.is_closing /\ r.read.closed = s.read.closed
        /\ r.read.lost_callback = s.read.lost_callback
        /\ r.read.cancelling = s.read.cancelling
        /\ DOMAIN r.read = DOMAIN s.read
    BY <2>2 DEF Sound, WShape
  <2>4. r.rop.at = "staged" /\ DOMAIN r.rop = {"at", "cancel", "res", "from", "len"}
    BY <2>2 DEF NoOp
  <2>5. WShape(r)
    BY <2>2, <2>3, <2>4 DEF Sound, WShape
  <2>6. Sound(r, b, c)
    BY <1>2, <2>2, <2>3, <2>4, <2>5 DEF Sound, SameQueue, Driven, SameFlags
  <2>7. Stays(s, r)
    BY <2>2, <2>3 DEF SameQueue, Moves, Rises, Stays, Blames, Due, SameFlags
  <2>8. Lives(s, b) => Lives(r, b)
    BY <1>2, <2>2, <2>3 DEF Lives, Agree, Edge, Answers, SameFlags, Sound
  <2> QED BY <2>2, <2>3, <2>6, <2>7, <2>8
<1> QED BY <1>1, <1>2

(* resume_reading starts a read and closes nothing.                        *)
LEMMA ResumeReadingHolds ==
    ASSUME NEW s, NEW b, NEW c, Sound(s, b, c), NEW r, r = transport_resume_reading(s)
    PROVE  /\ Sound(r, b, c) /\ Stays(s, r)
           /\ Lives(s, b) => Lives(r, b)
<1>1. CASE s.closed
  BY <1>1, StaysRefl DEF transport_resume_reading
<1>2. CASE ~s.closed
  <2>1. PICK u : u = [s EXCEPT !.is_reading = TRUE]
    OBVIOUS
  <2>2. Sound(u, b, c) /\ Stays(s, u) /\ (Lives(s, b) => Lives(u, b))
    BY <2>1, ReadingFlagKeeps
  <2>3. r = queue_read_operation(u)
    BY <1>2, <2>1 DEF transport_resume_reading
  <2>4. Sound(r, b, c) /\ Stays(u, r) /\ (Lives(u, b) => Lives(r, b))
    BY <2>2, <2>3, QueueReadKeeps
  <2> QED BY <2>2, <2>4, StaysTrans DEF Sound
<1> QED BY <1>1, <1>2

(* write_eof closes the write half after the backlog.                      *)
LEMMA WriteEofHolds ==
    ASSUME NEW s, NEW b, NEW c, Sound(s, b, c), NEW r, r = transport_write_eof(s)
    PROVE  /\ Sound(r, b, c) /\ Stays(s, r)
           /\ Lives(s, b) => Lives(r, b)
<1>1. CASE s.write.is_closing /\ ~s.eof_pending
  BY <1>1, StaysRefl DEF transport_write_eof
<1>2. CASE ~(s.write.is_closing /\ ~s.eof_pending)
  <2>1. PICK u : u = IF s.buffer_size > 0 \/ s.in_flight THEN [s EXCEPT !.eof_pending = TRUE]
                     ELSE [s EXCEPT !.fin = "staged"]
    OBVIOUS
  <2>2. /\ u.read = s.read /\ u.write = s.write /\ u.rop = s.rop /\ SameQueue(s, u)
        /\ SameFlags(s, u) /\ WShape(u)
    BY <2>1 DEF Sound, WShape, SameQueue, SameFlags
  <2>3. Sound(u, b, c)
    BY <2>2 DEF Sound, SameQueue, Driven, SameFlags
  <2>4. Stays(s, u)
    BY <2>2 DEF SameQueue, Moves, Rises, Stays, Blames, Due, SameFlags
  <2>5. Lives(s, b) => Lives(u, b)
    BY <2>2 DEF Lives, Agree, Edge, Answers, Driven, SameFlags
  <2>6. r = write_close(u)
    BY <1>2, <2>1 DEF transport_write_eof, queue_eof
  <2>7. Sound(r, b, c) /\ Stays(u, r) /\ (Lives(u, b) => Lives(r, b))
    BY <2>3, <2>6, WriteCloseKeeps
  <2> QED BY <2>3, <2>4, <2>5, <2>7, StaysTrans DEF Sound
<1> QED BY <1>1, <1>2

(* The end of a read's callback: what it starts, and what it closes.       *)
LEMMA ReadReturnsKeeps ==
    ASSUME NEW s, NEW b, NEW c, Sound(s, b, c), Lives(s, b), Blames(s), NEW x,
           NEW r, r = ReadReturns(s, x)
    PROVE  Sound(r, b, c) /\ Moves(s, r) /\ Blames(r) /\ Lives(r, b)
<1>1. CASE (x # "error" \/ s.read.is_closing) /\ ~s.read.is_closing
  BY <1>1, StaysRefl DEF ReadReturns, Stays
<1>2. CASE s.read.is_closing
  <2>1. PICK u : u = [s EXCEPT !.read.closed = TRUE]
    OBVIOUS
  <2>2. /\ u.read = [s.read EXCEPT !.closed = TRUE]
        /\ u.write = s.write /\ u.rop = s.rop /\ SameQueue(s, u) /\ SameFlags(s, u)
    BY <2>1 DEF Sound, WShape, SameQueue, SameFlags
  <2>3. /\ u.read.closed /\ u.read.is_closing = s.read.is_closing
        /\ u.read.lost_callback = s.read.lost_callback
        /\ u.read.id = s.read.id /\ u.read.cancelling = s.read.cancelling /\ WShape(u)
    BY <2>1, <2>2 DEF Sound, WShape
  <2>4. Sound(u, b, c)
    BY <1>2, <2>2, <2>3 DEF Sound, SameQueue, SameFlags, Driven
  <2>5. Moves(s, u) /\ Blames(u)
    BY <1>2, <2>2, <2>3 DEF SameQueue, SameFlags, Moves, Rises, Blames, Due
  <2>6. Agree(u) /\ Edge(u)
    BY <2>2, <2>3 DEF Lives, Agree, Edge, SameFlags
  <2>7. r = maybe_close_fd(u)
    BY <1>2, <2>1 DEF ReadReturns
  <2>8. Sound(r, b, c) /\ Stays(u, r) /\ Lives(r, b)
    BY <2>4, <2>6, <2>7, MaybeCloseKeeps
  <2> QED BY <2>5, <2>8, MovesTrans DEF Stays, Sound
<1>3. CASE x = "error" /\ ~s.read.is_closing
  <2>1. ~s.is_closing /\ ~s.closed /\ s.pending_lost_exc = "null" /\ s.read.lost_callback
        /\ ~s.connection_lost_notified
    BY <1>3 DEF Lives, Agree, Edge, Sound
  <2>2. PICK u : u = [s EXCEPT !.read.is_closing = TRUE, !.read.closed = TRUE,
                               !.broken = TRUE, !.failed = @ \/ ~s.is_closing]
    OBVIOUS
  <2>3. /\ u.read = [s.read EXCEPT !.is_closing = TRUE, !.closed = TRUE]
        /\ u.write = s.write /\ u.rop = s.rop /\ SameQueue(s, u)
        /\ u.is_writing = s.is_writing /\ u.is_closing = s.is_closing /\ u.closed = s.closed
        /\ u.connection_lost_notified = s.connection_lost_notified
        /\ u.soon = s.soon /\ u.exc = s.exc /\ u.broken
        /\ u.pending_lost_exc = s.pending_lost_exc
    BY <2>2 DEF Sound, WShape, SameQueue
  <2>4. /\ u.read.closed /\ u.read.is_closing
        /\ u.read.lost_callback = s.read.lost_callback
        /\ u.read.id = s.read.id /\ u.read.cancelling = s.read.cancelling /\ WShape(u)
    BY <2>2, <2>3 DEF Sound, WShape
  <2>5. Sound(u, b, c)
    BY <2>1, <2>3, <2>4 DEF Sound, SameQueue, Driven
  <2>6. Moves(s, u)
    BY <2>3, <2>4 DEF SameQueue, Moves, Rises, Due
  <2>7. r = close_transports(u, "error")
    BY <1>3, <2>1, <2>2 DEF ReadReturns
  <2>8. /\ Sound(r, b, c) /\ Moves(u, r) /\ Agree(r) /\ Edge(r)
        /\ Blames(u) \/ (~u.closed /\ u.pending_lost_exc = "null" /\ "error" = "error") => Blames(r)
        /\ ~u.closed => Reported(r)
    BY <2>5, <2>7, CloseTransportsKeeps
  <2>9. Blames(r) /\ Reported(r)
    BY <2>1, <2>3, <2>8
  <2> QED BY <2>6, <2>8, <2>9, MovesTrans DEF Sound, Lives, Answers, Reported
<1> QED BY <1>1, <1>2, <1>3

(* The end of a read's callback when protocol code raised.                 *)
LEMMA ReadRaisesKeeps ==
    ASSUME NEW s, NEW b, NEW c, Sound(s, b, c), Lives(s, b), Blames(s),
           NEW r, r = ReadRaises(s)
    PROVE  Sound(r, b, c) /\ Moves(s, r) /\ Blames(r) /\ Lives(r, b)
<1>1. PICK m : m = maybe_close_fd(s)
  OBVIOUS
<1>2. Sound(m, b, c) /\ Stays(s, m) /\ Lives(m, b)
  BY <1>1, MaybeCloseKeeps DEF Lives
<1>3. PICK e : e = [m EXCEPT !.broken = TRUE,
                       !.failed = @ \/ (m.read.lost_callback /\ ~m.is_closing)]
  OBVIOUS
<1>4. /\ e.read = m.read /\ e.write = m.write /\ e.rop = m.rop /\ SameQueue(m, e)
      /\ e.is_writing = m.is_writing /\ e.is_closing = m.is_closing /\ e.closed = m.closed
      /\ e.connection_lost_notified = m.connection_lost_notified
      /\ e.soon = m.soon /\ e.exc = m.exc /\ e.broken
      /\ e.pending_lost_exc = m.pending_lost_exc
      /\ e.failed = (m.failed \/ (m.read.lost_callback /\ ~m.is_closing))
      /\ WShape(e)
  BY <1>2, <1>3 DEF Sound, WShape, SameQueue
<1>5. Sound(e, b, c)
  BY <1>2, <1>4 DEF Sound, SameQueue, Driven
<1>6. Moves(m, e)
  BY <1>4 DEF SameQueue, Moves, Rises, Due
<1>7. PICK d : d = IF m.read.lost_callback THEN close_transports(e, "error") ELSE e
  OBVIOUS
<1>8. /\ Sound(d, b, c) /\ Moves(e, d) /\ Agree(d) /\ Edge(d) /\ Blames(d)
      /\ d.read.is_closing
  <2>1. CASE m.read.lost_callback
    <3>1. Blames(e) \/ (~e.closed /\ e.pending_lost_exc = "null")
      <4>1. CASE m.is_closing
        BY <1>2, <1>4, <4>1 DEF Blames, Stays
      <4>2. CASE ~m.is_closing
        BY <1>2, <1>4, <2>1, <4>2 DEF Lives, Edge
      <4> QED BY <4>1, <4>2
    <3>2. /\ Sound(d, b, c) /\ Moves(e, d) /\ Agree(d) /\ Edge(d) /\ d.read.is_closing
          /\ Blames(e) \/ (~e.closed /\ e.pending_lost_exc = "null" /\ "error" = "error") => Blames(d)
      BY <1>5, <1>7, <2>1, CloseTransportsKeeps
    <3> QED BY <3>1, <3>2
  <2>2. CASE ~m.read.lost_callback
    <3>1. d = e
      BY <1>7, <2>2
    <3>2. Agree(d) /\ Edge(d) /\ Blames(d)
      BY <1>2, <1>4, <2>2, <3>1 DEF Lives, Agree, Edge, Blames, Stays
    <3>3. d.read.is_closing
      BY <1>2, <1>4, <2>2, <3>1 DEF Sound
    <3> QED BY <1>5, <3>1, <3>2, <3>3, StaysRefl DEF Stays
  <2> QED BY <2>1, <2>2
<1>9. PICK u : u = [d EXCEPT !.read.is_closing = TRUE, !.read.closed = TRUE,
                             !.read.id = FALSE, !.read.cancelling = FALSE]
  OBVIOUS
<1>10. /\ u.read = [d.read EXCEPT !.is_closing = TRUE, !.closed = TRUE,
                                  !.id = FALSE, !.cancelling = FALSE]
       /\ u.write = d.write /\ u.rop = d.rop /\ SameQueue(d, u) /\ SameFlags(d, u)
  BY <1>8, <1>9 DEF Sound, WShape, SameQueue, SameFlags
<1>11. /\ u.read.closed /\ u.read.is_closing /\ ~u.read.id /\ ~u.read.cancelling
       /\ u.read.lost_callback = d.read.lost_callback /\ WShape(u)
  BY <1>8, <1>9, <1>10 DEF Sound, WShape
<1>12. Sound(u, b, c)
  BY <1>8, <1>10, <1>11 DEF Sound, SameQueue, SameFlags
<1>13. Moves(d, u) /\ Blames(u) /\ Agree(u) /\ Edge(u)
  BY <1>8, <1>10, <1>11 DEF Moves, Rises, SameQueue, SameFlags, Blames, Agree, Edge, Due
<1>14. r = maybe_close_fd(u)
  BY <1>1, <1>3, <1>7, <1>9 DEF ReadRaises
<1>15. Sound(r, b, c) /\ Stays(u, r) /\ Lives(r, b)
  BY <1>12, <1>13, <1>14, MaybeCloseKeeps
<1>16. Moves(s, r)
  <2>1. s.soon \in Nat /\ m.soon \in Nat /\ e.soon \in Nat /\ d.soon \in Nat
    BY <1>2, <1>5, <1>8 DEF Sound
  <2>2. Moves(s, e)
    BY <1>2, <1>6, <2>1, MovesTrans DEF Stays
  <2>3. Moves(d, r)
    BY <1>13, <1>15, <2>1, MovesTrans DEF Stays
  <2>4. Moves(e, r)
    BY <1>8, <2>1, <2>3, MovesTrans
  <2> QED BY <2>1, <2>2, <2>4, MovesTrans
<1> QED BY <1>13, <1>15, <1>16 DEF Stays

(* The error is noted, and closes a transport whose write half can still   *)
(* report it.                                                              *)
GiveUp(m, v) ==
    LET e == [m EXCEPT !.broken = TRUE, !.failed = v] IN
    IF m.write.lost_callback THEN close_transports(e, "error") ELSE e

(* A write that failed gives the transport's error, once.                  *)
LEMMA GiveUpKeeps ==
    ASSUME NEW m, NEW b, NEW c, Sound(m, b, c), Agree(m), Edge(m), Blames(m),
           NEW v, v <=> m.failed \/ (m.write.lost_callback /\ ~m.is_closing),
           NEW d, d = GiveUp(m, v)
    PROVE  /\ Sound(d, b, c) /\ Moves(m, d) /\ Agree(d) /\ Edge(d) /\ Blames(d)
           /\ d.write.is_closing /\ d.broken
<1>1. PICK e : e = [m EXCEPT !.broken = TRUE, !.failed = v]
  OBVIOUS
<1>2. d = IF m.write.lost_callback THEN close_transports(e, "error") ELSE e
  BY <1>1 DEF GiveUp
<1>4. /\ e.read = m.read /\ e.write = m.write /\ e.rop = m.rop /\ SameQueue(m, e)
      /\ e.is_writing = m.is_writing /\ e.is_closing = m.is_closing /\ e.closed = m.closed
      /\ e.connection_lost_notified = m.connection_lost_notified
      /\ e.soon = m.soon /\ e.exc = m.exc /\ e.broken
      /\ e.pending_lost_exc = m.pending_lost_exc
      /\ e.failed = v
      /\ WShape(e)
  BY <1>1 DEF Sound, WShape, SameQueue
<1>5. Sound(e, b, c)
  BY <1>4 DEF Sound, SameQueue, Driven
<1>6. Moves(m, e)
  BY <1>4 DEF SameQueue, Moves, Rises, Due
<1>7. CASE m.write.lost_callback
  <2>1. Blames(e) \/ (~e.closed /\ e.pending_lost_exc = "null")
    <3>1. CASE m.is_closing
      BY <1>4, <3>1 DEF Blames
    <3>2. CASE ~m.is_closing
      BY <1>4, <1>7, <3>2 DEF Edge, Sound
    <3> QED BY <3>1, <3>2
  <2>2. /\ Sound(d, b, c) /\ Moves(e, d) /\ Agree(d) /\ Edge(d) /\ d.write.is_closing
        /\ Blames(e) \/ (~e.closed /\ e.pending_lost_exc = "null" /\ "error" = "error") => Blames(d)
    <3>1. d = close_transports(e, "error")
      BY <1>2, <1>7
    <3>2. Agree(e) /\ Edge(e)
      BY <1>4 DEF Agree, Edge
    <3> QED BY <1>5, <3>1, <3>2, CloseTransportsKeeps, ZenonT(60)
  <2>3. Moves(m, d)
    BY <1>6, <2>2, MovesTrans DEF Sound
  <2>4. d.broken
    BY <1>4, <2>2 DEF Moves, Rises
  <2> QED BY <2>1, <2>2, <2>3, <2>4
<1>8. CASE ~m.write.lost_callback
  <2>1. d = e
    BY <1>2, <1>8
  <2>2. Agree(d) /\ Edge(d) /\ Blames(d)
    BY <1>4, <1>8, <2>1 DEF Agree, Edge, Blames
  <2>3. d.write.is_closing
    BY <1>4, <1>8, <2>1 DEF Sound
  <2> QED BY <1>4, <1>5, <1>6, <2>1, <2>2, <2>3
<1> QED BY <1>7, <1>8

(* A failed write closes the write half.                                   *)
LEMMA WriteFailsKeeps ==
    ASSUME NEW s, NEW b, NEW c, Sound(s, b, c), Agree(s), Edge(s), Blames(s), ~s.in_flight,
           NEW r, r = WriteFails(s)
    PROVE  /\ Sound(r, b, c) /\ Moves(s, r) /\ Blames(r) /\ Lives(r, b) /\ r.write.closed
<1>1. PICK v : v = (s.failed \/ (~s.write.is_closing /\ ~s.is_closing))
  OBVIOUS
<1>2. v <=> s.failed \/ (s.write.lost_callback /\ ~s.is_closing)
  BY <1>1 DEF Sound
<1>3. PICK e : e = [s EXCEPT !.broken = TRUE, !.failed = v]
  OBVIOUS
<1>4. PICK d : d = IF s.write.lost_callback THEN close_transports(e, "error") ELSE e
  OBVIOUS
<1>5. /\ Sound(d, b, c) /\ Moves(s, d) /\ Agree(d) /\ Edge(d) /\ Blames(d)
      /\ d.write.is_closing /\ d.broken
  <2>1. d = GiveUp(s, v)
    BY <1>3, <1>4 DEF GiveUp
  <2> QED BY <1>2, <2>1, GiveUpKeeps, ZenonT(60)
<1>6. PICK u : u = [d EXCEPT !.write.is_closing = TRUE, !.write.closed = TRUE]
  OBVIOUS
<1>7. /\ u.write = [d.write EXCEPT !.is_closing = TRUE, !.closed = TRUE]
      /\ u.read = d.read /\ u.rop = d.rop /\ SameQueue(d, u) /\ SameFlags(d, u)
  BY <1>5, <1>6 DEF Sound, WShape, SameQueue, SameFlags
<1>8. /\ u.write.closed /\ u.write.is_closing /\ u.write.lost_callback = d.write.lost_callback
      /\ WShape(u)
  BY <1>5, <1>6, <1>7 DEF Sound, WShape
<1>9. Sound(u, b, c)
  <2>1. ~d.in_flight
    BY <1>5 DEF Moves, SameQueue
  <2> QED BY <1>5, <1>7, <1>8, <2>1 DEF Sound, SameQueue, SameFlags, Driven
<1>10. Moves(d, u) /\ Blames(u) /\ Agree(u) /\ Edge(u)
  BY <1>5, <1>7, <1>8 DEF Moves, Rises, SameQueue, SameFlags, Blames, Agree, Edge, Due
<1>11. r = maybe_close_fd(u)
  <2>1. ~s.write.is_closing /\ s.write.lost_callback <=> s.write.lost_callback
    BY DEF Sound
  <2> QED BY <1>1, <1>3, <1>4, <1>6, <2>1 DEF WriteFails
<1>12. Sound(r, b, c) /\ Stays(u, r) /\ Lives(r, b) /\ r.write = u.write
  BY <1>9, <1>10, <1>11, MaybeCloseKeeps
<1>13. Moves(s, r)
  <2>1. s.soon \in Nat /\ d.soon \in Nat
    BY <1>5 DEF Sound
  <2>2. Moves(d, r)
    BY <1>10, <1>12, <2>1, MovesTrans DEF Stays
  <2> QED BY <1>5, <2>1, <2>2, MovesTrans
<1> QED BY <1>8, <1>10, <1>12, <1>13 DEF Stays

(* resume_writing that raises closes the write half.                       *)
LEMMA ResumeRaisesKeeps ==
    ASSUME NEW s, NEW b, NEW c, Sound(s, b, c), Lives(s, b), Blames(s), ~s.in_flight,
           NEW r, r = ResumeRaises(s)
    PROVE  /\ Sound(r, b, c) /\ Moves(s, r) /\ Blames(r) /\ Lives(r, b) /\ r.write.closed
<1>1. PICK m : m = maybe_close_fd(s)
  OBVIOUS
<1>2. Sound(m, b, c) /\ Stays(s, m) /\ Lives(m, b)
  BY <1>1, MaybeCloseKeeps DEF Lives
<1>3. PICK v : v = (m.failed \/ (m.write.lost_callback /\ ~m.is_closing))
  OBVIOUS
<1>4. PICK e : e = [m EXCEPT !.broken = TRUE, !.failed = v]
  OBVIOUS
<1>5. PICK d : d = IF m.write.lost_callback THEN close_transports(e, "error") ELSE e
  OBVIOUS
<1>6. /\ Sound(d, b, c) /\ Moves(m, d) /\ Agree(d) /\ Edge(d) /\ Blames(d)
      /\ d.write.is_closing /\ d.broken
  <2>1. d = GiveUp(m, v)
    BY <1>4, <1>5 DEF GiveUp
  <2>2. Agree(m) /\ Edge(m) /\ Blames(m)
    BY <1>2 DEF Lives, Stays
  <2> QED BY <1>2, <1>3, <2>1, <2>2, GiveUpKeeps, ZenonT(60)
<1>7. PICK u : u = [d EXCEPT !.write.is_closing = TRUE, !.write.closed = TRUE,
                             !.write.cancelling = FALSE]
  OBVIOUS
<1>8. /\ u.write = [d.write EXCEPT !.is_closing = TRUE, !.closed = TRUE, !.cancelling = FALSE]
      /\ u.read = d.read /\ u.rop = d.rop /\ SameQueue(d, u) /\ SameFlags(d, u)
  BY <1>6, <1>7 DEF Sound, WShape, SameQueue, SameFlags
<1>9. /\ u.write.closed /\ u.write.is_closing /\ u.write.lost_callback = d.write.lost_callback
      /\ WShape(u)
  BY <1>6, <1>7, <1>8 DEF Sound, WShape
<1>10. Sound(u, b, c)
  <2>1. ~d.in_flight
    BY <1>2, <1>6 DEF Stays, Moves, SameQueue
  <2> QED BY <1>6, <1>8, <1>9, <2>1 DEF Sound, SameQueue, SameFlags, Driven
<1>11. Moves(d, u) /\ Blames(u) /\ Agree(u) /\ Edge(u)
  BY <1>6, <1>8, <1>9 DEF Moves, Rises, SameQueue, SameFlags, Blames, Agree, Edge, Due
<1>12. r = maybe_close_fd(u)
  BY <1>1, <1>3, <1>4, <1>5, <1>7 DEF ResumeRaises
<1>13. Sound(r, b, c) /\ Stays(u, r) /\ Lives(r, b) /\ r.write = u.write
  BY <1>10, <1>11, <1>12, MaybeCloseKeeps
<1>14. Moves(s, r)
  <2>1. s.soon \in Nat /\ m.soon \in Nat /\ d.soon \in Nat
    BY <1>2, <1>6 DEF Sound
  <2>2. Moves(d, r)
    BY <1>11, <1>13, <2>1, MovesTrans DEF Stays
  <2>3. Moves(m, r)
    BY <1>6, <2>1, <2>2, MovesTrans
  <2> QED BY <1>2, <2>1, <2>3, MovesTrans DEF Stays
<1> QED BY <1>9, <1>11, <1>13, <1>14 DEF Stays

-----------------------------------------------------------------------------
(* The bytes                                                               *)

(* What is left of the current buffer.                                     *)
Rest(s) == s.bufs[s.index + 1].len - s.offset

(* Bytes that the kernel took and no callback has counted: cb is the       *)
(* callback of a write.                                                    *)
Took(s, cb) ==
    IF s.wop.at = "done" /\ s.wop.res = "data" THEN s.wop.len
    ELSE IF cb.res = "data" THEN cb.len ELSE 0

(* The buffers from the current one on hold the bytes from acked to end.   *)
Queue(s, acked, end) ==
    /\ s.bufs \in Seq([from : Nat, len : Nat \ {0}])
    /\ s.index \in 0 .. Len(s.bufs) /\ s.offset \in Nat
    /\ \A i \in s.index + 1 .. Len(s.bufs) :
        /\ s.bufs[i].from + s.bufs[i].len <= end
        /\ s.bufs[i].from + s.bufs[i].len =
               IF i = Len(s.bufs) THEN end ELSE s.bufs[i + 1].from
    /\ IF s.index < Len(s.bufs)
       THEN s.bufs[s.index + 1].from + s.offset = acked /\ s.offset < s.bufs[s.index + 1].len
       ELSE acked = end /\ s.offset = 0

(* The write queue against the bytes that were written (w) and sent (n).   *)
Bytes(s, cb, w, n) ==
    /\ w \in Nat /\ n \in Nat
    /\ s.wop.at \in {"none", "staged", "flight", "done"}
    /\ Queue(s, n - Took(s, cb), w)
    /\ s.in_flight <=> s.wop.at # "none" \/ cb.res # "none"
    /\ s.wop.at = "none" \/ cb.res = "none"
    /\ s.in_flight => s.index < Len(s.bufs) /\ Took(s, cb) <= Rest(s)
    /\ s.wop.at \in {"staged", "flight"} => s.wop.from = n /\ s.wop.len = Rest(s)
    /\ Took(s, cb) \in Nat
    /\ (s.wop.at = "done" /\ s.wop.res = "data") \/ cb.res = "data" => Took(s, cb) > 0
    /\ s.wop.at = "done" => s.wop.res # "none"
    /\ s.buffer_size = w - n + Took(s, cb)
    /\ s.exported = Len(s.bufs) - s.index

(* A step that leaves the write queue alone keeps its bytes.               *)
LEMMA SameQueueBytes ==
    ASSUME NEW s, NEW r, NEW cb, NEW w, NEW n, Bytes(s, cb, w, n), SameQueue(s, r)
    PROVE  Bytes(r, cb, w, n)
<1>1. Took(r, cb) = Took(s, cb) /\ Rest(r) = Rest(s)
  BY DEF Took, Rest, SameQueue
<1>2. Queue(r, n - Took(r, cb), w)
  BY <1>1 DEF Bytes, Queue, SameQueue
<1> QED BY <1>1, <1>2 DEF Bytes, SameQueue

(* The elements of a sequence.                                             *)
LEMMA SeqFacts ==
    ASSUME NEW S, NEW q \in Seq(S)
    PROVE  Len(q) \in Nat /\ \A i \in 1 .. Len(q) : q[i] \in S
OBVIOUS

(* A buffer that is appended holds the next bytes.                         *)
LEMMA AppendBytes ==
    ASSUME NEW a, NEW k \in Nat, NEW cb, NEW n, Bytes(a.to, cb, a.end, n), WShape(a.to),
           NEW r, r = append_new_buffer_to_write(a, k)
    PROVE  Bytes(r.to, cb, r.end, n)
<1>1. CASE k = 0
  BY <1>1 DEF append_new_buffer_to_write
<1>2. CASE k # 0
  <2>1. PICK s : s = a.to
    OBVIOUS
  <2>2. PICK w : w = a.end
    OBVIOUS
  <2>3. PICK q : q = r.to
    OBVIOUS
  <2>4. r.end = w + k /\ w \in Nat /\ n \in Nat
    BY <1>2, <2>1, <2>2 DEF append_new_buffer_to_write, Bytes
  <2>5. q = [s EXCEPT !.bufs = Append(@, [from |-> w, len |-> k]),
                      !.buffer_size = @ + k, !.exported = @ + 1]
    BY <1>2, <2>1, <2>2, <2>3 DEF append_new_buffer_to_write
  <2>6. /\ q.bufs = Append(s.bufs, [from |-> w, len |-> k]) /\ q.buffer_size = s.buffer_size + k
        /\ q.exported = s.exported + 1 /\ q.wop = s.wop /\ q.in_flight = s.in_flight
        /\ q.index = s.index /\ q.offset = s.offset
    BY <2>1, <2>5 DEF WShape
  <2>7. Bytes(s, cb, w, n)
    BY <2>1, <2>2
  <2>8. Took(q, cb) = Took(s, cb) /\ Took(s, cb) \in Nat
    BY <2>6, <2>7 DEF Took, Bytes
  <2>9. /\ s.bufs \in Seq([from : Nat, len : Nat \ {0}]) /\ [from |-> w, len |-> k] \in [from : Nat, len : Nat \ {0}]
        /\ s.index \in 0 .. Len(s.bufs)
    BY <1>2, <2>4, <2>7 DEF Bytes, Queue
  <2>10. /\ Len(q.bufs) = Len(s.bufs) + 1 /\ q.bufs \in Seq([from : Nat, len : Nat \ {0}])
         /\ q.bufs[Len(s.bufs) + 1] = [from |-> w, len |-> k]
         /\ \A i \in 1 .. Len(s.bufs) : q.bufs[i] = s.bufs[i]
    BY <2>6, <2>9
  <2>11. PICK z : z = n - Took(s, cb)
    OBVIOUS
  <2>12. Queue(s, z, w)
    BY <2>7, <2>11 DEF Bytes
  <2>13. Queue(q, z, w + k)
    <3>1. q.index \in 0 .. Len(q.bufs) /\ q.offset \in Nat
      BY <2>6, <2>9, <2>10, <2>12 DEF Queue
    <3>2. ASSUME NEW i \in q.index + 1 .. Len(q.bufs)
          PROVE  /\ q.bufs[i].from + q.bufs[i].len <= w + k
                 /\ q.bufs[i].from + q.bufs[i].len =
                      IF i = Len(q.bufs) THEN w + k ELSE q.bufs[i + 1].from
      <4>1. CASE i = Len(s.bufs) + 1
        <5>1. q.bufs[i].from = w /\ q.bufs[i].len = k /\ i = Len(q.bufs)
          BY <2>10, <4>1
        <5> QED BY <2>4, <5>1
      <4>2. CASE i <= Len(s.bufs)
        <5>0. Len(s.bufs) \in Nat /\ \A j \in 1 .. Len(s.bufs) : s.bufs[j] \in [from : Nat, len : Nat \ {0}]
          BY <2>9, SeqFacts, ZenonT(60)
        <5>1. i \in s.index + 1 .. Len(s.bufs) /\ i \in 1 .. Len(s.bufs) /\ i # Len(q.bufs)
          BY <2>6, <2>9, <2>10, <4>2
        <5>2. /\ s.bufs[i].from + s.bufs[i].len <= w
              /\ s.bufs[i].from + s.bufs[i].len =
                      IF i = Len(s.bufs) THEN w ELSE s.bufs[i + 1].from
              /\ s.bufs[i].from \in Nat /\ s.bufs[i].len \in Nat
          <6>1. s.bufs[i] \in [from : Nat, len : Nat \ {0}]
            BY <5>0, <5>1
          <6> QED BY <2>12, <5>1, <6>1 DEF Queue
        <5>3. q.bufs[i] = s.bufs[i]
          BY <2>10, <5>1
        <5>4. q.bufs[i + 1] = IF i = Len(s.bufs) THEN [from |-> w, len |-> k] ELSE s.bufs[i + 1]
          <6>1. CASE i = Len(s.bufs)
            BY <2>10, <6>1
          <6>2. CASE i # Len(s.bufs)
            <7>1. i + 1 \in 1 .. Len(s.bufs)
              BY <5>0, <5>1, <6>2
            <7> QED BY <2>10, <6>2, <7>1
          <6> QED BY <6>1, <6>2
        <5>5. CASE i = Len(s.bufs)
          BY <2>4, <5>1, <5>2, <5>3, <5>4, <5>5
        <5>6. CASE i # Len(s.bufs)
          BY <2>4, <5>1, <5>2, <5>3, <5>4, <5>6
        <5> QED BY <5>5, <5>6
      <4>3. i = Len(s.bufs) + 1 \/ i <= Len(s.bufs)
        <5>1. Len(s.bufs) \in Nat /\ s.index \in Nat
          BY <2>9, SeqFacts
        <5>2. i \in s.index + 1 .. Len(s.bufs) + 1
          BY <2>6, <2>10
        <5> QED BY <5>1, <5>2
      <4> QED BY <4>1, <4>2, <4>3
    <3>3. IF q.index < Len(q.bufs)
          THEN q.bufs[q.index + 1].from + q.offset = z /\ q.offset < q.bufs[q.index + 1].len
          ELSE z = w + k /\ q.offset = 0
      <4>1. CASE s.index < Len(s.bufs)
        <5>1. Len(s.bufs) \in Nat /\ s.index \in Nat
          BY <2>9, SeqFacts
        <5>2. s.index + 1 \in 1 .. Len(s.bufs)
          BY <4>1, <5>1
        <5>3. s.bufs[s.index + 1].from + s.offset = z /\ s.offset < s.bufs[s.index + 1].len
          BY <2>12, <4>1 DEF Queue
        <5>4. q.index < Len(q.bufs) /\ q.bufs[q.index + 1] = s.bufs[s.index + 1]
          BY <2>6, <2>10, <4>1, <5>1, <5>2
        <5> QED BY <2>6, <5>3, <5>4
      <4>2. CASE s.index = Len(s.bufs)
        <5>1. z = w /\ s.offset = 0
          BY <2>12, <4>2 DEF Queue
        <5> QED BY <1>2, <2>4, <2>6, <2>9, <2>10, <4>2, <5>1
      <4> QED BY <2>9, <4>1, <4>2
    <3> QED BY <2>10, <3>1, <3>2, <3>3 DEF Queue
  <2>14. s.in_flight => Rest(q) = Rest(s)
    <3> SUFFICES ASSUME s.in_flight PROVE Rest(q) = Rest(s)
      OBVIOUS
    <3>1. s.index < Len(s.bufs)
      BY <2>7 DEF Bytes
    <3>2. s.index + 1 \in 1 .. Len(s.bufs)
      BY <2>9, <3>1
    <3> QED BY <2>6, <2>10, <3>2 DEF Rest
  <2>15. Bytes(q, cb, w + k, n)
    <3>1. q.buffer_size = (w + k) - n + Took(q, cb) /\ q.exported = Len(q.bufs) - q.index
      <4>1. s.buffer_size = w - n + Took(s, cb) /\ s.exported = Len(s.bufs) - s.index
        BY <2>7 DEF Bytes
      <4> QED BY <2>4, <2>6, <2>8, <2>9, <2>10, <4>1
    <3>2. q.in_flight => q.index < Len(q.bufs) /\ Took(q, cb) <= Rest(q)
      BY <2>6, <2>7, <2>8, <2>9, <2>10, <2>14 DEF Bytes
    <3>3. q.wop.at \in {"staged", "flight"} => q.wop.from = n /\ q.wop.len = Rest(q)
      BY <2>6, <2>7, <2>14 DEF Bytes
    <3> QED BY <2>4, <2>6, <2>7, <2>8, <2>11, <2>13, <3>1, <3>2, <3>3 DEF Bytes
  <2> QED BY <2>3, <2>4, <2>15
<1> QED BY <1>1, <1>2

(* The transport has more to write, and is otherwise the same.             *)
Grows(s, r) ==
    /\ WShape(r) /\ SameFlags(s, r)
    /\ r.read = s.read /\ r.write = s.write /\ r.rop = s.rop /\ r.in_flight = s.in_flight
    /\ r.total = s.total /\ r.high = s.high /\ r.low = s.low /\ r.called = s.called
    /\ r.buffer_size \in Nat /\ r.buffer_size >= s.buffer_size

(* A backlog has a current buffer.                                         *)
LEMMA BytesSize ==
    ASSUME NEW s, NEW cb, NEW w, NEW n, Bytes(s, cb, w, n)
    PROVE  s.buffer_size \in Int /\ (s.buffer_size > 0 => s.index < Len(s.bufs))
<1>1. s.buffer_size = w - n + Took(s, cb) /\ w \in Nat /\ n \in Nat /\ Took(s, cb) \in Nat
  BY DEF Bytes
<1>2. s.index \in 0 .. Len(s.bufs) /\ Len(s.bufs) \in Nat
  <2>1. s.bufs \in Seq([from : Nat, len : Nat \ {0}]) /\ s.index \in 0 .. Len(s.bufs)
    BY DEF Bytes, Queue
  <2> QED BY <2>1, SeqFacts
<1>3. s.index < Len(s.bufs) \/ n - Took(s, cb) = w
  BY DEF Bytes, Queue
<1> QED BY <1>1, <1>2, <1>3

(* So do any number of buffers: by induction over them.                    *)
LEMMA AppendBuffersGrow ==
    ASSUME NEW s, WShape(s), NEW cb, NEW n, Bytes(s, cb, written, n), s.buffer_size \in Nat,
           NEW lens \in Seq(Nat), NEW a, a = AppendBuffers(s, lens)
    PROVE  Bytes(a.to, cb, a.end, n) /\ Grows(s, a.to)
<1>1. PICK f : Appends(s, lens, Len(lens), f) /\ AppendBuffers(s, lens) = f[Len(lens)]
  BY AppendBuffersIs
<1> DEFINE T == {i \in Nat : i <= Len(lens) => Bytes(f[i].to, cb, f[i].end, n) /\ Grows(s, f[i].to)}
<1>2. 0 \in T
  <2>1. f[0].to = s /\ f[0].end = written
    BY <1>1 DEF Appends
  <2>2. Grows(s, s)
    BY DEF Grows, SameFlags
  <2> QED BY <2>1, <2>2
<1>3. ASSUME NEW i \in Nat, i \in T
      PROVE  i + 1 \in T
  <2> SUFFICES ASSUME i + 1 <= Len(lens)
               PROVE  Bytes(f[i + 1].to, cb, f[i + 1].end, n) /\ Grows(s, f[i + 1].to)
    OBVIOUS
  <2>1. PICK y : y = f[i]
    OBVIOUS
  <2>2. Len(lens) \in Nat /\ i <= Len(lens) /\ i + 1 \in 1 .. Len(lens)
    OBVIOUS
  <2>3. Bytes(y.to, cb, y.end, n) /\ Grows(s, y.to)
    BY <1>3, <2>1, <2>2
  <2>4. PICK k \in Nat : k = lens[i + 1]
    BY <2>2
  <2>5. PICK z : z = append_new_buffer_to_write(y, k)
    OBVIOUS
  <2>6. f[i + 1] = z
    BY <1>1, <2>1, <2>2, <2>4, <2>5 DEF Appends
  <2>7. WShape(y.to)
    BY <2>3 DEF Grows
  <2>8. Bytes(z.to, cb, z.end, n)
    BY <2>3, <2>5, <2>7, AppendBytes
  <2>9. Grows(s, z.to)
    <3>1. CASE k = 0
      BY <2>3, <2>5, <3>1 DEF append_new_buffer_to_write
    <3>2. CASE k # 0
      <4>1. PICK u : u = y.to
        OBVIOUS
      <4>2. PICK v : v = z.to
        OBVIOUS
      <4>3. v = [u EXCEPT !.bufs = Append(@, [from |-> y.end, len |-> k]),
                          !.buffer_size = @ + k, !.exported = @ + 1]
        BY <2>5, <3>2, <4>1, <4>2 DEF append_new_buffer_to_write
      <4>4. WShape(u)
        BY <2>7, <4>1
      <4>5. /\ SameFlags(u, v) /\ v.read = u.read /\ v.write = u.write /\ v.rop = u.rop
            /\ v.in_flight = u.in_flight /\ v.total = u.total /\ v.high = u.high /\ v.low = u.low
            /\ v.called = u.called /\ v.buffer_size = u.buffer_size + k /\ WShape(v)
        BY <4>3, <4>4 DEF WShape, SameFlags
      <4>6. Grows(s, u)
        BY <2>3, <4>1
      <4>7. v.buffer_size \in Nat /\ v.buffer_size >= s.buffer_size
        BY <4>5, <4>6 DEF Grows
      <4> QED BY <4>2, <4>5, <4>6, <4>7 DEF Grows, SameFlags
    <3> QED BY <3>1, <3>2
  <2> QED BY <2>6, <2>8, <2>9
<1>4. Nat \subseteq T
  <2> HIDE DEF T
  <2> QED BY <1>2, <1>3, SetInduction
<1>5. Len(lens) \in T
  BY <1>4
<1> QED BY <1>1, <1>5

(* The callback of a write counts the bytes that the kernel took.          *)
LEMMA WriteStartsBytes ==
    ASSUME NEW s, WShape(s), NEW cb, NEW w, NEW n, Bytes(s, cb, w, n), cb.res # "none",
           s.total \in Nat,
           NEW k, k = IF cb.res = "data" THEN cb.len ELSE 0,
           NEW r, r = WriteStarts(s, k)
    PROVE  /\ Bytes(r, NoCallback, w, n) /\ ~r.in_flight
           /\ k \in Nat /\ (cb.res = "data" => k > 0)
           /\ r.buffer_size = s.buffer_size - k /\ r.total = s.total + k
           /\ r.buffer_size \in Nat
           /\ SameFlags(s, r) /\ r.read = s.read /\ r.rop = s.rop /\ WShape(r)
           /\ r.write.is_closing = s.write.is_closing /\ r.write.closed = s.write.closed
           /\ r.write.lost_callback = s.write.lost_callback
           /\ r.high = s.high /\ r.low = s.low /\ r.called = s.called
<1>1. s.in_flight /\ s.wop.at = "none" /\ k = Took(s, cb) /\ k \in Nat /\ (cb.res = "data" => k > 0)
  BY DEF Bytes, Took
<1>2. w \in Nat /\ n \in Nat /\ s.buffer_size = w - n + k /\ k <= Rest(s)
      /\ s.index < Len(s.bufs) /\ s.exported = Len(s.bufs) - s.index
  BY <1>1 DEF Bytes
<1>3. Queue(s, n - k, w)
  BY <1>1 DEF Bytes
<1>4. s.bufs \in Seq([from : Nat, len : Nat \ {0}]) /\ s.index \in 0 .. Len(s.bufs) /\ s.offset \in Nat
  BY <1>3 DEF Queue
<1>5. Len(s.bufs) \in Nat /\ \A i \in 1 .. Len(s.bufs) : s.bufs[i] \in [from : Nat, len : Nat \ {0}]
  BY <1>4, SeqFacts
<1>a. Len(s.bufs) \in Nat /\ s.index \in Nat /\ s.offset \in Nat /\ s.index < Len(s.bufs)
  BY <1>2, <1>4, <1>5
<1>6. PICK x : x = s.bufs[s.index + 1]
  OBVIOUS
<1>7. s.index \in Nat /\ s.index + 1 \in 1 .. Len(s.bufs) /\ s.index + 1 \in s.index + 1 .. Len(s.bufs)
  BY <1>a
<1>8. x.from \in Nat /\ x.len \in Nat /\ Rest(s) = x.len - s.offset
  <2>1. x \in [from : Nat, len : Nat \ {0}]
    BY <1>5, <1>6, <1>7
  <2> QED BY <1>6, <2>1 DEF Rest
<1>9. /\ x.from + s.offset = n - k /\ s.offset < x.len /\ x.from + x.len <= w
      /\ x.from + x.len = IF s.index + 1 = Len(s.bufs) THEN w ELSE s.bufs[s.index + 2].from
  <2>1. s.index + 2 = (s.index + 1) + 1
    BY <1>7
  <2> QED BY <1>2, <1>3, <1>6, <1>7, <2>1 DEF Queue
<1>10. k <= s.buffer_size /\ s.buffer_size - k = w - n /\ w - n \in Nat /\ s.buffer_size \in Nat
  <2>1. k <= x.len - s.offset /\ k \in Nat /\ w \in Nat /\ n \in Nat /\ s.buffer_size = w - n + k
    BY <1>1, <1>2, <1>8
  <2>2. /\ x.from \in Nat /\ x.len \in Nat /\ s.offset \in Nat
        /\ x.from + s.offset = n - k /\ x.from + x.len <= w
    BY <1>8, <1>9, <1>a
  <2> QED BY <2>1, <2>2
<1>11. PICK u : u = [s EXCEPT !.write.id = FALSE, !.write.cancelling = FALSE, !.in_flight = FALSE]
  OBVIOUS
<1>12. /\ u.write = [s.write EXCEPT !.id = FALSE, !.cancelling = FALSE]
       /\ SameFlags(s, u) /\ u.read = s.read /\ u.rop = s.rop /\ u.wop = s.wop /\ ~u.in_flight
       /\ u.bufs = s.bufs /\ u.index = s.index /\ u.offset = s.offset
       /\ u.exported = s.exported /\ u.buffer_size = s.buffer_size /\ u.total = s.total
       /\ u.high = s.high /\ u.low = s.low /\ u.called = s.called
  BY <1>11 DEF WShape, SameFlags
<1>13. /\ u.write.is_closing = s.write.is_closing /\ u.write.closed = s.write.closed
       /\ u.write.lost_callback = s.write.lost_callback /\ WShape(u)
  BY <1>11, <1>12 DEF WShape
<1>14. /\ r.write = u.write /\ SameFlags(u, r) /\ r.read = u.read /\ r.rop = u.rop /\ r.wop = u.wop
       /\ r.in_flight = u.in_flight /\ r.bufs = u.bufs
       /\ r.high = u.high /\ r.low = u.low /\ r.called = u.called
       /\ r.buffer_size = s.buffer_size - k /\ r.total = s.total + k /\ WShape(r)
       /\ IF k < x.len - s.offset
          THEN r.index = s.index /\ r.offset = s.offset + k /\ r.exported = s.exported
          ELSE r.index = s.index + 1 /\ r.offset = 0 /\ r.exported = s.exported - 1
  <2>1. CASE k = 0
    <3>1. r = u
      BY <1>6, <1>11, <2>1 DEF WriteStarts
    <3>2. k < x.len - s.offset /\ s.offset + k = s.offset /\ s.total + k = s.total
          /\ s.buffer_size - k = s.buffer_size
      BY <1>4, <1>8, <1>9, <1>10, <2>1
    <3> QED BY <1>12, <1>13, <3>1, <3>2 DEF SameFlags
  <2>2. CASE k # 0
    <3>1. PICK v : v = [u EXCEPT !.buffer_size = @ - (IF k < @ THEN k ELSE @), !.total = @ + k]
      OBVIOUS
    <3>2. (IF k < u.buffer_size THEN k ELSE u.buffer_size) = k
      BY <1>1, <1>10, <1>12
    <3>3. v = [u EXCEPT !.buffer_size = u.buffer_size - k, !.total = @ + k]
      BY <1>13, <3>1, <3>2 DEF WShape
    <3>4. r = IF k < x.len - s.offset THEN [v EXCEPT !.offset = @ + k]
              ELSE [v EXCEPT !.index = @ + 1, !.offset = 0, !.exported = @ - 1]
      BY <1>6, <1>11, <2>2, <3>1 DEF WriteStarts
    <3>5. /\ v.write = u.write /\ SameFlags(u, v) /\ v.read = u.read /\ v.rop = u.rop /\ v.wop = u.wop
          /\ v.in_flight = u.in_flight /\ v.bufs = u.bufs
          /\ v.high = u.high /\ v.low = u.low /\ v.called = u.called
          /\ v.buffer_size = s.buffer_size - k /\ v.total = s.total + k /\ WShape(v)
          /\ v.index = s.index /\ v.offset = s.offset /\ v.exported = s.exported
      BY <1>12, <1>13, <3>3 DEF WShape, SameFlags
    <3>6. CASE k < x.len - s.offset
      <4>1. r = [v EXCEPT !.offset = @ + k]
        BY <3>4, <3>6
      <4> QED BY <3>5, <3>6, <4>1 DEF WShape, SameFlags
    <3>7. CASE ~(k < x.len - s.offset)
      <4>1. r = [v EXCEPT !.index = @ + 1, !.offset = 0, !.exported = @ - 1]
        BY <3>4, <3>7
      <4>2. /\ r.index = v.index + 1 /\ r.offset = 0 /\ r.exported = v.exported - 1
            /\ r.write = v.write /\ SameFlags(v, r) /\ r.read = v.read /\ r.rop = v.rop
            /\ r.wop = v.wop /\ r.in_flight = v.in_flight /\ r.bufs = v.bufs
            /\ r.high = v.high /\ r.low = v.low /\ r.called = v.called
            /\ r.buffer_size = v.buffer_size /\ r.total = v.total /\ WShape(r)
        <5>1. WShape(v)
          BY <3>5
        <5>2. PICK i : i = v.index + 1
          OBVIOUS
        <5>3. PICK e : e = v.exported - 1
          OBVIOUS
        <5>4. r = [v EXCEPT !.index = i, !.offset = 0, !.exported = e]
          BY <4>1, <5>1, <5>2, <5>3 DEF WShape
        <5>5. /\ r.write = v.write /\ SameFlags(v, r) /\ r.read = v.read /\ r.rop = v.rop
              /\ r.wop = v.wop /\ r.in_flight = v.in_flight /\ r.bufs = v.bufs
              /\ r.high = v.high /\ r.low = v.low /\ r.called = v.called
              /\ r.buffer_size = v.buffer_size /\ r.total = v.total /\ WShape(r)
          BY <5>1, <5>4, ZenonT(60) DEF WShape, SameFlags
        <5>6. r.index = i /\ r.offset = 0 /\ r.exported = e
          BY <5>1, <5>4 DEF WShape
        <5> QED BY <5>2, <5>3, <5>5, <5>6
      <4> QED BY <3>5, <3>7, <4>2 DEF SameFlags
    <3> QED BY <3>6, <3>7
  <2> QED BY <2>1, <2>2
<1>15. r.wop.at = "none" /\ ~r.in_flight /\ Took(r, NoCallback) = 0 /\ r.bufs = s.bufs
  BY <1>1, <1>12, <1>14 DEF Took, NoCallback
<1>16. Queue(r, n, w) /\ r.exported = Len(r.bufs) - r.index
  <2>1. CASE k < x.len - s.offset
    <3>1. r.index = s.index /\ r.offset = s.offset + k /\ r.exported = s.exported
      BY <1>14, <2>1
    <3>2. x.from + r.offset = n /\ r.offset < x.len /\ r.offset \in Nat
      <4>1. k \in Nat /\ n \in Nat
        BY <1>1, <1>2
      <4>2. x.from + s.offset = n - k
        BY <1>9
      <4>3. x.from \in Nat /\ x.len \in Nat /\ s.offset \in Nat /\ r.offset = s.offset + k
        BY <1>a, <1>8, <3>1
      <4> QED BY <2>1, <4>1, <4>2, <4>3
    <3>3. /\ r.bufs \in Seq([from : Nat, len : Nat \ {0}]) /\ r.index \in 0 .. Len(r.bufs)
          /\ \A i \in r.index + 1 .. Len(r.bufs) :
              /\ r.bufs[i].from + r.bufs[i].len <= w
              /\ r.bufs[i].from + r.bufs[i].len =
                     IF i = Len(r.bufs) THEN w ELSE r.bufs[i + 1].from
      BY <1>3, <1>15, <3>1, ZenonT(60) DEF Queue
    <3>4. r.index < Len(r.bufs) /\ r.bufs[r.index + 1] = x /\ r.exported = Len(r.bufs) - r.index
      BY <1>2, <1>6, <1>15, <3>1
    <3> QED BY <3>2, <3>3, <3>4 DEF Queue
  <2>2. CASE ~(k < x.len - s.offset)
    <3>1. r.index = s.index + 1 /\ r.offset = 0 /\ r.exported = s.exported - 1
      BY <1>14, <2>2
    <3>2. x.from + x.len = n
      <4>1. k \in Nat /\ n \in Nat /\ k <= x.len - s.offset
        BY <1>1, <1>2, <1>8
      <4> QED BY <1>a, <1>8, <1>9, <2>2, <4>1
    <3>3. r.index \in 0 .. Len(r.bufs) /\ r.exported = Len(r.bufs) - r.index /\ r.offset \in Nat
      <4>1. s.exported = Len(s.bufs) - s.index
        BY <1>2
      <4> QED BY <1>a, <1>15, <3>1, <4>1
    <3>4. \A i \in r.index + 1 .. Len(r.bufs) : i \in s.index + 1 .. Len(s.bufs)
      BY <1>a, <1>7, <1>15, <3>1
    <3>5. r.index + 1 = s.index + 2
      BY <1>7, <3>1
    <3>6. IF r.index < Len(r.bufs)
          THEN r.bufs[r.index + 1].from = n
          ELSE n = w
      BY <1>a, <1>9, <1>15, <3>1, <3>2, <3>5
    <3>7. r.index < Len(r.bufs) =>
            r.bufs[r.index + 1].from + r.offset = n /\ r.offset < r.bufs[r.index + 1].len
      <4> SUFFICES ASSUME r.index < Len(r.bufs)
                   PROVE  r.bufs[r.index + 1].from + r.offset = n /\ r.offset < r.bufs[r.index + 1].len
        OBVIOUS
      <4>1. r.index + 1 \in 1 .. Len(s.bufs)
        BY <1>a, <1>7, <1>15, <3>1
      <4>2. r.bufs[r.index + 1] \in [from : Nat, len : Nat \ {0}]
        BY <1>5, <1>15, <4>1
      <4> QED BY <3>1, <3>6, <4>2
    <3>8. \A i \in r.index + 1 .. Len(r.bufs) :
              /\ r.bufs[i].from + r.bufs[i].len <= w
              /\ r.bufs[i].from + r.bufs[i].len =
                     IF i = Len(r.bufs) THEN w ELSE r.bufs[i + 1].from
      BY <1>3, <1>15, <3>4, ZenonT(60) DEF Queue
    <3>9. r.bufs \in Seq([from : Nat, len : Nat \ {0}])
      BY <1>3, <1>15 DEF Queue
    <3> QED BY <3>1, <3>3, <3>6, <3>7, <3>8, <3>9, ZenonT(60) DEF Queue
  <2> QED BY <2>1, <2>2
<1>17. n - Took(r, NoCallback) = n /\ r.buffer_size = w - n + Took(r, NoCallback)
  BY <1>2, <1>10, <1>14, <1>15
<1>18. Bytes(r, NoCallback, w, n)
  BY <1>2, <1>15, <1>16, <1>17 DEF Bytes, NoCallback
<1>19. SameFlags(s, r)
  BY <1>12, <1>14 DEF SameFlags
<1> QED BY <1>1, <1>10, <1>12, <1>13, <1>14, <1>15, <1>18, <1>19

-----------------------------------------------------------------------------
(* The transport as a whole.                                               *)

(* The water marks: a transport that is open is paused only above the low  *)
(* one.                                                                    *)
Marks(s) ==
    /\ s.high \in Nat /\ s.low \in Nat /\ s.low <= s.high /\ s.total \in Nat
    /\ ~s.is_closing /\ ~s.closed /\ ~s.is_writing => s.buffer_size > s.low

(* connection_lost is scheduled, queued or called, once; lost is the       *)
(* number of its callbacks in the ready queue.                             *)
Count(s, lost) ==
    /\ s.soon \in Nat /\ lost \in Nat /\ s.called \in Nat
    /\ s.soon + lost + s.called = IF s.connection_lost_notified THEN 1 ELSE 0

(* All of it.                                                              *)
Whole(s, b, c, cb, w, n, lost) ==
    /\ Sound(s, b, c) /\ Lives(s, b) /\ Blames(s) /\ Due(s)
    /\ Bytes(s, cb, w, n) /\ Marks(s) /\ Count(s, lost)

(* connection_lost is counted when it is scheduled, and only then.         *)
LEMMA RisesCount ==
    ASSUME NEW s, NEW r, NEW lost, Count(s, lost), Rises(s, r), r.called = s.called
    PROVE  Count(r, lost)
<1>1. s.soon \in Nat /\ lost \in Nat /\ s.called \in Nat
      /\ s.soon + lost + s.called = IF s.connection_lost_notified THEN 1 ELSE 0
  BY DEF Count
<1>2. CASE r.connection_lost_notified /\ ~s.connection_lost_notified
  <2>1. r.soon = s.soon + 1 /\ s.soon + lost + s.called = 0
    BY <1>1, <1>2 DEF Rises
  <2> QED BY <1>1, <1>2, <2>1 DEF Count
<1>3. CASE ~(r.connection_lost_notified /\ ~s.connection_lost_notified)
  <2>1. r.soon = s.soon /\ (s.connection_lost_notified <=> r.connection_lost_notified)
    BY <1>3 DEF Rises
  <2> QED BY <1>1, <2>1 DEF Count
<1> QED BY <1>2, <1>3

(* A step that leaves the backlog alone keeps the marks.                   *)
LEMMA RisesMarks ==
    ASSUME NEW s, NEW r, Marks(s), Rises(s, r), r.high = s.high, r.low = s.low,
           r.total \in Nat, r.buffer_size = s.buffer_size
    PROVE  Marks(r)
BY DEF Marks, Rises

(* What it takes for a step that leaves the write queue alone to keep all. *)
LEMMA MovesWhole ==
    ASSUME NEW s, NEW b, NEW c, NEW d, NEW e, NEW cb, NEW w, NEW n, NEW lost,
           Whole(s, b, c, cb, w, n, lost),
           NEW r, Sound(r, d, e), Lives(r, d), Blames(r), Moves(s, r)
    PROVE  Whole(r, d, e, cb, w, n, lost)
<1>1. SameQueue(s, r) /\ Rises(s, r) /\ (Due(s) => Due(r))
  BY DEF Moves
<1>2. Bytes(r, cb, w, n)
  BY <1>1, SameQueueBytes DEF Whole
<1>3. Marks(r)
  <2>1. r.high = s.high /\ r.low = s.low /\ r.total = s.total /\ r.buffer_size = s.buffer_size
    BY <1>1 DEF SameQueue
  <2> QED BY <1>1, <2>1, RisesMarks DEF Whole, Marks
<1>4. Count(r, lost)
  <2>1. r.called = s.called
    BY <1>1 DEF SameQueue
  <2> QED BY <1>1, <2>1, RisesCount DEF Whole
<1> QED BY <1>1, <1>2, <1>3, <1>4 DEF Whole

(* The prepare hook submits the bytes after those that were sent.          *)
LEMMA SubmitKeeps ==
    ASSUME NEW s, NEW b, NEW c, NEW cb, NEW w, NEW n, NEW lost,
           Whole(s, b, c, cb, w, n, lost), cb.res = "none", NeedsSubmission(s),
           NEW r, r = submit_next_chunk(s)
    PROVE  Whole(r, b, c, cb, w, n, lost)
<1>1. Sound(s, b, c) /\ Bytes(s, cb, w, n) /\ WShape(s)
  BY DEF Whole, Sound
<1>2. ~s.write.closed /\ ~s.in_flight /\ s.buffer_size > 0
  BY DEF NeedsSubmission
<1>3. PICK x : x = s.bufs[s.index + 1]
  OBVIOUS
<1>4. PICK op : op = [NoOp EXCEPT !.at = "staged", !.from = x.from + s.offset, !.len = x.len - s.offset]
  OBVIOUS
<1>5. r = [s EXCEPT !.write.id = TRUE, !.in_flight = TRUE, !.wop = op]
  BY <1>3, <1>4 DEF submit_next_chunk
<1>6. /\ op.at = "staged" /\ op.from = x.from + s.offset /\ op.len = x.len - s.offset
      /\ DOMAIN op = {"at", "cancel", "res", "from", "len"}
  BY <1>4 DEF NoOp
<1>7. /\ r.write = [s.write EXCEPT !.id = TRUE] /\ r.in_flight /\ r.wop = op
      /\ r.read = s.read /\ r.rop = s.rop /\ SameFlags(s, r) /\ DOMAIN r = DOMAIN s
      /\ r.bufs = s.bufs /\ r.index = s.index /\ r.offset = s.offset
      /\ r.buffer_size = s.buffer_size /\ r.total = s.total /\ r.exported = s.exported
      /\ r.high = s.high /\ r.low = s.low /\ r.called = s.called
  BY <1>1, <1>5 DEF WShape, SameFlags
<1>8. /\ r.write.is_closing = s.write.is_closing /\ r.write.closed = s.write.closed
      /\ r.write.lost_callback = s.write.lost_callback /\ DOMAIN r.write = DOMAIN s.write
  BY <1>1, <1>7 DEF WShape
<1>9. WShape(r)
  BY <1>1, <1>6, <1>7, <1>8 DEF WShape
<1>10. Sound(r, b, c)
  BY <1>1, <1>2, <1>7, <1>8, <1>9 DEF Sound, SameFlags, Driven
<1>11. Lives(r, b) /\ Blames(r) /\ Due(r)
  BY <1>7, <1>8 DEF Whole, Lives, Agree, Edge, Answers, Driven, Blames, Due, SameFlags
<1>12. Marks(r) /\ Count(r, lost)
  BY <1>7 DEF Whole, Marks, Count, SameFlags
<1>13. Bytes(r, cb, w, n)
  <2>1. s.index < Len(s.bufs)
    BY <1>1, <1>2, BytesSize
  <2>2. s.wop.at = "none" /\ Took(s, cb) = 0 /\ Took(r, cb) = 0 /\ n \in Nat /\ w \in Nat
    BY <1>1, <1>2, <1>6, <1>7 DEF Bytes, Took
  <2>3. Queue(s, n, w) /\ s.buffer_size = w - n
    BY <1>1, <2>2 DEF Bytes
  <2>4. Queue(r, n, w)
    BY <1>7, <2>3 DEF Queue
  <2>5. x.from + s.offset = n
    BY <1>3, <2>1, <2>3 DEF Queue
  <2>6. Rest(r) = x.len - s.offset /\ Rest(r) \in Nat
    <3>1. Len(s.bufs) \in Nat /\ s.index \in Nat /\ s.offset \in Nat
          /\ \A i \in 1 .. Len(s.bufs) : s.bufs[i] \in [from : Nat, len : Nat \ {0}]
      <4>1. s.bufs \in Seq([from : Nat, len : Nat \ {0}]) /\ s.index \in 0 .. Len(s.bufs) /\ s.offset \in Nat
        BY <2>3 DEF Queue
      <4>2. Len(s.bufs) \in Nat /\ \A i \in 1 .. Len(s.bufs) : s.bufs[i] \in [from : Nat, len : Nat \ {0}]
        BY <4>1, SeqFacts
      <4> QED BY <4>1, <4>2
    <3>2. s.index + 1 \in 1 .. Len(s.bufs)
      BY <2>1, <3>1
    <3>3. x \in [from : Nat, len : Nat \ {0}]
      BY <1>3, <3>1, <3>2
    <3>4. s.offset < x.len
      BY <1>3, <2>1, <2>3 DEF Queue
    <3>5. Rest(r) = x.len - s.offset
      BY <1>3, <1>7 DEF Rest
    <3>6. x.len \in Nat /\ s.offset \in Nat
      BY <3>1, <3>3
    <3> QED BY <3>4, <3>5, <3>6
  <2>7. r.exported = Len(r.bufs) - r.index
    BY <1>1, <1>7 DEF Bytes
  <2> QED BY <1>6, <1>7, <2>1, <2>2, <2>3, <2>4, <2>5, <2>6, <2>7 DEF Bytes
<1> QED BY <1>10, <1>11, <1>12, <1>13 DEF Whole

(* Submitting the ring keeps all.                                          *)
LEMMA FlushWhole ==
    ASSUME NEW s, NEW b, NEW c, NEW cb, NEW w, NEW n, NEW lost,
           Whole(s, b, c, cb, w, n, lost), NEW r, r = Flush(s)
    PROVE  Whole(r, b, c, cb, w, n, lost)
<1>1. /\ Sound(r, b, c) /\ Stays(s, r) /\ SameRop(s, r) /\ SameFlags(s, r)
      /\ r.read = s.read /\ r.write = s.write
  BY FlushKeeps DEF Whole
<1>2. Lives(r, b)
  BY <1>1 DEF Whole, Lives, Agree, Edge, Answers, Driven, SameFlags, SameRop
<1>3. Moves(s, r) /\ Blames(r)
  BY <1>1 DEF Whole, Stays
<1> QED BY <1>1, <1>2, <1>3, MovesWhole

(* The callback of a write submits the rest, with or without a flush.      *)
LEMMA NextChunkWhole ==
    ASSUME NEW s, NEW b, NEW c, NEW cb, NEW w, NEW n, NEW lost,
           Whole(s, b, c, cb, w, n, lost), cb.res = "none", NextChunk(s)
    PROVE  Whole(t', b, c, cb, w, n, lost)
<1>1. CASE ~NeedsSubmission(s)
  BY <1>1 DEF NextChunk
<1>2. CASE NeedsSubmission(s)
  <2>1. PICK u : u = submit_next_chunk(s)
    OBVIOUS
  <2>2. Whole(u, b, c, cb, w, n, lost)
    BY <1>2, <2>1, SubmitKeeps
  <2>3. CASE t' = Flush(u)
    BY <2>2, <2>3, FlushWhole
  <2>4. CASE t' = [u EXCEPT !.write.cancelling = FALSE]
    <3>1. PICK r : r = t'
      OBVIOUS
    <3>2. /\ r.write = [u.write EXCEPT !.cancelling = FALSE] /\ r.read = u.read /\ r.rop = u.rop
          /\ SameQueue(u, r) /\ SameFlags(u, r)
      BY <2>2, <2>4, <3>1 DEF Whole, Sound, WShape, SameQueue, SameFlags
    <3>3. /\ r.write.is_closing = u.write.is_closing /\ r.write.closed = u.write.closed
          /\ r.write.lost_callback = u.write.lost_callback /\ WShape(r)
      BY <2>2, <2>4, <3>1, <3>2 DEF Whole, Sound, WShape
    <3>4. Sound(r, b, c)
      BY <2>2, <3>2, <3>3 DEF Whole, Sound, SameQueue, SameFlags, Driven
    <3>5. Moves(u, r) /\ Blames(r)
      BY <2>2, <3>2, <3>3 DEF Whole, Moves, Rises, SameQueue, SameFlags, Blames, Due
    <3>6. Lives(r, b)
      BY <2>2, <3>2, <3>3 DEF Whole, Lives, Agree, Edge, Answers, Driven, SameFlags
    <3> QED BY <2>2, <3>1, <3>4, <3>5, <3>6, MovesWhole
  <2> QED BY <1>2, <2>1, <2>3, <2>4 DEF NextChunk
<1> QED BY <1>1, <1>2

(* A drained backlog lets a closing write half close.                      *)
LEMMA WriteDrainedKeeps ==
    ASSUME NEW s, NEW b, NEW c, NEW w, NEW n,
           Sound(s, b, c), Lives(s, b), Blames(s), Bytes(s, NoCallback, w, n), ~s.in_flight,
           s.buffer_size = 0, NEW r, r = WriteDrained(s)
    PROVE  /\ Sound(r, b, c) /\ Lives(r, b) /\ Blames(r) /\ Due(r) /\ Rises(s, r)
           /\ Bytes(r, NoCallback, w, n) /\ ~r.in_flight /\ r.buffer_size = 0 /\ r.total = 0
           /\ r.high = s.high /\ r.low = s.low /\ r.called = s.called
<1>1. PICK u : u = [s EXCEPT !.exported = @ - (Len(s.bufs) - s.index),
                        !.bufs = <<>>, !.index = 0, !.offset = 0,
                        !.eof_pending = FALSE,
                        !.fin = IF s.eof_pending THEN "staged" ELSE @,
                        !.total = 0]
  OBVIOUS
<1>2. PICK x : x = s.exported - (Len(s.bufs) - s.index)
  OBVIOUS
<1>3. PICK f : f = IF s.eof_pending THEN "staged" ELSE s.fin
  OBVIOUS
<1>4. u = [s EXCEPT !.exported = x, !.bufs = <<>>, !.index = 0, !.offset = 0,
                    !.eof_pending = FALSE, !.fin = f, !.total = 0]
  BY <1>1, <1>2, <1>3 DEF Sound, WShape
<1>5. /\ u.read = s.read /\ u.write = s.write /\ u.rop = s.rop /\ u.wop = s.wop /\ SameFlags(s, u)
      /\ u.in_flight = s.in_flight /\ u.buffer_size = s.buffer_size
      /\ u.high = s.high /\ u.low = s.low /\ u.called = s.called
      /\ WShape(u)
  BY <1>4 DEF Sound, WShape, SameFlags
<1>6. u.exported = x /\ u.bufs = <<>> /\ u.index = 0 /\ u.offset = 0 /\ u.total = 0
  BY <1>4 DEF Sound, WShape
<1>7. Sound(u, b, c)
  BY <1>5 DEF Sound, SameFlags, Driven
<1>8. Lives(u, b) /\ Blames(u) /\ Rises(s, u)
  BY <1>5 DEF Lives, Agree, Edge, Answers, Driven, Blames, Rises, SameFlags
<1>9. Bytes(u, NoCallback, w, n)
  <2>1. s.wop.at = "none" /\ Took(s, NoCallback) = 0 /\ Took(u, NoCallback) = 0
        /\ n \in Nat /\ w \in Nat
    BY <1>5 DEF Bytes, Took, NoCallback
  <2>2. w = n
    <3>1. s.buffer_size = w - n + 0
      BY <2>1 DEF Bytes
    <3> QED BY <2>1, <3>1
  <2>3. x = 0
    <3>1. s.exported = Len(s.bufs) - s.index /\ s.bufs \in Seq([from : Nat, len : Nat \ {0}])
          /\ s.index \in 0 .. Len(s.bufs)
      BY DEF Bytes, Queue
    <3>2. Len(s.bufs) \in Nat /\ s.index \in Nat
      BY <3>1, SeqFacts
    <3> QED BY <1>2, <3>1, <3>2
  <2>4. Len(u.bufs) = 0 /\ u.bufs \in Seq([from : Nat, len : Nat \ {0}])
    BY <1>6
  <2>5. Queue(u, n, w)
    BY <1>6, <2>2, <2>4 DEF Queue
  <2>6. n - Took(u, NoCallback) = n /\ u.buffer_size = w - n + Took(u, NoCallback)
        /\ u.exported = Len(u.bufs) - u.index
    BY <1>5, <1>6, <2>1, <2>2, <2>3, <2>4
  <2> QED BY <1>5, <2>1, <2>5, <2>6 DEF Bytes, NoCallback
<1>10. CASE s.write.is_closing
  <2>1. PICK v : v = [u EXCEPT !.write.closed = TRUE]
    OBVIOUS
  <2>2. /\ v.write = [u.write EXCEPT !.closed = TRUE] /\ v.read = u.read /\ v.rop = u.rop
        /\ SameQueue(u, v) /\ SameFlags(u, v)
    BY <1>5, <2>1 DEF WShape, SameQueue, SameFlags
  <2>3. /\ v.write.is_closing = u.write.is_closing /\ v.write.closed
        /\ v.write.lost_callback = u.write.lost_callback /\ WShape(v)
    BY <1>5, <2>1, <2>2 DEF WShape
  <2>4. Sound(v, b, c)
    BY <1>5, <1>7, <1>10, <2>2, <2>3 DEF Sound, SameQueue, SameFlags, Driven
  <2>5. Moves(u, v) /\ Blames(v) /\ Agree(v) /\ Edge(v)
    BY <1>8, <2>2, <2>3 DEF Moves, Rises, SameQueue, SameFlags, Blames, Due, Lives, Agree, Edge
  <2>6. r = maybe_close_fd(v)
    BY <1>1, <1>10, <2>1 DEF WriteDrained
  <2>7. Sound(r, b, c) /\ Stays(v, r) /\ Lives(r, b) /\ r.write = v.write
    BY <2>4, <2>5, <2>6, MaybeCloseKeeps
  <2>8. Moves(u, r)
    <3>1. Moves(v, r) /\ u.soon \in Nat
      BY <1>7, <2>7 DEF Stays, Sound
    <3> QED BY <2>5, <3>1, MovesTrans
  <2>9. Rises(s, r)
    <3>1. Rises(u, r) /\ s.soon \in Nat
      BY <2>8 DEF Moves, Sound
    <3> QED BY <1>8, <3>1, RisesTrans
  <2>10. Bytes(r, NoCallback, w, n) /\ SameQueue(u, r)
    BY <1>9, <2>8, SameQueueBytes DEF Moves
  <2>11. Blames(r) /\ Due(r)
    BY <2>3, <2>5, <2>7 DEF Stays, Due
  <2> QED BY <1>5, <1>6, <2>7, <2>9, <2>10, <2>11 DEF SameQueue
<1>11. CASE ~s.write.is_closing
  <2>1. r = u
    BY <1>1, <1>11 DEF WriteDrained
  <2>2. Due(r)
    BY <1>5, <1>11, <2>1 DEF Due
  <2> QED BY <1>5, <1>6, <1>7, <1>8, <1>9, <2>1, <2>2
<1> QED BY <1>10, <1>11

-----------------------------------------------------------------------------
(* The invariant of the write side, action by action.                      *)

(* The callback of a read is queued, and of one that did not go through    *)
(* the batch.                                                              *)
Queued(q) == q.read.res # "none"
Unbatched(q) == Queued(q) /\ ~q.read.batch

(* The inductive invariant of the write side and of closing.               *)
WriteInv ==
    /\ Whole(t, Queued(ready), Unbatched(ready), ready.write, written, sent, ready.lost)
    /\ {"read", "write", "lost"} \subseteq DOMAIN ready
    /\ phase \in {"resume_drain", "resume_end"} => ~t.in_flight

(* A step that leaves the ready queue alone.                               *)
LEMMA SameReadyKeeps ==
    ASSUME WriteInv, UNCHANGED <<ready, written, sent>>,
           Whole(t', Queued(ready), Unbatched(ready), ready.write, written, sent, ready.lost),
           phase' \in {"resume_drain", "resume_end"} => ~t'.in_flight
    PROVE  WriteInv'
BY DEF WriteInv

(* A method of the transport that leaves the write queue alone.            *)
LEMMA MethodKeeps ==
    ASSUME WriteInv, NEW r, Method(r),
           Sound(r, Queued(ready), Unbatched(ready)), Stays(t, r),
           Lives(t, Queued(ready)) => Lives(r, Queued(ready))
    PROVE  WriteInv'
<1>1. Whole(t, Queued(ready), Unbatched(ready), ready.write, written, sent, ready.lost)
  BY DEF WriteInv
<1>2. Lives(r, Queued(ready)) /\ Blames(r) /\ Moves(t, r)
  BY <1>1 DEF Whole, Stays
<1>3. Whole(r, Queued(ready), Unbatched(ready), ready.write, written, sent, ready.lost)
  BY <1>1, <1>2, MovesWhole
<1>4. r.in_flight = t.in_flight
  BY <1>2 DEF Moves, SameQueue
<1>5. t' = r /\ phase' = phase /\ UNCHANGED <<ready, written, sent>>
  BY DEF Method
<1> QED BY <1>3, <1>4, <1>5, SameReadyKeeps DEF WriteInv

(* The methods that do.                                                    *)
LEMMA MethodsKeep ==
    ASSUME WriteInv,
           Close \/ Abort \/ ForceClose \/ PauseReading \/ ResumeReading \/ WriteEof \/ OtherCancel
    PROVE  WriteInv'
<1> DEFINE b == Queued(ready)
           c == Unbatched(ready)
<1>1. Sound(t, b, c)
  BY DEF WriteInv, Whole
<1> HIDE DEF b, c
<1>2. CASE Close
  <2>1. PICK r : r = transport_close(t)
    OBVIOUS
  <2>2. Sound(r, b, c) /\ Stays(t, r) /\ (Lives(t, b) => Lives(r, b))
    BY <1>1, <2>1, TransportCloseKeeps
  <2> QED BY <1>2, <2>1, <2>2, MethodKeeps DEF Close, b, c
<1>3. CASE Abort
  <2>1. PICK r : r = transport_force_close(t, "null")
    OBVIOUS
  <2>2. Sound(r, b, c) /\ Stays(t, r) /\ (Lives(t, b) => Lives(r, b))
    BY <1>1, <2>1, ForceCloseKeeps
  <2> QED BY <1>3, <2>1, <2>2, MethodKeeps DEF Abort, b, c
<1>4. CASE ForceClose
  <2>1. PICK r : r = transport_force_close(t, "error")
    OBVIOUS
  <2>2. Sound(r, b, c) /\ Stays(t, r) /\ (Lives(t, b) => Lives(r, b))
    BY <1>1, <2>1, ForceCloseKeeps
  <2> QED BY <1>4, <2>1, <2>2, MethodKeeps DEF ForceClose, b, c
<1>5. CASE PauseReading
  <2>1. PICK r : r = transport_pause_reading(t)
    OBVIOUS
  <2>2. Sound(r, b, c) /\ Stays(t, r) /\ (Lives(t, b) => Lives(r, b))
    BY <1>1, <2>1, PauseReadingKeeps
  <2> QED BY <1>5, <2>1, <2>2, MethodKeeps DEF PauseReading, b, c
<1>6. CASE ResumeReading
  <2>1. PICK r : r = transport_resume_reading(t)
    OBVIOUS
  <2>2. Sound(r, b, c) /\ Stays(t, r) /\ (Lives(t, b) => Lives(r, b))
    BY <1>1, <2>1, ResumeReadingHolds
  <2> QED BY <1>6, <2>1, <2>2, MethodKeeps DEF ResumeReading, b, c
<1>7. CASE WriteEof
  <2>1. PICK r : r = transport_write_eof(t)
    OBVIOUS
  <2>2. Sound(r, b, c) /\ Stays(t, r) /\ (Lives(t, b) => Lives(r, b))
    BY <1>1, <2>1, WriteEofHolds
  <2> QED BY <1>7, <2>1, <2>2, MethodKeeps DEF WriteEof, b, c
<1>8. CASE OtherCancel
  <2>1. PICK r : r = Flush(t)
    OBVIOUS
  <2>2. /\ Sound(r, b, c) /\ Stays(t, r) /\ SameRop(t, r) /\ SameFlags(t, r)
        /\ r.read = t.read /\ r.write = t.write
    BY <1>1, <2>1, FlushKeeps
  <2>3. Lives(t, b) => Lives(r, b)
    BY <2>2 DEF Lives, Agree, Edge, Answers, Driven, SameFlags, SameRop
  <2> QED BY <1>8, <2>1, <2>2, <2>3, MethodKeeps DEF OtherCancel, b, c
<1> QED BY <1>2, <1>3, <1>4, <1>5, <1>6, <1>7, <1>8

(* Growing the backlog keeps all of an open write half.                    *)
LEMMA GrowsWhole ==
    ASSUME NEW s, NEW b, NEW c, NEW cb, NEW w, NEW n, NEW lost, NEW z,
           Whole(s, b, c, cb, w, n, lost), ~s.write.closed,
           NEW r, Grows(s, r), Bytes(r, cb, z, n)
    PROVE  Whole(r, b, c, cb, z, n, lost)
<1>1. Sound(r, b, c)
  BY DEF Whole, Sound, Grows, SameFlags, Driven
<1>2. Lives(r, b) /\ Blames(r)
  BY DEF Whole, Lives, Agree, Edge, Answers, Driven, Blames, Grows, SameFlags
<1>3. s.buffer_size \in Nat
  BY DEF Whole, Sound
<1>4. Due(r)
  BY <1>3 DEF Whole, Due, Grows
<1>5. Marks(r)
  BY <1>3 DEF Whole, Marks, Grows, SameFlags
<1>6. Count(r, lost)
  BY DEF Whole, Count, Grows, SameFlags
<1> QED BY <1>1, <1>2, <1>4, <1>5, <1>6 DEF Whole

(* Only the water marks and is_writing change.                             *)
Repaused(s, r) ==
    /\ r.in_flight = s.in_flight /\ r.bufs = s.bufs /\ r.index = s.index /\ r.offset = s.offset
    /\ r.buffer_size = s.buffer_size /\ r.total = s.total /\ r.exported = s.exported
    /\ r.called = s.called /\ r.wop = s.wop /\ r.rop = s.rop /\ r.read = s.read /\ r.write = s.write
    /\ r.is_closing = s.is_closing /\ r.closed = s.closed
    /\ r.pending_lost_exc = s.pending_lost_exc
    /\ r.connection_lost_notified = s.connection_lost_notified
    /\ r.soon = s.soon /\ r.exc = s.exc /\ r.broken = s.broken /\ r.failed = s.failed
    /\ WShape(r)

(* A backlog above the high-water mark pauses the protocol.                *)
LEMMA PauseWhole ==
    ASSUME NEW s, NEW b, NEW c, NEW cb, NEW w, NEW n, NEW lost, NEW r,
           Whole(s, b, c, cb, w, n, lost), Repaused(s, r),
           r.high \in Nat, r.low \in Nat, r.low <= r.high,
           ~s.is_closing /\ ~s.closed /\ ~r.is_writing => s.buffer_size > r.low
    PROVE  Whole(r, b, c, cb, w, n, lost)
<1>3. Sound(r, b, c)
  BY DEF Repaused, Whole, Sound, Driven
<1>4. Lives(r, b) /\ Blames(r) /\ Due(r)
  BY DEF Repaused, Whole, Lives, Agree, Edge, Answers, Driven, Blames, Due
<1>5. Marks(r) /\ Count(r, lost)
  BY DEF Repaused, Whole, Marks, Count
<1>6. Bytes(r, cb, w, n)
  <2>1. Bytes(s, cb, w, n)
    BY DEF Whole
  <2>2. Took(r, cb) = Took(s, cb) /\ Rest(r) = Rest(s)
    BY DEF Repaused, Took, Rest
  <2>3. Queue(r, n - Took(r, cb), w)
    BY <2>1, <2>2 DEF Repaused, Bytes, Queue
  <2> QED BY <2>1, <2>2, <2>3 DEF Repaused, Bytes
<1> QED BY <1>3, <1>4, <1>5, <1>6 DEF Whole

(* pause_writing may raise, and the protocol is paused or not.             *)
LEMMA MaybePauseWhole ==
    ASSUME NEW s, NEW b, NEW c, NEW cb, NEW w, NEW n, NEW lost,
           Whole(s, b, c, cb, w, n, lost), NEW r, r = MaybePause(s)
    PROVE  Whole(r, b, c, cb, w, n, lost)
<1>1. PICK v : v = (s.is_writing /\ s.buffer_size <= s.high)
  OBVIOUS
<1>2. WShape(s) /\ Marks(s) /\ s.buffer_size \in Nat
  BY DEF Whole, Sound
<1>3. r = [s EXCEPT !.is_writing = v]
  BY <1>1, <1>2 DEF MaybePause, WShape
<1>4. Repaused(s, r) /\ r.high = s.high /\ r.low = s.low /\ r.is_writing = v
  BY <1>2, <1>3 DEF WShape, Repaused
<1>5. ~s.is_closing /\ ~s.closed /\ ~v => s.buffer_size > s.low
  <2>1. ~v => ~s.is_writing \/ ~(s.buffer_size <= s.high)
    BY <1>1
  <2>2. /\ s.high \in Nat /\ s.low \in Nat /\ s.low <= s.high /\ s.buffer_size \in Nat
        /\ ~s.is_closing /\ ~s.closed /\ ~s.is_writing => s.buffer_size > s.low
    BY <1>2 DEF Marks
  <2>3. ~(s.buffer_size <= s.high) => s.buffer_size > s.low
    BY <2>2
  <2> QED BY <2>1, <2>2, <2>3
<1>6. s.high \in Nat /\ s.low \in Nat /\ s.low <= s.high
  BY <1>2 DEF Marks
<1> QED BY <1>4, <1>5, <1>6, PauseWhole

(* write and writelines.                                                   *)
LEMMA WriteKeeps ==
    ASSUME WriteInv, NEW lens \in Payloads, NEW raised \in BOOLEAN, Write(lens, raised)
    PROVE  WriteInv'
<1> DEFINE b == Queued(ready)
           c == Unbatched(ready)
<1>1. Whole(t, b, c, ready.write, written, sent, ready.lost)
  BY DEF WriteInv
<1> HIDE DEF b, c
<1>2. PICK a : a = AppendBuffers(t, lens)
  OBVIOUS
<1>3. lens \in Seq(Nat)
  BY StreamAssumption
<1>4. WShape(t) /\ t.buffer_size \in Nat /\ Bytes(t, ready.write, written, sent)
  BY <1>1 DEF Whole, Sound
<1>5. Bytes(a.to, ready.write, a.end, sent) /\ Grows(t, a.to)
  BY <1>2, <1>3, <1>4, AppendBuffersGrow
<1>6. ~t.write.closed /\ written' = a.end
      /\ t' = (IF raised THEN a.to ELSE MaybePause(a.to))
      /\ UNCHANGED <<ready, phase, sent>>
  BY <1>2 DEF Write
<1>7. Whole(a.to, b, c, ready.write, a.end, sent, ready.lost)
  BY <1>1, <1>5, <1>6, GrowsWhole
<1>8. Whole(t', b, c, ready.write, a.end, sent, ready.lost)
  BY <1>6, <1>7, MaybePauseWhole
<1>9. t'.in_flight = t.in_flight
  <2>1. MaybePause(a.to).in_flight = a.to.in_flight
    BY <1>5 DEF Grows, WShape, MaybePause
  <2> QED BY <1>5, <1>6, <2>1 DEF Grows
<1> QED BY <1>6, <1>8, <1>9 DEF WriteInv, b, c

(* set_write_buffer_limits.                                                *)
LEMMA SetLimitsKeeps ==
    ASSUME WriteInv, NEW l \in Limits, SetLimits(l)
    PROVE  WriteInv'
<1> DEFINE b == Queued(ready)
           c == Unbatched(ready)
<1>1. Whole(t, b, c, ready.write, written, sent, ready.lost)
  BY DEF WriteInv
<1> HIDE DEF b, c
<1>2. l[1] \in Nat /\ l[2] \in Nat /\ l[2] <= l[1]
  BY StreamAssumption
<1>3. PICK v : v = ((t.is_writing /\ t.buffer_size <= l[1]) \/ t.buffer_size <= l[2])
  OBVIOUS
<1>4. WShape(t) /\ t.buffer_size \in Nat
  BY <1>1 DEF Whole, Sound
<1>5. PICK u : u = [t EXCEPT !.high = l[1], !.low = l[2]]
  OBVIOUS
<1>6. Repaused(t, u) /\ u.is_writing = t.is_writing /\ u.high = l[1] /\ u.low = l[2]
  BY <1>4, <1>5 DEF WShape, Repaused
<1>7. PICK p : p = MaybePause(u)
  OBVIOUS
<1>8. PICK x : x = (t.is_writing /\ t.buffer_size <= l[1])
  OBVIOUS
<1>9. p = [u EXCEPT !.is_writing = x]
  BY <1>6, <1>7, <1>8 DEF MaybePause, WShape, Repaused
<1>10. Repaused(t, p) /\ p.is_writing = x /\ p.high = l[1] /\ p.low = l[2]
  BY <1>6, <1>9 DEF WShape, Repaused
<1>11. PICK r : r = [p EXCEPT !.is_writing = @ \/ t.buffer_size <= l[2]]
  OBVIOUS
<1>12. r = [p EXCEPT !.is_writing = v]
  BY <1>3, <1>8, <1>10, <1>11 DEF WShape, Repaused
<1>13. Repaused(t, r) /\ r.is_writing = v /\ r.high = l[1] /\ r.low = l[2]
  BY <1>10, <1>12 DEF WShape, Repaused
<1>14. ~v => t.buffer_size > l[2]
  <2>1. ~v => ~(t.buffer_size <= l[2])
    BY <1>3
  <2>2. ~(t.buffer_size <= l[2]) => t.buffer_size > l[2]
    BY <1>2, <1>4
  <2> QED BY <2>1, <2>2
<1>15. Whole(r, b, c, ready.write, written, sent, ready.lost)
  BY <1>1, <1>2, <1>13, <1>14, PauseWhole
<1>16. r.in_flight = t.in_flight
  BY <1>13 DEF Repaused
<1>17. t' = r /\ UNCHANGED <<ready, phase, written, sent>>
  BY <1>5, <1>7, <1>11 DEF SetLimits, Method
<1> QED BY <1>15, <1>16, <1>17 DEF WriteInv, b, c

(* An iteration of the loop starts.                                        *)
LEMMA TickKeeps ==
    ASSUME WriteInv, Tick
    PROVE  WriteInv'
<1> DEFINE b == Queued(ready)
           c == Unbatched(ready)
<1>1. Whole(t, b, c, ready.write, written, sent, ready.lost)
  BY DEF WriteInv
<1> HIDE DEF b, c
<1>2. PICK u : u = IF NeedsSubmission(t) THEN submit_next_chunk(t) ELSE t
  OBVIOUS
<1>3. /\ t' = Flush(u) /\ phase' = "poll" /\ UNCHANGED <<ready, written, sent>>
      /\ ready = NothingReady
  BY <1>2 DEF Tick
<1>4. ready.write.res = "none"
  BY <1>3 DEF NothingReady, NoCallback
<1>5. Whole(u, b, c, ready.write, written, sent, ready.lost)
  BY <1>1, <1>2, <1>4, SubmitKeeps
<1>6. Whole(t', b, c, ready.write, written, sent, ready.lost)
  BY <1>3, <1>5, FlushWhole
<1> QED BY <1>3, <1>6, SameReadyKeeps DEF b, c

(* Completions move from the CQ to the batch and the ready queue.          *)
LEMMA HarvestHolds ==
    ASSUME WriteInv, ArmedInv, NEW full \in BOOLEAN, Harvest(full)
    PROVE  WriteInv'
<1>1. Whole(t, FALSE, FALSE, NoCallback, written, sent, 0)
  <2>1. phase = "poll" /\ ready = NothingReady
    BY DEF Harvest, ArmedInv
  <2>2. ready.read.res = "none" /\ ready.write = NoCallback /\ ready.lost = 0
    BY <2>1 DEF NothingReady, NoCallback
  <2>3. Queued(ready) = FALSE /\ Unbatched(ready) = FALSE
    BY <2>2 DEF Queued, Unbatched
  <2> QED BY <2>2, <2>3 DEF WriteInv
<1>2. PICK g : g = (t.rop.at = "done")
  OBVIOUS
<1>3. PICK h : h = (t.wop.at = "done")
  OBVIOUS
<1>4. PICK bat : bat = ((t.rop.at = "done") /\ t.rop.res = "data" /\ ~full)
  OBVIOUS
<1>5. PICK p : p = IF t.rop.at = "done" THEN NoOp ELSE t.rop
  OBVIOUS
<1>6. PICK q : q = IF t.wop.at = "done" THEN NoOp ELSE t.wop
  OBVIOUS
<1>7. PICK u : u = [t EXCEPT !.soon = 0, !.rop = p, !.wop = q]
  OBVIOUS
<1>8. PICK r : r = IF bat THEN [u EXCEPT !.record = "fresh", !.read.id = FALSE,
                                         !.read.cancelling = FALSE] ELSE u
  OBVIOUS
<1>9. WShape(t) /\ Sound(t, FALSE, FALSE) /\ Bytes(t, NoCallback, written, sent)
      /\ Marks(t) /\ Count(t, 0) /\ Lives(t, FALSE) /\ Blames(t) /\ Due(t)
  BY <1>1 DEF Whole, Sound
<1>10. t' = r
  <2>1. u = [t EXCEPT !.soon = 0,
                      !.rop = IF @.at = "done" THEN NoOp ELSE @,
                      !.wop = IF @.at = "done" THEN NoOp ELSE @]
    BY <1>5, <1>6, <1>7, <1>9 DEF WShape
  <2> QED BY <1>4, <1>8, <2>1 DEF Harvest
<1>11. /\ ready'.read = IF t.rop.at = "done" THEN [res |-> t.rop.res, batch |-> bat, len |-> t.rop.len]
                        ELSE NoCallback
       /\ ready'.write = IF t.wop.at = "done" THEN [res |-> t.wop.res, batch |-> FALSE, len |-> t.wop.len]
                         ELSE NoCallback
       /\ ready'.lost = t.soon /\ DOMAIN ready' = {"read", "write", "lost"}
       /\ UNCHANGED <<written, sent>> /\ phase' \in {"batch", "run"}
  BY <1>4 DEF Harvest
<1>12. (Queued(ready') <=> t.rop.at = "done") /\ (Unbatched(ready') <=> t.rop.at = "done" /\ ~bat)
  BY <1>11 DEF Queued, Unbatched, ArmedInv, NoCallback
<1>13. /\ u.read = t.read /\ u.write = t.write /\ u.rop = p /\ u.wop = q /\ u.soon = 0
       /\ u.is_writing = t.is_writing /\ u.is_closing = t.is_closing /\ u.closed = t.closed
       /\ u.pending_lost_exc = t.pending_lost_exc
       /\ u.connection_lost_notified = t.connection_lost_notified
       /\ u.exc = t.exc /\ u.broken = t.broken /\ u.failed = t.failed
       /\ u.in_flight = t.in_flight /\ u.bufs = t.bufs /\ u.index = t.index /\ u.offset = t.offset
       /\ u.buffer_size = t.buffer_size /\ u.total = t.total /\ u.exported = t.exported
       /\ u.high = t.high /\ u.low = t.low /\ u.called = t.called
       /\ DOMAIN u = DOMAIN t
  BY <1>7, <1>9 DEF WShape
<1>14. /\ DOMAIN p \in {DOMAIN t.rop, {"at", "cancel", "res", "from", "len"}}
       /\ DOMAIN q \in {DOMAIN t.wop, {"at", "cancel", "res", "from", "len"}}
       /\ t.rop.at = "done" => p.at = "none"
       /\ t.wop.at = "done" => q.at = "none"
       /\ t.rop.at # "done" => p = t.rop
       /\ t.wop.at # "done" => q = t.wop
  BY <1>5, <1>6 DEF NoOp
<1>15. WShape(u)
  BY <1>9, <1>13, <1>14 DEF WShape
<1>16. /\ r.write = u.write /\ r.rop = p /\ r.wop = q /\ r.soon = 0
       /\ r.is_writing = u.is_writing /\ r.is_closing = u.is_closing /\ r.closed = u.closed
       /\ r.pending_lost_exc = u.pending_lost_exc
       /\ r.connection_lost_notified = u.connection_lost_notified
       /\ r.exc = u.exc /\ r.broken = u.broken /\ r.failed = u.failed
       /\ r.in_flight = u.in_flight /\ r.bufs = u.bufs /\ r.index = u.index /\ r.offset = u.offset
       /\ r.buffer_size = u.buffer_size /\ r.total = u.total /\ r.exported = u.exported
       /\ r.high = u.high /\ r.low = u.low /\ r.called = u.called
       /\ DOMAIN r = DOMAIN u
       /\ r.read = IF bat THEN [u.read EXCEPT !.id = FALSE, !.cancelling = FALSE] ELSE u.read
  BY <1>8, <1>13, <1>15 DEF WShape
<1>17. /\ r.read.is_closing = t.read.is_closing /\ r.read.closed = t.read.closed
       /\ r.read.lost_callback = t.read.lost_callback
       /\ IF bat THEN ~r.read.id /\ ~r.read.cancelling
          ELSE r.read.id = t.read.id /\ r.read.cancelling = t.read.cancelling
       /\ DOMAIN r.read = DOMAIN t.read
  BY <1>9, <1>13, <1>16 DEF WShape
<1>18. WShape(r)
  BY <1>9, <1>13, <1>14, <1>16, <1>17 DEF WShape
<1>19. Sound(r, Queued(ready'), Unbatched(ready'))
  <2>1. r.rop.at \in {"none", "staged", "flight", "done"}
    BY <1>9, <1>14, <1>16 DEF Sound
  <2>2. r.read.cancelling => r.read.id /\ Driven(r, Unbatched(ready'))
    BY <1>9, <1>12, <1>14, <1>16, <1>17 DEF Sound, Driven
  <2>3. r.read.id => r.rop.at # "none" \/ Unbatched(ready')
    BY <1>9, <1>12, <1>14, <1>16, <1>17 DEF Sound
  <2>4. r.read.is_closing /\ ~r.read.closed => Driven(r, Queued(ready'))
    BY <1>9, <1>12, <1>14, <1>16, <1>17 DEF Sound, Driven
  <2> QED BY <1>9, <1>12, <1>13, <1>16, <1>17, <1>18, <2>1, <2>2, <2>3, <2>4 DEF Sound
<1>20. Lives(r, Queued(ready')) /\ Blames(r) /\ Due(r)
  <2>1. Answers(r, Queued(ready'))
    BY <1>9, <1>12, <1>13, <1>14, <1>16, <1>17 DEF Lives, Answers, Driven
  <2> QED BY <1>9, <1>13, <1>16, <1>17, <2>1 DEF Lives, Agree, Edge, Blames, Due
<1>21. Marks(r) /\ Count(r, ready'.lost)
  BY <1>9, <1>11, <1>13, <1>16 DEF Marks, Count
<1>22. Bytes(r, ready'.write, written, sent)
  <2>1. CASE t.wop.at = "done"
    <3>1. r.wop.at = "none" /\ ready'.write.res = t.wop.res /\ ready'.write.len = t.wop.len
          /\ t.wop.res # "none"
      BY <1>9, <1>11, <1>14, <1>16, <2>1 DEF Bytes
    <3>2. Took(r, ready'.write) = Took(t, NoCallback) /\ Rest(r) = Rest(t)
      BY <1>13, <1>16, <2>1, <3>1 DEF Took, Rest, NoCallback
    <3>3. Queue(r, sent - Took(r, ready'.write), written)
      BY <1>9, <1>13, <1>16, <3>2 DEF Bytes, Queue
    <3> QED BY <1>9, <1>13, <1>16, <2>1, <3>1, <3>2, <3>3 DEF Bytes
  <2>2. CASE t.wop.at # "done"
    <3>1. r.wop = t.wop /\ ready'.write = NoCallback
      BY <1>11, <1>14, <1>16, <2>2
    <3>2. Took(r, ready'.write) = Took(t, NoCallback) /\ Rest(r) = Rest(t)
      BY <1>13, <1>16, <3>1 DEF Took, Rest
    <3>3. Queue(r, sent - Took(r, ready'.write), written)
      BY <1>9, <1>13, <1>16, <3>2 DEF Bytes, Queue
    <3> QED BY <1>9, <1>13, <1>16, <3>1, <3>2, <3>3 DEF Bytes
  <2> QED BY <2>1, <2>2
<1>23. Whole(r, Queued(ready'), Unbatched(ready'), ready'.write, written', sent', ready'.lost)
  BY <1>11, <1>19, <1>20, <1>21, <1>22 DEF Whole
<1> QED BY <1>10, <1>11, <1>23 DEF WriteInv

(* The batch, the return of data_received, and connection_lost.            *)
LEMMA SmallStepsKeep ==
    ASSUME WriteInv, Dispatch \/ DataReturns \/ ConnectionLost
    PROVE  WriteInv'
<1> DEFINE b == Queued(ready)
           c == Unbatched(ready)
<1>1. Whole(t, b, c, ready.write, written, sent, ready.lost)
  BY DEF WriteInv
<1> HIDE DEF b, c
<1>2. WShape(t)
  BY <1>1 DEF Whole, Sound
<1>3. CASE Dispatch
  <2>1. PICK r : r = [t EXCEPT !.record = "none"]
    OBVIOUS
  <2>2. Repaused(t, r) /\ r.high = t.high /\ r.low = t.low /\ r.is_writing = t.is_writing
    BY <1>2, <2>1 DEF WShape, Repaused
  <2>3. Whole(r, b, c, ready.write, written, sent, ready.lost)
    <3>1. r.high \in Nat /\ r.low \in Nat /\ r.low <= r.high
          /\ (~t.is_closing /\ ~t.closed /\ ~r.is_writing => t.buffer_size > r.low)
      BY <1>1, <2>2 DEF Whole, Marks
    <3> QED BY <1>1, <2>2, <3>1, PauseWhole
  <2>4. t' = r /\ phase' \in {"data", "run"} /\ UNCHANGED <<ready, written, sent>>
    BY <1>3, <2>1 DEF Dispatch
  <2> QED BY <2>3, <2>4, SameReadyKeeps DEF b, c
<1>4. CASE DataReturns
  <2>1. t' = t /\ phase' = "run" /\ UNCHANGED <<ready, written, sent>>
    BY <1>4 DEF DataReturns
  <2> QED BY <1>1, <2>1, SameReadyKeeps DEF b, c
<1>5. CASE ConnectionLost
  <2>1. /\ phase' = phase /\ phase = "run" /\ ready.lost > 0
        /\ ready' = [ready EXCEPT !.lost = @ - 1]
        /\ t' = [t EXCEPT !.called = @ + 1]
        /\ UNCHANGED <<written, sent>>
    BY <1>5 DEF ConnectionLost
  <2>2. PICK r : r = [t EXCEPT !.called = @ + 1]
    OBVIOUS
  <2>3. /\ r.high = t.high /\ r.low = t.low /\ r.is_writing = t.is_writing
        /\ r.in_flight = t.in_flight /\ r.bufs = t.bufs /\ r.index = t.index /\ r.offset = t.offset
        /\ r.buffer_size = t.buffer_size /\ r.total = t.total /\ r.exported = t.exported
        /\ r.called = t.called + 1
        /\ r.wop = t.wop /\ r.rop = t.rop /\ r.read = t.read /\ r.write = t.write
        /\ r.is_closing = t.is_closing /\ r.closed = t.closed
        /\ r.pending_lost_exc = t.pending_lost_exc
        /\ r.connection_lost_notified = t.connection_lost_notified
        /\ r.soon = t.soon /\ r.exc = t.exc /\ r.broken = t.broken /\ r.failed = t.failed
        /\ WShape(r)
    BY <1>2, <2>2 DEF WShape
  <2>4. /\ ready'.lost = ready.lost - 1 /\ ready'.read = ready.read /\ ready'.write = ready.write
        /\ {"read", "write", "lost"} \subseteq DOMAIN ready'
    BY <2>1 DEF WriteInv
  <2>5. Sound(r, b, c)
    BY <1>1, <2>3 DEF Whole, Sound, Driven
  <2>6. Lives(r, b) /\ Blames(r) /\ Due(r)
    BY <1>1, <2>3 DEF Whole, Lives, Agree, Edge, Answers, Driven, Blames, Due
  <2>7. Marks(r)
    BY <1>1, <2>3 DEF Whole, Marks
  <2>8. Count(r, ready.lost - 1)
    BY <1>1, <2>1, <2>3 DEF Whole, Count
  <2>9. Bytes(r, ready.write, written, sent)
    <3>1. SameQueue(r, r) /\ Took(r, ready.write) = Took(t, ready.write) /\ Rest(r) = Rest(t)
      BY <2>3 DEF SameQueue, Took, Rest
    <3>2. Queue(r, sent - Took(r, ready.write), written)
      BY <1>1, <2>3, <3>1 DEF Whole, Bytes, Queue
    <3> QED BY <1>1, <2>3, <3>1, <3>2 DEF Whole, Bytes
  <2>10. Whole(r, b, c, ready'.write, written', sent', ready'.lost)
    BY <2>1, <2>4, <2>5, <2>6, <2>7, <2>8, <2>9 DEF Whole
  <2>11. Queued(ready') = b /\ Unbatched(ready') = c
    BY <2>4 DEF Queued, Unbatched, b, c
  <2> QED BY <2>1, <2>2, <2>4, <2>10, <2>11 DEF WriteInv
<1> QED BY <1>3, <1>4, <1>5

(* The callback of a read has taken the id, unless the harvest has.        *)
Freed(s, r) ==
    /\ WShape(r) /\ SameFlags(s, r) /\ SameQueue(s, r) /\ r.rop = s.rop /\ r.write = s.write
    /\ r.read.is_closing = s.read.is_closing /\ r.read.closed = s.read.closed
    /\ r.read.lost_callback = s.read.lost_callback
    /\ r.read.cancelling => r.read.id /\ Driven(r, FALSE)
    /\ r.read.id => r.rop.at # "none"

(* The callback of a read forgets the read, or frees a cancelled one.      *)
LEMMA ReadStartsKeeps ==
    ASSUME NEW s, NEW b, NEW c, NEW bat, NEW cb, NEW w, NEW n, NEW lost,
           Whole(s, b, c, cb, w, n, lost), c => ~bat,
           NEW r, r = ReadStarts(s, bat)
    PROVE  Freed(s, r)
<1>1. Sound(s, b, c) /\ WShape(s)
  BY DEF Whole, Sound
<1>2. CASE bat
  <2>1. r = s /\ ~c
    BY <1>2 DEF ReadStarts
  <2> QED BY <1>1, <2>1 DEF Freed, Sound, SameFlags, SameQueue, Driven
<1>3. CASE ~bat
  <2>1. r = [s EXCEPT !.read.id = FALSE, !.read.cancelling = FALSE]
    BY <1>3 DEF ReadStarts
  <2>2. /\ r.read = [s.read EXCEPT !.id = FALSE, !.cancelling = FALSE] /\ r.write = s.write
        /\ r.rop = s.rop /\ SameFlags(s, r) /\ SameQueue(s, r)
    BY <1>1, <2>1 DEF WShape, SameFlags, SameQueue
  <2>3. /\ r.read.is_closing = s.read.is_closing /\ r.read.closed = s.read.closed
        /\ r.read.lost_callback = s.read.lost_callback /\ ~r.read.id /\ ~r.read.cancelling
        /\ WShape(r)
    BY <1>1, <2>1, <2>2 DEF WShape
  <2> QED BY <2>2, <2>3 DEF Freed
<1> QED BY <1>2, <1>3

(* The callback of a read.                                                 *)
LEMMA ReadCompletedHolds ==
    ASSUME WriteInv, ReadCompleted
    PROVE  WriteInv'
<1> DEFINE b == Queued(ready)
           c == Unbatched(ready)
<1>1. Whole(t, b, c, ready.write, written, sent, ready.lost)
  BY DEF WriteInv
<1>2. c => ~ready.read.batch
  BY DEF Unbatched
<1> HIDE DEF b, c
<1>a. PICK bat : bat = ready.read.batch
  OBVIOUS
<1>b. c => ~bat
  BY <1>2, <1>a
<1>3. PICK s : s = ReadStarts(t, bat)
  OBVIOUS
<1>4. /\ WShape(s) /\ SameFlags(t, s) /\ SameQueue(t, s) /\ s.rop = t.rop /\ s.write = t.write
      /\ s.read.is_closing = t.read.is_closing /\ s.read.closed = t.read.closed
      /\ s.read.lost_callback = t.read.lost_callback
      /\ s.read.cancelling => s.read.id /\ Driven(s, FALSE)
      /\ s.read.id => s.rop.at # "none"
  <2>1. Freed(t, s)
    BY <1>1, <1>b, <1>3, ReadStartsKeeps
  <2> QED BY <2>1 DEF Freed
<1>5. /\ ready' = [ready EXCEPT !.read = NoCallback] /\ UNCHANGED <<written, sent>>
      /\ phase = "run"
  BY DEF ReadCompleted
<1>6. /\ ready'.read = NoCallback /\ ready'.write = ready.write /\ ready'.lost = ready.lost
      /\ {"read", "write", "lost"} \subseteq DOMAIN ready'
  BY <1>5 DEF WriteInv
<1>7. Queued(ready') = FALSE /\ Unbatched(ready') = FALSE
  BY <1>6 DEF Queued, Unbatched, NoCallback
<1>8. Moves(t, s) /\ Blames(s) /\ Agree(s) /\ Edge(s)
  BY <1>1, <1>4 DEF Whole, Moves, Rises, SameFlags, SameQueue, Due, Blames, Lives, Agree, Edge
<1>9. SUFFICES ASSUME TRUE
               PROVE  /\ Whole(t', FALSE, FALSE, ready.write, written, sent, ready.lost)
                      /\ phase' \notin {"resume_drain", "resume_end"}
  BY <1>5, <1>6, <1>7 DEF WriteInv
<1>10. CASE StreamClosing(s)
  <2>1. PICK u : u = [s EXCEPT !.read.closed = @ \/ StreamClosing(s)]
    OBVIOUS
  <2>2. PICK v : v = (s.read.closed \/ StreamClosing(s))
    OBVIOUS
  <2>3. v
    BY <1>10, <2>2
  <2>4. u = [s EXCEPT !.read.closed = v]
    BY <1>4, <2>1, <2>2 DEF WShape
  <2>5. /\ u.read = [s.read EXCEPT !.closed = v] /\ u.write = s.write /\ u.rop = s.rop
        /\ SameFlags(s, u) /\ SameQueue(s, u)
    BY <1>4, <2>4 DEF WShape, SameFlags, SameQueue
  <2>6. /\ u.read.closed /\ u.read.is_closing = s.read.is_closing
        /\ u.read.lost_callback = s.read.lost_callback
        /\ u.read.id = s.read.id /\ u.read.cancelling = s.read.cancelling /\ WShape(u)
    BY <1>4, <2>3, <2>4, <2>5 DEF WShape
  <2>7. s.read.is_closing
    BY <1>1, <1>4, <1>8, <1>10 DEF StreamClosing, Agree, Whole, Sound
  <2>8. Sound(u, FALSE, FALSE)
    BY <1>1, <1>4, <2>5, <2>6, <2>7 DEF Whole, Sound, SameFlags, SameQueue, Driven
  <2>9. Moves(s, u) /\ Blames(u) /\ Agree(u) /\ Edge(u)
    BY <1>8, <2>5, <2>6 DEF Moves, Rises, SameFlags, SameQueue, Due, Blames, Agree, Edge
  <2>10. PICK m : m = maybe_close_fd(u)
    OBVIOUS
  <2>11. Sound(m, FALSE, FALSE) /\ Stays(u, m) /\ Lives(m, FALSE)
    BY <2>8, <2>9, <2>10, MaybeCloseKeeps
  <2>12. t' = ReadReturns(m, ready.read.res) /\ phase' = phase
    BY <1>a, <1>3, <1>10, <2>1, <2>10 DEF ReadCompleted
  <2>13. Sound(t', FALSE, FALSE) /\ Moves(m, t') /\ Blames(t') /\ Lives(t', FALSE)
    BY <2>9, <2>11, <2>12, ReadReturnsKeeps DEF Stays
  <2>14. Moves(t, t')
    <3>1. t.soon \in Nat /\ s.soon \in Nat /\ u.soon \in Nat
      BY <1>1, <1>4, <2>8 DEF Whole, Sound, SameFlags
    <3>2. Moves(u, t')
      BY <2>11, <2>13, <3>1, MovesTrans DEF Stays
    <3>3. Moves(s, t')
      BY <2>9, <3>1, <3>2, MovesTrans
    <3> QED BY <1>8, <3>1, <3>3, MovesTrans
  <2>15. Whole(t', FALSE, FALSE, ready.write, written, sent, ready.lost)
    BY <1>1, <2>13, <2>14, MovesWhole
  <2> QED BY <1>5, <2>12, <2>15
<1>11. CASE ~StreamClosing(s)
  <2>1. Sound(s, FALSE, FALSE)
    BY <1>1, <1>4, <1>11 DEF Whole, Sound, SameFlags, SameQueue, Driven, StreamClosing
  <2>2. Lives(s, FALSE)
    BY <1>8, <1>11 DEF Lives, Answers, StreamClosing
  <2>3. Whole(s, FALSE, FALSE, ready.write, written, sent, ready.lost)
    BY <1>1, <1>8, <2>1, <2>2, MovesWhole
  <2>4. CASE t' = s /\ phase' \in {"eof", "data_callback"}
    BY <2>3, <2>4
  <2>5. ASSUME NEW u, u \in {s, queue_read_operation(s)},
               t' = ReadReturns(maybe_close_fd(u), ready.read.res), phase' = phase
        PROVE  Whole(t', FALSE, FALSE, ready.write, written, sent, ready.lost)
    <3>1. Sound(u, FALSE, FALSE) /\ Stays(s, u) /\ Lives(u, FALSE)
      BY <2>1, <2>2, <2>5, QueueReadKeeps, StaysRefl
    <3>2. PICK m : m = maybe_close_fd(u)
      OBVIOUS
    <3>3. Sound(m, FALSE, FALSE) /\ Stays(u, m) /\ Lives(m, FALSE)
      BY <3>1, <3>2, MaybeCloseKeeps DEF Lives
    <3>4. Blames(m)
      BY <1>8, <3>1, <3>3 DEF Stays
    <3>5. Sound(t', FALSE, FALSE) /\ Moves(m, t') /\ Blames(t') /\ Lives(t', FALSE)
      BY <2>5, <3>2, <3>3, <3>4, ReadReturnsKeeps
    <3>6. Moves(s, t')
      <4>1. s.soon \in Nat /\ u.soon \in Nat
        BY <2>1, <3>1 DEF Sound
      <4>2. Moves(u, t')
        BY <3>3, <3>5, <4>1, MovesTrans DEF Stays
      <4> QED BY <3>1, <4>1, <4>2, MovesTrans DEF Stays
    <3> QED BY <2>3, <3>5, <3>6, MovesWhole
  <2>6. \/ t' = s /\ phase' \in {"eof", "data_callback"}
        \/ \E u \in {s, queue_read_operation(s)} :
              t' = ReadReturns(maybe_close_fd(u), ready.read.res) /\ phase' = phase
    BY <1>a, <1>3, <1>11 DEF ReadCompleted
  <2> QED BY <1>5, <2>4, <2>5, <2>6
<1> QED BY <1>10, <1>11

(* What the callback does after the protocol code it called.               *)
LEMMA ReadCallsKeep ==
    ASSUME WriteInv, NEW keep_open \in BOOLEAN, ReadCallReturns(keep_open) \/ ReadCallRaises
    PROVE  WriteInv'
<1> DEFINE b == Queued(ready)
           c == Unbatched(ready)
<1>1. Whole(t, b, c, ready.write, written, sent, ready.lost)
  BY DEF WriteInv
<1> HIDE DEF b, c
<1>2. Sound(t, b, c) /\ Lives(t, b) /\ Blames(t) /\ t.soon \in Nat
  BY <1>1 DEF Whole, Sound
<1>3. phase' = "run" /\ UNCHANGED <<ready, written, sent>>
  BY DEF ReadCallReturns, ReadCallRaises
<1>4. Sound(t', b, c) /\ Moves(t, t') /\ Blames(t') /\ Lives(t', b)
  <2>1. CASE ReadCallRaises
    <3>1. t' = ReadRaises(t)
      BY <2>1 DEF ReadCallRaises
    <3> QED BY <1>2, <3>1, ReadRaisesKeeps
  <2>2. CASE ReadCallReturns(keep_open)
    <3>1. PICK s : s = IF phase = "data_callback" THEN queue_read_operation(t)
                       ELSE IF keep_open THEN t ELSE close_transports(t, "None")
      OBVIOUS
    <3>2. Sound(s, b, c) /\ Moves(t, s) /\ Blames(s) /\ Agree(s) /\ Edge(s)
      <4>1. CASE s = queue_read_operation(t)
        BY <1>2, <4>1, QueueReadKeeps DEF Stays, Lives
      <4>2. CASE s = t
        BY <1>2, <4>2, StaysRefl DEF Stays, Lives
      <4>3. CASE s = close_transports(t, "None")
        BY <1>2, <4>3, CloseTransportsKeeps
      <4> QED BY <3>1, <4>1, <4>2, <4>3
    <3>3. PICK m : m = maybe_close_fd(s)
      OBVIOUS
    <3>4. Sound(m, b, c) /\ Stays(s, m) /\ Lives(m, b)
      BY <3>2, <3>3, MaybeCloseKeeps
    <3>5. t' = ReadReturns(m, "data")
      BY <2>2, <3>1, <3>3 DEF ReadCallReturns
    <3>6. Sound(t', b, c) /\ Moves(m, t') /\ Blames(t') /\ Lives(t', b)
      BY <3>2, <3>4, <3>5, ReadReturnsKeeps DEF Stays
    <3>7. s.soon \in Nat
      BY <3>2 DEF Sound
    <3>8. Moves(s, t')
      BY <3>4, <3>6, <3>7, MovesTrans DEF Stays
    <3> QED BY <1>2, <3>2, <3>6, <3>8, MovesTrans
  <2> QED BY <2>1, <2>2
<1>5. Whole(t', b, c, ready.write, written, sent, ready.lost)
  BY <1>1, <1>4, MovesWhole
<1> QED BY <1>3, <1>5, SameReadyKeeps DEF b, c

(* What the callback of a write does after resume_writing.                 *)
LEMMA ResumeStepsKeep ==
    ASSUME WriteInv, ResumeReturns \/ ResumeWritingRaises
    PROVE  WriteInv'
<1> DEFINE b == Queued(ready)
           c == Unbatched(ready)
<1>1. Whole(t, b, c, ready.write, written, sent, ready.lost)
  BY DEF WriteInv
<1> HIDE DEF b, c
<1>2. Sound(t, b, c) /\ Lives(t, b) /\ Blames(t)
  BY <1>1 DEF Whole
<1>3. phase' = "run" /\ UNCHANGED <<ready, written, sent>> /\ ~t.in_flight
  BY DEF ResumeReturns, ResumeWritingRaises, WriteInv
<1>a. ready.write.res = "none"
  BY <1>1, <1>3 DEF Whole, Bytes
<1>4. Whole(t', b, c, ready.write, written, sent, ready.lost)
  <2>1. CASE ResumeWritingRaises
    <3>1. t' = ResumeRaises(t)
      BY <2>1 DEF ResumeWritingRaises
    <3>2. Sound(t', b, c) /\ Moves(t, t') /\ Blames(t') /\ Lives(t', b)
      BY <1>2, <1>3, <3>1, ResumeRaisesKeeps
    <3> QED BY <1>1, <3>2, MovesWhole
  <2>2. CASE ResumeReturns
    <3>1. PICK m : m = maybe_close_fd(t)
      OBVIOUS
    <3>2. Sound(m, b, c) /\ Stays(t, m) /\ Lives(m, b)
      BY <1>2, <3>1, MaybeCloseKeeps DEF Lives
    <3>3. Whole(m, b, c, ready.write, written, sent, ready.lost)
      BY <1>1, <1>2, <3>2, MovesWhole DEF Stays
    <3>4. NextChunk(m) \/ t' = m
      BY <2>2, <3>1 DEF ResumeReturns
    <3> QED BY <1>a, <3>3, <3>4, NextChunkWhole
  <2> QED BY <2>1, <2>2
<1> QED BY <1>3, <1>4, SameReadyKeeps DEF b, c

(* The callback of a write.                                                *)
LEMMA WriteCompletedKeeps ==
    ASSUME WriteInv, WriteCompleted
    PROVE  WriteInv'
<1>1. PICK b : b = Queued(ready)
  OBVIOUS
<1>2. PICK c : c = Unbatched(ready)
  OBVIOUS
<1>3. PICK cb : cb = ready.write
  OBVIOUS
<1>4. Whole(t, b, c, cb, written, sent, ready.lost)
  BY <1>1, <1>2, <1>3 DEF WriteInv
<1>5. PICK k : k = IF cb.res = "data" THEN cb.len ELSE 0
  OBVIOUS
<1>6. PICK s : s = WriteStarts(t, k)
  OBVIOUS
<1>7. PICK d : d = IF s.buffer_size = 0 THEN WriteDrained(s) ELSE s
  OBVIOUS
<1>8. /\ phase = "run" /\ cb.res # "none" /\ UNCHANGED <<written, sent>>
      /\ ready' = [ready EXCEPT !.write = NoCallback]
      /\ IF cb.res = "error" THEN t' = WriteFails(s) /\ phase' = phase
         ELSE IF s.write.closed THEN t' = s /\ phase' = phase
         ELSE IF Resumes(d, s.total)
         THEN /\ t' = [d EXCEPT !.is_writing = TRUE]
              /\ phase' \in {"resume_end", "resume_drain"}
         ELSE NextChunk(maybe_close_fd(d)) /\ phase' = phase
  BY <1>3, <1>5, <1>6, <1>7 DEF WriteCompleted
<1>9. /\ ready'.read = ready.read /\ ready'.write = NoCallback /\ ready'.lost = ready.lost
      /\ {"read", "write", "lost"} \subseteq DOMAIN ready'
  BY <1>8 DEF WriteInv
<1>10. Queued(ready') = b /\ Unbatched(ready') = c
  BY <1>1, <1>2, <1>9 DEF Queued, Unbatched
<1>11. SUFFICES ASSUME TRUE
                PROVE  /\ Whole(t', b, c, NoCallback, written, sent, ready.lost)
                       /\ phase' \in {"resume_drain", "resume_end"} => ~t'.in_flight
  BY <1>8, <1>9, <1>10 DEF WriteInv
<1>12. /\ WShape(t) /\ Sound(t, b, c) /\ Bytes(t, cb, written, sent) /\ t.total \in Nat
       /\ Marks(t) /\ Count(t, ready.lost) /\ t.in_flight /\ t.buffer_size \in Nat
       /\ Lives(t, b) /\ Blames(t)
  BY <1>4, <1>8 DEF Whole, Sound, Marks, Bytes
<1>13. /\ Bytes(s, NoCallback, written, sent) /\ ~s.in_flight
       /\ k \in Nat /\ (cb.res = "data" => k > 0)
       /\ s.buffer_size = t.buffer_size - k /\ s.total = t.total + k
       /\ s.buffer_size \in Nat
       /\ SameFlags(t, s) /\ s.read = t.read /\ s.rop = t.rop /\ WShape(s)
       /\ s.write.is_closing = t.write.is_closing /\ s.write.closed = t.write.closed
       /\ s.write.lost_callback = t.write.lost_callback
       /\ s.high = t.high /\ s.low = t.low /\ s.called = t.called
  BY <1>5, <1>6, <1>8, <1>12, WriteStartsBytes
<1>14. Sound(s, b, c)
  BY <1>12, <1>13 DEF Sound, SameFlags, Driven
<1>15. Lives(s, b) /\ Blames(s) /\ Rises(t, s)
  BY <1>12, <1>13 DEF Lives, Agree, Edge, Answers, Driven, Blames, Rises, SameFlags
<1>16. Count(s, ready.lost) /\ s.total \in Nat
  BY <1>12, <1>13 DEF Count, SameFlags
<1>17. k = 0 => Marks(s)
  <2> SUFFICES ASSUME k = 0 PROVE Marks(s)
    OBVIOUS
  <2>1. s.buffer_size = t.buffer_size
    BY <1>12, <1>13
  <2> QED BY <1>12, <1>13, <1>16, <2>1 DEF Marks, SameFlags
<1>18. CASE cb.res = "error"
  <2>1. t' = WriteFails(s) /\ phase' = phase
    BY <1>8, <1>18
  <2>2. Sound(t', b, c) /\ Moves(s, t') /\ Blames(t') /\ Lives(t', b) /\ t'.write.closed
    BY <1>13, <1>14, <1>15, <2>1, WriteFailsKeeps DEF Lives
  <2>3. Due(t')
    BY <2>2 DEF Due
  <2>4. SameQueue(s, t') /\ Rises(s, t')
    BY <2>2 DEF Moves
  <2>5. Bytes(t', NoCallback, written, sent)
    BY <1>13, <2>4, SameQueueBytes
  <2>6. Marks(t')
    <3>1. Marks(s)
      BY <1>5, <1>17, <1>18
    <3>2. t'.high = s.high /\ t'.low = s.low /\ t'.total = s.total /\ t'.buffer_size = s.buffer_size
      BY <2>4 DEF SameQueue
    <3> QED BY <1>16, <2>4, <3>1, <3>2, RisesMarks
  <2>7. Count(t', ready.lost)
    <3>1. t'.called = s.called
      BY <2>4 DEF SameQueue
    <3> QED BY <1>16, <2>4, <3>1, RisesCount
  <2> QED BY <1>8, <2>1, <2>2, <2>3, <2>5, <2>6, <2>7 DEF Whole
<1>19. CASE cb.res # "error" /\ s.write.closed
  <2>1. t' = s /\ phase' = phase
    BY <1>8, <1>19
  <2>2. s.closed
    BY <1>12, <1>13, <1>19 DEF Sound, SameFlags
  <2>3. Due(s) /\ Marks(s)
    BY <1>12, <1>13, <1>16, <1>19, <2>2 DEF Due, Marks
  <2> QED BY <1>8, <1>13, <1>14, <1>15, <1>16, <2>1, <2>3 DEF Whole
<1>20. CASE cb.res # "error" /\ ~s.write.closed
  <2>1. /\ Sound(d, b, c) /\ Lives(d, b) /\ Blames(d) /\ Due(d) /\ Rises(s, d)
        /\ Bytes(d, NoCallback, written, sent) /\ ~d.in_flight
        /\ d.buffer_size = s.buffer_size /\ d.total \in Nat
        /\ d.high = s.high /\ d.low = s.low /\ d.called = s.called
    <3>1. CASE s.buffer_size = 0
      <4>1. d = WriteDrained(s)
        BY <1>7, <3>1
      <4>2. /\ Sound(d, b, c) /\ Lives(d, b) /\ Blames(d) /\ Due(d) /\ Rises(s, d)
            /\ Bytes(d, NoCallback, written, sent) /\ ~d.in_flight
            /\ d.buffer_size = 0 /\ d.total = 0
            /\ d.high = s.high /\ d.low = s.low /\ d.called = s.called
        BY <1>13, <1>14, <1>15, <3>1, <4>1, WriteDrainedKeeps
      <4> QED BY <3>1, <4>2
    <3>2. CASE s.buffer_size # 0
      <4>1. d = s
        BY <1>7, <3>2
      <4>2. s.buffer_size > 0
        BY <1>13, <3>2
      <4>3. Due(s)
        BY <4>2 DEF Due
      <4>4. Rises(s, s)
        BY DEF Rises
      <4> QED BY <1>13, <1>14, <1>15, <1>16, <4>1, <4>3, <4>4
    <3> QED BY <3>1, <3>2
  <2>2. Count(d, ready.lost)
    BY <1>16, <2>1, RisesCount
  <2>3. d.high \in Nat /\ d.low \in Nat /\ d.low <= d.high
    BY <1>12, <1>13, <2>1 DEF Marks
  <2>4. CASE Resumes(d, s.total)
    <3>1. t' = [d EXCEPT !.is_writing = TRUE] /\ phase' \in {"resume_end", "resume_drain"}
      BY <1>8, <1>20, <2>4
    <3>2. PICK r : r = t'
      OBVIOUS
    <3>3. /\ r.in_flight = d.in_flight /\ r.bufs = d.bufs /\ r.index = d.index /\ r.offset = d.offset
          /\ r.buffer_size = d.buffer_size /\ r.total = d.total /\ r.exported = d.exported
          /\ r.called = d.called /\ r.wop = d.wop /\ r.rop = d.rop /\ r.read = d.read /\ r.write = d.write
          /\ r.is_closing = d.is_closing /\ r.closed = d.closed
          /\ r.pending_lost_exc = d.pending_lost_exc
          /\ r.connection_lost_notified = d.connection_lost_notified
          /\ r.soon = d.soon /\ r.exc = d.exc /\ r.broken = d.broken /\ r.failed = d.failed
          /\ WShape(r) /\ r.is_writing /\ r.high = d.high /\ r.low = d.low
      BY <2>1, <3>1, <3>2 DEF Sound, WShape
    <3>4. Sound(r, b, c)
      BY <2>1, <3>3 DEF Sound, Driven
    <3>5. Lives(r, b) /\ Blames(r) /\ Due(r)
      BY <2>1, <3>3 DEF Lives, Agree, Edge, Answers, Driven, Blames, Due
    <3>6. Marks(r)
      BY <2>1, <2>3, <3>3 DEF Marks
    <3>7. Count(r, ready.lost)
      BY <2>2, <3>3 DEF Count
    <3>8. SameQueue(d, r)
      BY <2>1, <2>2, <3>3 DEF SameQueue
    <3>9. Bytes(r, NoCallback, written, sent)
      BY <2>1, <3>8, SameQueueBytes
    <3> QED BY <2>1, <3>2, <3>3, <3>4, <3>5, <3>6, <3>7, <3>9 DEF Whole
  <2>5. CASE ~Resumes(d, s.total)
    <3>1. NextChunk(maybe_close_fd(d)) /\ phase' = phase
      BY <1>8, <1>20, <2>5
    <3>2. Marks(d)
      <4>1. CASE k = 0
        BY <1>17, <2>1, <4>1, RisesMarks
      <4>2. CASE k # 0
        <5>1. s.total > 0
          BY <1>12, <1>13, <4>2
        <5>2. ~d.is_closing /\ ~d.closed /\ ~d.is_writing => ~(d.buffer_size <= d.low)
          BY <2>5, <5>1 DEF Resumes
        <5>3. ~(d.buffer_size <= d.low) => d.buffer_size > d.low
          BY <1>13, <2>1, <2>3
        <5> QED BY <2>1, <2>3, <5>2, <5>3 DEF Marks
      <4> QED BY <4>1, <4>2
    <3>3. Whole(d, b, c, NoCallback, written, sent, ready.lost)
      BY <2>1, <2>2, <3>2 DEF Whole
    <3>4. PICK m : m = maybe_close_fd(d)
      OBVIOUS
    <3>5. Sound(m, b, c) /\ Stays(d, m) /\ Lives(m, b)
      BY <2>1, <3>4, MaybeCloseKeeps DEF Lives
    <3>6. Whole(m, b, c, NoCallback, written, sent, ready.lost)
      BY <2>1, <3>3, <3>5, MovesWhole DEF Stays
    <3>7. NoCallback.res = "none"
      BY DEF NoCallback
    <3>8. Whole(t', b, c, NoCallback, written, sent, ready.lost)
      BY <3>1, <3>4, <3>6, <3>7, NextChunkWhole
    <3> QED BY <1>8, <3>1, <3>8
  <2> QED BY <2>4, <2>5
<1> QED BY <1>18, <1>19, <1>20

(* The kernel completes a read.                                            *)
LEMMA KernelReadsHolds ==
    ASSUME WriteInv, NEW res, KernelReads(res)
    PROVE  WriteInv'
<1>1. PICK b : b = Queued(ready)
  OBVIOUS
<1>2. PICK c : c = Unbatched(ready)
  OBVIOUS
<1>3. Whole(t, b, c, ready.write, written, sent, ready.lost)
  BY <1>1, <1>2 DEF WriteInv
<1>4. PICK v : v = (t.saw_eof \/ res = "eof")
  OBVIOUS
<1>5. WShape(t) /\ Sound(t, b, c)
  BY <1>3 DEF Whole, Sound
<1>6. PICK r : r = [t EXCEPT !.rop.at = "done", !.rop.res = res, !.saw_eof = v]
  OBVIOUS
<1>7. t' = r /\ phase' = phase /\ UNCHANGED <<ready, written, sent>>
  <2>1. t' = [t EXCEPT !.rop.at = "done", !.rop.res = res, !.saw_eof = @ \/ res = "eof"]
        /\ phase' = phase /\ UNCHANGED <<ready, written, sent>>
    BY DEF KernelReads
  <2> QED BY <1>4, <1>5, <1>6, <2>1 DEF WShape
<1>8. /\ r.rop = [t.rop EXCEPT !.at = "done", !.res = res] /\ r.read = t.read /\ r.write = t.write
      /\ r.wop = t.wop /\ SameFlags(t, r) /\ SameQueue(t, r) /\ DOMAIN r = DOMAIN t
  BY <1>5, <1>6 DEF WShape, SameFlags, SameQueue
<1>9. r.rop.at = "done" /\ DOMAIN r.rop = DOMAIN t.rop
  BY <1>5, <1>8 DEF WShape
<1>10. WShape(r)
  BY <1>5, <1>8, <1>9 DEF WShape
<1>11. Sound(r, b, c)
  BY <1>5, <1>8, <1>9, <1>10 DEF Sound, SameFlags, SameQueue, Driven
<1>12. Lives(r, b) /\ Blames(r) /\ Moves(t, r)
  BY <1>3, <1>8, <1>9 DEF Whole, Lives, Agree, Edge, Answers, Driven, Blames, Moves, Rises, Due,
                        SameFlags, SameQueue
<1>13. Whole(r, b, c, ready.write, written, sent, ready.lost)
  BY <1>3, <1>11, <1>12, MovesWhole
<1>14. r.in_flight = t.in_flight
  BY <1>8 DEF SameQueue
<1> QED BY <1>1, <1>2, <1>7, <1>13, <1>14 DEF WriteInv

(* A buffer that is being written has bytes left.                           *)
LEMMA RestLeft ==
    ASSUME NEW s, NEW a, NEW e, Queue(s, a, e), s.index < Len(s.bufs)
    PROVE  Rest(s) \in Nat /\ Rest(s) > 0
<1>1. s.bufs \in Seq([from : Nat, len : Nat \ {0}]) /\ s.index \in 0 .. Len(s.bufs) /\ s.offset \in Nat
  BY DEF Queue
<1>2. Len(s.bufs) \in Nat /\ \A i \in 1 .. Len(s.bufs) : s.bufs[i] \in [from : Nat, len : Nat \ {0}]
  BY <1>1, SeqFacts
<1>3. s.index + 1 \in 1 .. Len(s.bufs) /\ s.offset \in Nat
  BY <1>1, <1>2
<1>4. PICK x : x = s.bufs[s.index + 1]
  OBVIOUS
<1>5. x \in [from : Nat, len : Nat \ {0}] /\ s.offset < x.len
  BY <1>2, <1>3, <1>4 DEF Queue
<1>6. x.len \in Nat /\ s.offset \in Nat
  BY <1>3, <1>5
<1>7. Rest(s) = x.len - s.offset
  BY <1>4 DEF Rest
<1> QED BY <1>5, <1>6, <1>7

(* The kernel takes some of the bytes of a write, or fails it.             *)
LEMMA KernelWritesKeeps ==
    ASSUME WriteInv, NEW res \in {"data", "eof", "error", "canceled"}, KernelWrites(res)
    PROVE  WriteInv'
<1>1. PICK b : b = Queued(ready)
  OBVIOUS
<1>2. PICK c : c = Unbatched(ready)
  OBVIOUS
<1>3. Whole(t, b, c, ready.write, written, sent, ready.lost)
  BY <1>1, <1>2 DEF WriteInv
<1>4. WShape(t) /\ Sound(t, b, c) /\ Bytes(t, ready.write, written, sent)
  BY <1>3 DEF Whole, Sound
<1>5. /\ t.wop.at = "flight" /\ ready.write.res = "none" /\ t.in_flight
      /\ t.wop.from = sent /\ t.wop.len = Rest(t) /\ sent \in Nat /\ written \in Nat
  BY <1>4 DEF KernelWrites, Bytes
<1>6. Took(t, ready.write) = 0
  BY <1>5 DEF Took
<1>7. Queue(t, sent, written) /\ t.buffer_size = written - sent /\ t.index < Len(t.bufs)
      /\ t.exported = Len(t.bufs) - t.index
  BY <1>4, <1>5, <1>6 DEF Bytes
<1>8. phase' = phase /\ UNCHANGED <<ready, written>>
  BY DEF KernelWrites
<1>9. PICK n : /\ sent' = sent + n
               /\ IF res = "data"
                  THEN /\ n \in 1 .. t.wop.len
                       /\ t' = [t EXCEPT !.wop.at = "done", !.wop.res = res, !.wop.len = n]
                  ELSE /\ n = 0 /\ res # "none"
                       /\ t' = [t EXCEPT !.wop.at = "done", !.wop.res = res]
  <2>1. CASE res = "data"
    <3>1. PICK n \in 1 .. t.wop.len :
              /\ sent' = sent + n
              /\ t' = [t EXCEPT !.wop.at = "done", !.wop.res = res, !.wop.len = n]
      BY <2>1 DEF KernelWrites
    <3> QED BY <2>1, <3>1
  <2>2. CASE res # "data"
    <3>1. sent' = sent /\ t' = [t EXCEPT !.wop.at = "done", !.wop.res = res]
      BY <2>2 DEF KernelWrites
    <3>2. sent' = sent + 0
      BY <1>5, <3>1
    <3> QED BY <2>2, <3>1, <3>2
  <2> QED BY <2>1, <2>2
<1>10. n \in Nat
  <2>1. CASE res = "data"
    BY <1>9, <2>1
  <2>2. CASE res # "data"
    BY <1>9, <2>2
  <2> QED BY <2>1, <2>2
<1>11. PICK r : r = t'
  OBVIOUS
<1>12. /\ r.wop = IF res = "data" THEN [t.wop EXCEPT !.at = "done", !.res = res, !.len = n]
                  ELSE [t.wop EXCEPT !.at = "done", !.res = res]
       /\ r.read = t.read /\ r.write = t.write /\ r.rop = t.rop /\ SameFlags(t, r)
       /\ r.in_flight = t.in_flight /\ r.bufs = t.bufs /\ r.index = t.index /\ r.offset = t.offset
       /\ r.buffer_size = t.buffer_size /\ r.total = t.total /\ r.exported = t.exported
       /\ r.high = t.high /\ r.low = t.low /\ r.called = t.called /\ DOMAIN r = DOMAIN t
  <2>1. CASE res = "data"
    BY <1>4, <1>9, <1>11, <2>1, ZenonT(60) DEF WShape, SameFlags
  <2>2. CASE res # "data"
    BY <1>4, <1>9, <1>11, <2>2 DEF WShape, SameFlags
  <2> QED BY <2>1, <2>2
<1>13. r.wop.at = "done" /\ r.wop.res = res /\ (res = "data" => r.wop.len = n)
       /\ DOMAIN r.wop = DOMAIN t.wop
  BY <1>4, <1>12 DEF WShape
<1>14. WShape(r)
  BY <1>4, <1>12, <1>13 DEF WShape
<1>15. Sound(r, b, c)
  BY <1>4, <1>12, <1>14 DEF Sound, SameFlags, Driven
<1>16. Lives(r, b) /\ Blames(r) /\ Due(r)
  BY <1>3, <1>12 DEF Whole, Lives, Agree, Edge, Answers, Driven, Blames, Due, SameFlags
<1>17. Marks(r) /\ Count(r, ready.lost)
  BY <1>3, <1>12 DEF Whole, Marks, Count, SameFlags
<1>18. Bytes(r, ready.write, written, sent')
  <2>1. Took(r, ready.write) = n
    BY <1>5, <1>9, <1>13 DEF Took
  <2>2. sent' - Took(r, ready.write) = sent /\ sent' \in Nat
        /\ r.buffer_size = written - sent' + Took(r, ready.write)
    BY <1>5, <1>7, <1>9, <1>10, <1>12, <2>1
  <2>3. Queue(r, sent, written)
    BY <1>7, <1>12 DEF Queue
  <2>4. Rest(r) = Rest(t)
    BY <1>12 DEF Rest
  <2>5. n <= Rest(r)
    <3>1. Rest(r) \in Nat
      BY <1>7, <2>4, RestLeft
    <3>2. CASE res = "data"
      BY <1>5, <1>9, <2>4, <3>1, <3>2
    <3>3. CASE res # "data"
      BY <1>9, <3>1, <3>3
    <3> QED BY <3>2, <3>3
  <2>6. res = "data" => n > 0
    BY <1>9
  <2> QED BY <1>5, <1>7, <1>10, <1>12, <1>13, <2>1, <2>2, <2>3, <2>5, <2>6 DEF Bytes
<1>19. Whole(r, b, c, ready.write, written, sent', ready.lost)
  BY <1>15, <1>16, <1>17, <1>18 DEF Whole
<1> QED BY <1>1, <1>2, <1>8, <1>11, <1>12, <1>19 DEF WriteInv

(* A new transport satisfies the invariant of the write side.              *)
LEMMA InitWrites ==
    ASSUME Init
    PROVE  WriteInv
<1>1. PICK l \in Limits :
        t = [is_reading |-> TRUE, is_writing |-> TRUE, is_closing |-> FALSE,
             closed |-> FALSE, fd |-> TRUE, attached |-> TRUE,
             record |-> "none", pending_lost_exc |-> "null",
             connection_lost_notified |-> FALSE, high |-> l[1], low |-> l[2],
             read |-> [Half EXCEPT !.id = TRUE],
             write |-> Half,
             in_flight |-> FALSE, eof_pending |-> FALSE, bufs |-> <<>>,
             index |-> 0, offset |-> 0, buffer_size |-> 0, total |-> 0,
             exported |-> 0,
             rop |-> [NoOp EXCEPT !.at = "staged"], wop |-> NoOp, fin |-> "no",
             soon |-> 0, called |-> 0, exc |-> "null",
             broken |-> FALSE, failed |-> FALSE,
             saw_eof |-> FALSE]
  BY DEF Init
<1>2. l[1] \in Nat /\ l[2] \in Nat /\ l[2] <= l[1]
  <2>1. l \in Nat \X Nat /\ l[1] >= l[2]
    BY <1>1, StreamAssumption
  <2> QED BY <2>1
<1>3. /\ t.is_writing /\ ~t.is_closing /\ ~t.closed /\ t.pending_lost_exc = "null"
      /\ ~t.connection_lost_notified /\ t.high = l[1] /\ t.low = l[2]
      /\ t.read = [Half EXCEPT !.id = TRUE] /\ t.write = Half
      /\ ~t.in_flight /\ t.bufs = <<>> /\ t.index = 0 /\ t.offset = 0
      /\ t.buffer_size = 0 /\ t.total = 0 /\ t.exported = 0
      /\ t.rop = [NoOp EXCEPT !.at = "staged"] /\ t.wop = NoOp
      /\ t.soon = 0 /\ t.called = 0 /\ ~t.broken /\ ~t.failed
      /\ DOMAIN t = {"is_reading", "is_writing", "is_closing", "closed", "fd", "attached", "record",
        "pending_lost_exc", "connection_lost_notified", "high", "low", "read", "write",
        "in_flight", "eof_pending", "bufs", "index", "offset", "buffer_size", "total",
        "exported", "rop", "wop", "fin", "soon", "called", "exc", "broken", "failed",
        "saw_eof"}
  BY <1>1
<1>4. /\ t.read.id /\ ~t.read.cancelling /\ ~t.read.is_closing /\ ~t.read.closed
      /\ t.read.lost_callback
      /\ ~t.write.is_closing /\ ~t.write.closed /\ t.write.lost_callback
      /\ DOMAIN t.read = {"id", "cancelling", "is_closing", "closed", "lost_callback"}
      /\ DOMAIN t.write = {"id", "cancelling", "is_closing", "closed", "lost_callback"}
  BY <1>3 DEF Half
<1>5. /\ t.rop.at = "staged" /\ t.wop.at = "none" /\ t.wop.res = "none"
      /\ DOMAIN t.rop = {"at", "cancel", "res", "from", "len"}
      /\ DOMAIN t.wop = {"at", "cancel", "res", "from", "len"}
  BY <1>3 DEF NoOp
<1>6. /\ ready.read.res = "none" /\ ready.write.res = "none" /\ ready.lost = 0
      /\ DOMAIN ready = {"read", "write", "lost"} /\ phase = "run" /\ written = 0 /\ sent = 0
  BY DEF Init, NothingReady, NoCallback
<1>7. WShape(t)
  BY <1>3, <1>4, <1>5 DEF WShape
<1>8. PICK b : b = Queued(ready)
  OBVIOUS
<1>9. PICK c : c = Unbatched(ready)
  OBVIOUS
<1>10. ~b /\ ~c
  BY <1>6, <1>8, <1>9 DEF Queued, Unbatched
<1>11. Sound(t, b, c)
  BY <1>3, <1>4, <1>5, <1>7, <1>10 DEF Sound, Driven
<1>12. Lives(t, b) /\ Blames(t) /\ Due(t)
  BY <1>3, <1>4, <1>5 DEF Lives, Agree, Edge, Answers, Blames, Due
<1>13. Marks(t) /\ Count(t, ready.lost)
  BY <1>2, <1>3, <1>6 DEF Marks, Count
<1>14. Bytes(t, ready.write, written, sent)
  <2>1. Took(t, ready.write) = 0
    BY <1>5, <1>6 DEF Took
  <2>2. Len(t.bufs) = 0 /\ t.bufs \in Seq([from : Nat, len : Nat \ {0}])
    BY <1>3
  <2>3. Queue(t, 0, 0)
    BY <1>3, <2>2 DEF Queue
  <2> QED BY <1>3, <1>5, <1>6, <2>1, <2>2, <2>3 DEF Bytes
<1>15. Whole(t, b, c, ready.write, written, sent, ready.lost)
  BY <1>11, <1>12, <1>13, <1>14 DEF Whole
<1> QED BY <1>6, <1>8, <1>9, <1>15 DEF WriteInv

(* Every step keeps it.                                                    *)
LEMMA StepWrites ==
    ASSUME ArmedInv, WriteInv, [Next]_vars
    PROVE  WriteInv'
<1>1. CASE UNCHANGED vars
  <2>1. t' = t /\ phase' = phase /\ UNCHANGED <<ready, written, sent>>
    BY <1>1 DEF vars
  <2>2. Whole(t', Queued(ready), Unbatched(ready), ready.write, written, sent, ready.lost)
    BY <2>1 DEF WriteInv
  <2> QED BY <2>1, <2>2, SameReadyKeeps DEF WriteInv
<1>2. CASE Python
  BY <1>2, MethodsKeep, WriteKeeps, SetLimitsKeeps DEF Python
<1>3. CASE LoopThread
  BY <1>3, TickKeeps, HarvestHolds, SmallStepsKeep, ReadCompletedHolds, ReadCallsKeep,
     WriteCompletedKeeps, ResumeStepsKeep DEF LoopThread
<1>4. CASE Kernel
  BY <1>4, KernelReadsHolds, KernelWritesKeeps DEF Kernel
<1> QED BY <1>1, <1>2, <1>3, <1>4 DEF Next

(* Whatever is called and whatever the kernel does, both invariants hold.  *)
LEMMA WritesAlways == Spec => [](ArmedInv /\ WriteInv)
<1>1. Spec => Init /\ [][Next]_vars
  BY PTL DEF Spec
<1>2. Init => ArmedInv /\ WriteInv
  BY InitHolds, InitWrites
<1>3. ArmedInv /\ WriteInv /\ [Next]_vars => ArmedInv' /\ WriteInv'
  BY StepHolds, StepWrites
<1> QED BY <1>1, <1>2, <1>3, PTL

(* What was written and is not acknowledged is the backlog.                *)
LEMMA BacklogIs ==
    ASSUME WriteInv
    PROVE  /\ Unseen = Took(t, ready.write)
           /\ written \in Nat /\ sent \in Nat /\ Unseen \in Nat
           /\ t.buffer_size = written - sent + Unseen
           /\ t.buffer_size > 0 \/ t.in_flight => t.index < Len(t.bufs)
<1>1. Unseen = Took(t, ready.write)
  BY DEF Unseen, Took
<1>2. Bytes(t, ready.write, written, sent)
  BY DEF WriteInv, Whole
<1>3. t.buffer_size > 0 => t.index < Len(t.bufs)
  BY <1>2, BytesSize
<1> QED BY <1>1, <1>2, <1>3 DEF Bytes

(* What a write operation carries are the next bytes of what was written,  *)
(* the backlog is accounted to the byte and each exported buffer is        *)
(* released once: for payloads of any number and size, any limits, any     *)
(* splitting of writes by the kernel, and through errors, cancellations    *)
(* and failing flushes.                                                    *)
THEOREM BytesArriveInOrder == Spec => []BytesInOrder
<1>1. WriteInv => BytesInOrder
  BY BacklogIs DEF WriteInv, Whole, Bytes, BytesInOrder, SizeIsBacklog
<1> QED BY <1>1, WritesAlways, PTL

(* The protocol of an open transport is paused only while the backlog is   *)
(* above the low-water mark, for any limits and any order of writes,       *)
(* drains and changes of the limits.                                       *)
THEOREM PausedWhileFull == Spec => []PausedOnlyWhileFull
<1>1. WriteInv => PausedOnlyWhileFull
  BY DEF WriteInv, Whole, Marks, PausedOnlyWhileFull, Open
<1> QED BY <1>1, WritesAlways, PTL

(* connection_lost of a transport that closed in order is scheduled only   *)
(* after the kernel took every byte that was written.                      *)
THEOREM ClosesAfterFlush == Spec => []CloseFlushes
<1>1. WriteInv => CloseFlushes
  <2> SUFFICES ASSUME WriteInv, t.connection_lost_notified, ~t.broken
               PROVE  sent = written
    BY DEF CloseFlushes
  <2>1. t.buffer_size = 0 /\ ~t.in_flight
    BY DEF WriteInv, Whole, Sound
  <2>2. Took(t, ready.write) = 0
    <3>1. t.wop.at = "none" /\ ready.write.res = "none"
      BY <2>1 DEF WriteInv, Whole, Bytes
    <3> QED BY <3>1 DEF Took
  <2> QED BY <2>1, <2>2, BacklogIs
<1> QED BY <1>1, WritesAlways, PTL

(* connection_lost is called at most once, with the error that closed the  *)
(* transport, and a closing transport always has something under way that  *)
(* leads to it.                                                            *)
THEOREM LostIsReportedOnce == Spec => []LostOnce
<1>1. WriteInv => LostOnce
  <2> SUFFICES ASSUME WriteInv
               PROVE  LostOnce
    OBVIOUS
  <2>1. PICK b : b = Queued(ready)
    OBVIOUS
  <2>2. Sound(t, b, Unbatched(ready)) /\ Lives(t, b) /\ Blames(t) /\ Due(t) /\ Count(t, ready.lost)
    BY <2>1 DEF WriteInv, Whole
  <2>3. t.soon + ready.lost + t.called <= 1
    BY <2>2 DEF Count
  <2>4. t.connection_lost_notified => t.soon + ready.lost + t.called > 0
    BY <2>2 DEF Count
  <2>5. t.failed /\ t.connection_lost_notified => t.exc = "error"
    BY <2>2 DEF Blames
  <2>6. ASSUME t.is_closing
        PROVE  ReportIsDriven
    <3>1. t.read.is_closing /\ t.write.is_closing
      BY <2>2, <2>6 DEF Lives, Agree, Edge
    <3>2. CASE ~t.write.closed
      <4>1. t.in_flight \/ t.buffer_size > 0
        BY <2>2, <3>1, <3>2 DEF Due
      <4> QED BY <4>1, BacklogIs DEF ReportIsDriven
    <3>3. CASE t.write.closed
      <4>1. t.connection_lost_notified \/ Driven(t, b)
        BY <2>2, <2>6, <3>1, <3>3 DEF Sound, Lives, Answers
      <4> QED BY <2>1, <2>4, <4>1 DEF ReportIsDriven, Driven, Queued
    <3> QED BY <3>2, <3>3
  <2> QED BY <2>3, <2>5, <2>6 DEF LostOnce
<1> QED BY <1>1, WritesAlways, PTL
=============================================================================
