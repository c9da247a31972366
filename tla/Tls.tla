-------------------------------- MODULE Tls ---------------------------------
(***************************************************************************)
(* One TLS endpoint of src/talyn/loop.py: the five protocol classes that   *)
(* sit between a native stream transport and the application's protocol,   *)
(* the _SSLTransportWrapper that the application writes to, and the        *)
(* coroutine that opens the connection.  All of it runs on the loop        *)
(* thread.  What makes it hard is that the application is called from the  *)
(* middle of a handler and may write or close there, that the raw          *)
(* transport calls pause_writing from inside write, and that the peer, the *)
(* kernel, two timers and a cancellation each act when they like.          *)
(*                                                                         *)
(* s is the endpoint: class, wrapper, SSL object, raw transport and        *)
(* opener.  A method is an operator from such records to such records.     *)
(* c is what the application does when a method calls it.                  *)
(*                                                                         *)
(* A TLS record is a flight of a handshake, a request to renegotiate (or   *)
(* the answer to it), close_notify, a record that does not verify, or a    *)
(* positive number: on the way out a byte of plaintext, on the way in a    *)
(* chunk of it.  Fin is the end of the peer's stream.                      *)
(***************************************************************************)
EXTENDS Integers, Sequences, SequencesExt, FiniteSets

CONSTANTS
    Kinds,      \* which of the classes
    High, Low,  \* the raw transport's limits, in records
    MaxBytes,   \* bound: bytes that the application writes
    MaxData,    \* bound: chunks that the peer sends
    Partial     \* SSLObject.write may accept a part of its argument

ASSUME TlsAssumption ==
    /\ Kinds \subseteq {"start_tls", "client", "server", "unix_client",
                        "unix_server"}
    /\ High \in Nat /\ Low \in Nat /\ Low <= High
    /\ MaxBytes \in Nat /\ MaxData \in Nat
    /\ Partial \in BOOLEAN

VARIABLES
    s,     \* the endpoint
    net,   \* records on their way to it
    wire,  \* records that the peer has received from it
    peer   \* what the peer has sent

vars == <<s, net, wire, peer>>

Flight == 0
Reneg == -1
CloseNotify == -2
Bad == -3
Fin == -4

-----------------------------------------------------------------------------
(* The classes.  wait: how the opener waits for the handshake; wakes:      *)
(* connection_lost fails the waiter; made: the application's               *)
(* connection_made is called after the handshake; releases:                *)
(* connection_lost drops the SSL object; closes: a failed handshake closes *)
(* the raw transport at once; eof: _r reports the end of the stream;       *)
(* half: eof_received returns what the application returned; pauses:       *)
(* pause_writing and resume_writing are defined; retries: data that comes  *)
(* after close goes to _start_shutdown.                                    *)

start_tls_SP ==
    [wait |-> {"timeout"}, wakes |-> TRUE, made |-> FALSE, releases |-> FALSE,
     closes |-> TRUE, eof |-> FALSE, half |-> TRUE, pauses |-> TRUE,
     retries |-> TRUE, sides |-> {"client", "server"}]

client_SP ==
    [wait |-> {"timeout", "forever"}, wakes |-> FALSE, made |-> TRUE,
     releases |-> TRUE, closes |-> FALSE, eof |-> TRUE, half |-> TRUE,
     pauses |-> TRUE, retries |-> TRUE, sides |-> {"client"}]

server_SSP ==
    [wait |-> {"nobody"}, wakes |-> FALSE, made |-> TRUE, releases |-> FALSE,
     closes |-> TRUE, eof |-> TRUE, half |-> FALSE, pauses |-> TRUE,
     retries |-> TRUE, sides |-> {"server"}]

unix_client_SP ==
    [wait |-> {"timeout"}, wakes |-> FALSE, made |-> TRUE, releases |-> TRUE,
     closes |-> FALSE, eof |-> TRUE, half |-> TRUE, pauses |-> TRUE,
     retries |-> TRUE, sides |-> {"client"}]

unix_server_SSP ==
    [wait |-> {"nobody"}, wakes |-> FALSE, made |-> TRUE, releases |-> FALSE,
     closes |-> TRUE, eof |-> FALSE, half |-> FALSE, pauses |-> FALSE,
     retries |-> FALSE, sides |-> {"server"}]

Class == [start_tls |-> start_tls_SP, client |-> client_SP,
          server |-> server_SSP, unix_client |-> unix_client_SP,
          unix_server |-> unix_server_SSP]

(* start_tls: a StreamReader may hold the beginning of the peer's          *)
(* handshake in its buffer, and hands it over.                             *)
EarlyFlights(k, side) ==
    IF k = "start_tls" /\ side = "server" THEN 0 .. 1 ELSE {0}

(* connection_made of the raw transport has still to be called (Connect).  *)
Init ==
    \E k \in Kinds : \E side \in Class[k].sides, w \in Class[k].wait :
    \E early \in EarlyFlights(k, side) :
        /\ s = [kind |-> k, side |-> side, wait |-> w,
                (* the protocol object *)
                started |-> FALSE, hs |-> FALSE, running |-> TRUE,
                paused |-> FALSE, released |-> FALSE,
                incoming |-> [i \in 1 .. early |-> Flight], outgoing |-> <<>>,
                (* the SSL object *)
                flights |-> 0, needs |-> FALSE, shut |-> FALSE, broken |-> FALSE,
                (* the wrapper *)
                closing |-> FALSE, timer |-> FALSE, buf |-> <<>>,
                (* the raw transport *)
                raw |-> "open", queue |-> <<>>, full |-> FALSE,
                (* the application, and the coroutine that opens *)
                given |-> <<>>,
                waiter |-> IF w = "nobody" THEN "done" ELSE "pending",
                opener |-> IF w = "nobody" THEN "none" ELSE "waiting",
                (* history *)
                bytes |-> 0, kept |-> {}, stalled |-> FALSE]
        /\ net = <<>>
        /\ wire = <<>>
        /\ peer = [flights |-> early, data |-> 0, asked |-> FALSE,
                   answered |-> FALSE, ended |-> "no"]

-----------------------------------------------------------------------------
(* The raw transport: write, which drops what it is given once the         *)
(* transport is closing and calls pause_writing above the high-water mark, *)
(* and close.                                                              *)

RawWrite(e, records) ==
    IF e.raw # "open" \/ records = <<>> THEN e
    ELSE LET queue == e.queue \o records IN
         [e EXCEPT !.queue = queue,
                   !.full = @ \/ Len(queue) > High,
                   !.paused = @ \/ (~e.full /\ Len(queue) > High /\
                                    Class[e.kind].pauses)]

RawClose(e) == IF e.raw = "open" THEN [e EXCEPT !.raw = "closing"] ELSE e

(* The SSL object.  A record that ends the stream stays at the head of     *)
(* incoming: reading it again gives the same answer.                       *)
IsData(r) == r > 0
Data(records) ==
    LET data[i \in 0 .. Len(records)] ==
            IF i = 0 THEN <<>>
            ELSE IF IsData(records[i]) THEN Append(data[i - 1], records[i])
            ELSE data[i - 1]
    IN  data[Len(records)]

Count(x, seq) == Cardinality({i \in DOMAIN seq : seq[i] = x})

Readable(records) ==
    LET stops == {i \in DOMAIN records : records[i] \in {CloseNotify, Bad}}
    IN  SubSeq(records, 1,
               IF stops = {} THEN Len(records)
               ELSE (CHOOSE i \in stops : \A j \in stops : i <= j) - 1)

(* SSLObject reads the records that it has: a request to renegotiate is    *)
(* answered in outgoing, and nothing can be written until the peer's       *)
(* answer to that is read.  After close_notify it ignores the request.     *)
Take(e, records) ==
    LET reneg == {i \in DOMAIN records : records[i] \in {Reneg, Flight}}
        last == CHOOSE i \in reneg : \A j \in reneg : i >= j
    IN  [e EXCEPT !.incoming = SubSeq(@, Len(records) + 1, Len(@)),
                  !.outgoing = IF e.shut THEN @
                               ELSE @ \o [i \in 1 .. Count(Reneg, records) |-> Reneg],
                  !.needs = IF reneg = {} THEN @
                            ELSE records[last] = Reneg /\ ~e.shut]

(* What SSLObject.write does first: it goes on with a handshake that is    *)
(* under way, as far as incoming reaches.                                  *)
Renegotiate(e) ==
    IF e.needs /\ e.incoming # <<>> /\ Head(e.incoming) = Flight
    THEN Take(e, <<Flight>>)
    ELSE e

-----------------------------------------------------------------------------
(* _SSLTransportWrapper                                                    *)

_f(e) == RawWrite([e EXCEPT !.outgoing = <<>>], e.outgoing)

(* Mutated form: what SSLObject.write did not accept is dropped. *)
write_dropping(e, data, part) ==
    LET t == Renegotiate(e) IN
    IF e.paused THEN [e EXCEPT !.buf = Append(@, data)]
    ELSE IF e.released THEN e
    ELSE IF t.shut \/ t.broken THEN _f(t)
    ELSE IF t.needs THEN _f([t EXCEPT !.stalled = TRUE])
    ELSE LET n == IF part THEN 1 ELSE Len(data)
         IN  _f([t EXCEPT !.outgoing = @ \o SubSeq(data, 1, n),
                          !.stalled = @ \/ part])

(* write.  After close_notify, or a record that did not verify,            *)
(* SSLObject.write fails: the error is raised from a callback of its own,  *)
(* and the data is gone.                                                   *)
write(e, data, part) ==
    LET t == Renegotiate(e) IN
    IF e.paused THEN [e EXCEPT !.buf = Append(@, data)]
    ELSE IF e.released THEN e
    ELSE IF t.shut \/ t.broken THEN _f(t)
    ELSE IF t.needs THEN _f([t EXCEPT !.buf = Append(@, data), !.stalled = TRUE])
    ELSE LET n == IF part THEN 1 ELSE Len(data)
             rest == SubSeq(data, n + 1, Len(data))
         IN  _f([t EXCEPT !.outgoing = @ \o SubSeq(data, 1, n),
                          !.buf = IF rest = <<>> THEN @ ELSE Append(@, rest),
                          !.stalled = @ \/ rest # <<>>])

_flush_write_buffer(e) ==
    LET t == Renegotiate(e) IN
    IF e.released THEN e
    ELSE IF e.buf = <<>> THEN _f(e)
    ELSE IF t.shut \/ t.broken THEN _f([t EXCEPT !.buf = Tail(@)])
    ELSE IF t.needs THEN _f([t EXCEPT !.stalled = TRUE])
    ELSE _f([t EXCEPT !.outgoing = @ \o FlattenSeq(t.buf), !.buf = <<>>])

_force_close(e) == RawClose([e EXCEPT !.timer = FALSE])

(* SSLObject.unwrap sends close_notify and then needs the peer's; data in  *)
(* its place is an error, and so is a handshake that is not over.          *)
unwrap(e) ==
    IF ~e.hs \/ e.needs \/ e.broken THEN [to |-> e, res |-> "error"]
    ELSE LET t == [e EXCEPT !.shut = TRUE,
                            !.outgoing = IF e.shut THEN @ ELSE Append(@, CloseNotify)]
         IN  [to |-> t,
              res |-> IF t.incoming = <<>> THEN "want_read"
                      ELSE IF Head(t.incoming) = CloseNotify THEN "ok" ELSE "error"]

(* Mutated form: the buffered plaintext is not flushed first. *)
_start_shutdown_unflushed(e) ==
    LET u == unwrap(e)
        t == _f(u.to)
    IN  IF e.released THEN e
        ELSE IF u.res = "want_read" /\ ~t.timer THEN [t EXCEPT !.timer = TRUE]
        ELSE _force_close(t)

(* Mutated form: no timer. *)
_start_shutdown_untimed(e) ==
    LET flushed == _flush_write_buffer(e)
        u == unwrap(flushed)
        t == _f(u.to)
    IN  IF flushed.buf # <<>> THEN flushed
        ELSE IF u.res = "want_read" /\ ~t.timer THEN t
        ELSE _force_close(t)

(* Without an SSL object (it was released) the first use of it raises.     *)
_start_shutdown(e) ==
    LET flushed == _flush_write_buffer(e)
        u == unwrap(flushed)
        t == _f(u.to)
    IN  IF e.released \/ flushed.buf # <<>> THEN flushed
        ELSE IF u.res = "want_read" /\ ~t.timer THEN [t EXCEPT !.timer = TRUE]
        ELSE _force_close(t)

close(e) == IF e.closing THEN e ELSE _start_shutdown([e EXCEPT !.closing = TRUE])

(* abort discards what the raw transport has queued.                       *)
abort(e) == IF e.raw = "lost" THEN e
            ELSE [e EXCEPT !.raw = "closing", !.queue = <<>>]

(* What the application does when it is called.  It has the transport from *)
(* connection_made, or from start_tls when that returns.                   *)
HasTransport(e) == e.hs /\ (Class[e.kind].made \/ e.opener = "ok")

Calls == {"return", "write", "close", "abort"} \cup
         (IF Partial THEN {"write_part"} ELSE {})

App(e, c) ==
    LET data == <<e.bytes + 1, e.bytes + 2>>
        wrote == [e EXCEPT !.bytes = @ + 2,
                           !.kept = IF e.shut THEN @ ELSE @ \cup Range(data)]
    IN  IF c = "return" \/ ~HasTransport(e) THEN e
        ELSE CASE c \in {"write", "write_part"} ->
                    IF e.bytes + 2 > MaxBytes THEN e
                    ELSE write(wrote, data, c = "write_part")
               [] c = "close" -> close(e)
               [] c = "abort" -> abort(e)

-----------------------------------------------------------------------------
(* The protocol classes.                                                   *)

Finish(e, res) == IF e.waiter = "pending" THEN [e EXCEPT !.waiter = res] ELSE e

FlightsNeeded(e) == IF e.side = "client" THEN 1 ELSE 2

(* do_handshake: a client speaks first; each flight of the peer is         *)
(* answered, except by a server that has the last one.                     *)
do_handshake(e) ==
    LET t == [e EXCEPT !.started = TRUE,
                       !.outgoing = IF e.side = "client" /\ ~e.started
                                    THEN Append(@, Flight) ELSE @]
        flights == t.flights + 1
    IN  IF t.broken THEN [to |-> t, res |-> "error"]
        ELSE IF t.incoming = <<>> THEN [to |-> t, res |-> "want_read"]
        ELSE IF Head(t.incoming) # Flight
        THEN [to |-> [t EXCEPT !.broken = TRUE], res |-> "error"]
        ELSE [to |-> [t EXCEPT !.incoming = Tail(@), !.flights = flights,
                               !.outgoing = IF flights = 2 THEN @
                                            ELSE Append(@, Flight)],
              res |-> IF flights = FlightsNeeded(t) THEN "done"
                      ELSE "want_read"]

_h(e, c) ==
    LET h == do_handshake(e)
        k == Class[e.kind]
        failed == Finish(h.to, "failed")
        done == _f(Finish([h.to EXCEPT !.hs = TRUE], "done"))
    IN  CASE h.res = "want_read" -> _f(h.to)
          [] h.res = "error" -> IF k.closes
                                THEN RawClose([failed EXCEPT !.running = FALSE])
                                ELSE failed
          [] h.res = "done" -> IF k.made THEN App(done, c)
                               ELSE done

(* Mutated form: a class that forgets the chunks that precede the end. *)
_r_eof_first(e, c) ==
    LET records == Readable(e.incoming)
        t == Take(e, records)
        k == Class[e.kind]
    IN  IF ~e.running THEN e
        ELSE IF k.eof /\ t.incoming # <<>> THEN _start_shutdown(App(t, c))
        ELSE IF Data(records) = <<>> THEN t
        ELSE App([t EXCEPT !.given = @ \o Data(records)], c)

(* _r: everything that can be read is given to data_received in one piece, *)
(* then the end of the stream, if that was met, to eof_received, and the   *)
(* shutdown is started.  Nothing here sends what reading left in outgoing. *)
_r(e, c) ==
    LET records == Readable(e.incoming)
        t == Take(e, records)
        k == Class[e.kind]
        ended == t.incoming # <<>>
        given == [t EXCEPT !.given = @ \o Data(records),
                           !.broken = @ \/ (ended /\ Head(t.incoming) = Bad)]
    IN  IF ~e.running THEN e
        ELSE IF k.eof /\ ended THEN _start_shutdown(App(given, c))
        ELSE IF Data(records) = <<>> THEN given
        ELSE App(given, c)

buffer_updated(e, records, c) ==
    LET t == [e EXCEPT !.incoming = @ \o records] IN
    IF e.closing /\ Class[e.kind].retries THEN _start_shutdown(t)
    ELSE IF ~e.hs THEN _h(t, c) ELSE _r(t, c)

eof_received(e, c, keep) ==
    IF keep /\ Class[e.kind].half THEN App(e, c) ELSE RawClose(App(e, c))

(* Mutated form: the plaintext that was buffered is not flushed. *)
resume_writing_only(e, c) ==
    IF ~Class[e.kind].pauses THEN e
    ELSE _f(App([e EXCEPT !.paused = FALSE], c))

resume_writing(e, c) ==
    IF ~Class[e.kind].pauses THEN e
    ELSE _f(_flush_write_buffer(App([e EXCEPT !.paused = FALSE], c)))

connection_lost(e) ==
    LET t == IF Class[e.kind].wakes THEN Finish(e, "failed") ELSE e
    IN  [t EXCEPT !.raw = "lost", !.running = FALSE,
                  !.released = Class[e.kind].releases]

-----------------------------------------------------------------------------
(* Actions of the loop thread.                                             *)

(* connection_made of the raw transport.                                   *)
Connect(c) ==
    /\ ~s.started
    /\ s.raw # "lost"
    /\ s' = _h(s, c)
    /\ UNCHANGED <<net, wire, peer>>

(* A read completes with the first records of what is under way.  A read   *)
(* that was complete when the transport was closed is still delivered.     *)
Deliver(c) ==
    /\ s.started
    /\ s.raw # "lost"
    /\ \E n \in 1 .. Len(net) :
        /\ Fin \notin Range(SubSeq(net, 1, n))
        /\ s' = buffer_updated(s, SubSeq(net, 1, n), c)
        /\ net' = SubSeq(net, n + 1, Len(net))
    /\ UNCHANGED <<wire, peer>>

DeliverEof(c, keep) ==
    /\ s.started
    /\ s.raw = "open"
    /\ net # <<>> /\ Head(net) = Fin
    /\ s' = eof_received(s, c, keep)
    /\ net' = <<>>
    /\ UNCHANGED <<wire, peer>>

(* The kernel takes a record; at the low-water mark writing is resumed.    *)
Drain(c) ==
    /\ s.queue # <<>>
    /\ LET t == [s EXCEPT !.queue = Tail(@)]
       IN  s' = IF t.full /\ Len(t.queue) <= Low /\ t.raw = "open"
                THEN resume_writing([t EXCEPT !.full = FALSE], c)
                ELSE t
    /\ wire' = Append(wire, Head(s.queue))
    /\ UNCHANGED <<net, peer>>

(* The connection is reset.                                                *)
Reset ==
    /\ s.raw # "lost"
    /\ s.raw = "open" \/ s.queue # <<>>
    /\ s' = [s EXCEPT !.raw = "closing", !.queue = <<>>]
    /\ UNCHANGED <<net, wire, peer>>

Lost ==
    /\ s.started
    /\ s.raw = "closing"
    /\ s.queue = <<>>
    /\ s' = connection_lost(s)
    /\ net' = <<>>
    /\ UNCHANGED <<wire, peer>>

(* The application uses the transport from a callback of its own.          *)
Use(c) ==
    /\ HasTransport(s)
    /\ s' = App(s, c)
    /\ UNCHANGED <<net, wire, peer>>

ShutdownTimeout ==
    /\ s.timer
    /\ s' = _force_close(s)
    /\ UNCHANGED <<net, wire, peer>>

-----------------------------------------------------------------------------
(* The coroutine that opens the connection.                                *)

(* Mutated form: a failure is raised and the transport stays open. *)
OpenFails_leaking(e) == [e EXCEPT !.waiter = "done", !.opener = "failed"]

(* except BaseException: transport.close(); raise                          *)
OpenFails(e) == RawClose([e EXCEPT !.waiter = "done", !.opener = "failed"])

OpenerWakes ==
    /\ s.opener = "waiting"
    /\ s.waiter # "pending"
    /\ s' = IF s.waiter = "done" THEN [s EXCEPT !.opener = "ok"]
            ELSE OpenFails(s)
    /\ UNCHANGED <<net, wire, peer>>

OpenerCancelled ==
    /\ s.opener = "waiting"
    /\ s.started \/ s.kind = "start_tls"
    /\ s' = OpenFails(s)
    /\ UNCHANGED <<net, wire, peer>>

(* wait_for, or on_timeout of _create_ssl_connection.                      *)
OpenerTimesOut ==
    /\ s.opener = "waiting"
    /\ s.wait = "timeout"
    /\ s.started \/ s.kind = "start_tls"
    /\ s.waiter = "pending"
    /\ s' = IF s.kind = "client" THEN RawClose(Finish(s, "failed"))
            ELSE OpenFails(s)
    /\ UNCHANGED <<net, wire, peer>>

-----------------------------------------------------------------------------
(* The peer.                                                               *)

Send(record, p) ==
    /\ peer.ended # "fin"
    /\ s.raw # "lost"
    /\ net' = Append(net, record)
    /\ peer' = p
    /\ UNCHANGED <<s, wire>>

PeerReady == peer.flights = FlightsNeeded(s) /\ peer.ended = "no"

PeerFlight ==
    /\ peer.ended = "no"
    /\ peer.flights < FlightsNeeded(s)
    /\ Count(Flight, wire) >= peer.flights + (IF s.side = "client" THEN 1 ELSE 0)
    /\ Send(Flight, [peer EXCEPT !.flights = @ + 1])

PeerData ==
    /\ PeerReady
    /\ peer.data < MaxData
    /\ Send(peer.data + 1, [peer EXCEPT !.data = @ + 1])

PeerRenegotiates ==
    /\ PeerReady
    /\ ~peer.asked
    /\ s.hs
    /\ Send(Reneg, [peer EXCEPT !.asked = TRUE])

PeerAnswers ==
    /\ peer.asked /\ ~peer.answered
    /\ Reneg \in Range(wire)
    /\ Send(Flight, [peer EXCEPT !.answered = TRUE])

PeerCloses ==
    /\ PeerReady
    /\ Send(CloseNotify, [peer EXCEPT !.ended = "cn"])

PeerBreaks ==
    /\ peer.ended = "no"
    /\ Send(Bad, [peer EXCEPT !.ended = "cn"])

PeerEnds == Send(Fin, [peer EXCEPT !.ended = "fin"])

-----------------------------------------------------------------------------
Next ==
    \/ \E c \in Calls : Connect(c)
    \/ \E c \in Calls : Deliver(c)
    \/ \E c \in Calls, keep \in BOOLEAN : DeliverEof(c, keep)
    \/ \E c \in Calls : Drain(c)
    \/ Reset
    \/ Lost
    \/ \E c \in Calls \ {"return"} : Use(c)
    \/ ShutdownTimeout
    \/ OpenerWakes
    \/ OpenerCancelled
    \/ OpenerTimesOut
    \/ PeerFlight
    \/ PeerData
    \/ PeerRenegotiates
    \/ PeerAnswers
    \/ PeerCloses
    \/ PeerBreaks
    \/ PeerEnds

(* The loop calls connection_made and wakes the opener, and timers fire.   *)
(* Nothing is asked of the kernel, the peer or the application.            *)
Fairness ==
    /\ WF_vars(\E c \in Calls : Connect(c))
    /\ WF_vars(OpenerWakes)
    /\ WF_vars(OpenerTimesOut)
    /\ WF_vars(ShutdownTimeout)

Spec == Init /\ [][Next]_vars /\ Fairness

-----------------------------------------------------------------------------
(* write and _flush_write_buffer (BUG-375): as long as the raw transport   *)
(* is open and the SSL object sound, every byte that was written before    *)
(* close_notify is in one place: _write_buffer, outgoing, the raw          *)
(* transport's queue, or with the peer.  Nothing is dropped and nothing    *)
(* sent twice, whatever SSLObject.write accepts and whatever the           *)
(* application does in resume_writing.                                     *)
NothingDropped ==
    s.raw = "open" /\ ~s.broken =>
        \A b \in s.kept :
            Count(b, FlattenSeq(s.buf) \o s.outgoing \o s.queue \o wire) = 1

(* _start_shutdown: close_notify is the last record of the stream, and it  *)
(* leaves no plaintext behind: not when close is called while writing is   *)
(* paused, nor when the peer's close_notify starts the shutdown.           *)
CloseNotifyIsLast ==
    LET stream == wire \o s.queue \o s.outgoing IN
    \A i \in DOMAIN stream :
        stream[i] = CloseNotify =>
            /\ i = Len(stream)
            /\ s.kept \subseteq Range(stream) \/ s.broken

(* resume_writing (BUG-375): plaintext that was buffered because the raw   *)
(* transport was full has the raw transport's resume_writing to wait for;  *)
(* it never sits in _write_buffer with writing enabled.                    *)
BufferedWaitsForResume ==
    s.buf # <<>> /\ s.raw = "open" /\ ~s.stalled /\ ~s.shut /\ ~s.broken =>
        s.paused /\ s.full /\ Len(s.queue) > Low

(* buffer_updated, _h and _r: what the peer sent reaches the application   *)
(* in order and once; while the transport is open the rest is in incoming  *)
(* or under way, however the reads are cut and whatever record follows.    *)
ReceivedInOrder ==
    /\ s.given = [i \in 1 .. Len(s.given) |-> i]
    /\ s.raw = "open" =>
        s.given \o Data(s.incoming) \o Data(net) = [i \in 1 .. peer.data |-> i]

(* start_tls and the coroutines that connect: with a handshake timeout the *)
(* caller gets an answer, whatever the peer does, and a handshake that     *)
(* failed, timed out or was cancelled never leaves the transport open      *)
(* (BUG-375).                                                              *)
OpenEnds ==
    /\ s.wait = "timeout" => <>(s.opener \in {"ok", "failed"})
    /\ (s.broken /\ ~s.hs) ~> (s.raw # "open")
    /\ (s.opener = "failed") ~> (s.raw # "open")

(* _start_shutdown: once the plaintext is written, close ends the          *)
(* connection even if the peer never answers close_notify.  (The class of  *)
(* the Unix server does not come back to _start_shutdown, and an SSL       *)
(* object that failed can leave plaintext that is never flushed.)          *)
ShutdownEnds ==
    (s.closing /\ s.buf = <<>> /\ ~s.broken /\ s.kind # "unix_server")
        ~> (s.raw # "open")

(* write: "Set the flag so the read side knows to re-arm".  When the       *)
(* record comes that SSLObject.write was waiting for, the plaintext that   *)
(* it did not accept is written.                                           *)
ReadSideRearms ==
    [][s.needs /\ ~s'.needs /\ s'.raw = "open" => s'.buf = <<>>]_vars
=============================================================================
