------------------------------- MODULE Server -------------------------------
(***************************************************************************)
(* A listening server: the Server of src/talyn/server.py around a native   *)
(* StreamServer (src/src/transports/streamserver/main.zig), which accepts  *)
(* from the moment it is created.  Connections attach when they are        *)
(* accepted and detach when they begin to close; wait_closed returns when  *)
(* the server is closed and the last one has left.                         *)
(***************************************************************************)
EXTENDS Integers, FiniteSets

CONSTANTS
    Conns,    \* connections that clients make
    Closers,  \* callers of wait_closed
    Starts    \* values of start_serving

ASSUME ServerAssumption == Starts \subseteq BOOLEAN /\ IsFiniteSet(Conns)

VARIABLES
    srv,   \* the Server and its StreamServer
    conn,  \* the connections
    waits  \* the calls of wait_closed

serverVars == <<srv, conn, waits>>

ServerInit ==
    /\ \E start \in Starts :
        srv = [servers |-> TRUE, serving |-> start, active |-> 0, clients |-> {},
               accepting |-> "armed", late |-> {}, deferred |-> ~start]
    /\ conn = [c \in Conns |-> "none"]
    /\ waits = [w \in Closers |-> "idle"]

is_serving(x) == x.serving /\ x.servers

_wakeup(ws) == [w \in Closers |-> IF ws[w] = "pending" THEN "done" ELSE ws[w]]

_attach(x, c) == [x EXCEPT !.active = @ + 1, !.clients = @ \cup {c}]

(* Mutated form: the last connection does not wake. *)
_detach_all_mute(cs) ==
    /\ srv' = [srv EXCEPT !.active = @ - Cardinality(cs), !.clients = @ \ cs]
    /\ conn' = [c \in Conns |-> IF c \in cs THEN "closed" ELSE conn[c]]
    /\ waits' = waits

(* _detach, for each connection of a set.                                  *)
_detach_all(cs) ==
    LET active == srv.active - Cardinality(cs) IN
    /\ srv' = [srv EXCEPT !.active = active, !.clients = @ \ cs]
    /\ conn' = [c \in Conns |-> IF c \in cs THEN "closed" ELSE conn[c]]
    /\ waits' = IF active <= 0 /\ (~srv.servers \/ ~is_serving(srv))
                THEN _wakeup(waits) ELSE waits

(* A connection begins to close: its application closes it, or its peer    *)
(* does, or it fails.                                                      *)
ConnectionCloses(c) ==
    /\ conn[c] = "open"
    /\ _detach_all({c})

(* close_clients and abort_clients                                         *)
close_clients ==
    /\ srv.clients # {}
    /\ _detach_all(srv.clients)

Closed(x) == [x EXCEPT !.servers = FALSE, !.serving = FALSE,
                       !.accepting = "off"]

(* Mutated form: waiters are woken whatever is connected. *)
close_waking(ws) == _wakeup(ws)

(* What close does to the waiters.                                         *)
close_wakes(ws) == IF srv.active <= 0 THEN _wakeup(ws) ELSE ws

close ==
    /\ srv.servers
    /\ srv' = Closed(srv)
    /\ waits' = close_wakes(waits)
    /\ UNCHANGED conn

start_serving ==
    /\ srv.servers
    /\ srv' = [srv EXCEPT !.serving = TRUE]
    /\ UNCHANGED <<conn, waits>>

(* accept_callback: the protocol factory is called, and may close the      *)
(* server, before the connection is attached.                              *)
accept_callback(c, closes) ==
    /\ srv.accepting = "armed"
    /\ conn[c] = "none"
    /\ closes => srv.servers
    /\ srv' = _attach(IF closes THEN [Closed(srv) EXCEPT !.late = @ \cup {c}]
                      ELSE srv, c)
    /\ waits' = IF closes THEN close_wakes(waits) ELSE waits
    /\ conn' = [conn EXCEPT ![c] = "open"]

(* Out of descriptors: the listener pauses, and a timer tries again.       *)
AcceptFails ==
    /\ srv.accepting = "armed"
    /\ srv' = [srv EXCEPT !.accepting = "retry"]
    /\ UNCHANGED <<conn, waits>>

accept_retry_callback ==
    /\ srv.accepting = "retry"
    /\ srv' = [srv EXCEPT !.accepting = "armed"]
    /\ UNCHANGED <<conn, waits>>

(* The waiters after w has called wait_closed.                             *)
wait_closed(ws, x, w) ==
    [ws EXCEPT ![w] = IF ~x.servers /\ x.active <= 0 THEN "done" ELSE "pending"]

WaitClosed(w) ==
    /\ waits[w] = "idle"
    /\ waits' = wait_closed(waits, srv, w)
    /\ UNCHANGED <<srv, conn>>

WaitCancelled(w) ==
    /\ waits[w] = "pending"
    /\ waits' = [waits EXCEPT ![w] = "cancelled"]
    /\ UNCHANGED <<srv, conn>>

-----------------------------------------------------------------------------
(* wait_closed (BUG-376): whoever it returned to has a server that is      *)
(* closed and that no connection uses, and the count is that of the        *)
(* connections which are attached.  (A protocol factory that closes the    *)
(* server makes one more connection, and a server that was created with    *)
(* start_serving=False may wake its waiters early.)                        *)
WaitClosedMeansQuiet ==
    /\ srv.active = Cardinality({c \in Conns : conn[c] = "open"})
    /\ (\E w \in Closers : waits[w] = "done") /\ ~srv.deferred =>
        /\ ~srv.servers
        /\ \A c \in Conns : conn[c] = "open" => c \in srv.late

=============================================================================
