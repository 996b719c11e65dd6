------------------------------ MODULE Endpoint ------------------------------
(***************************************************************************)
(* The websocketpp endpoint as the server uses it, and the one thread that *)
(* runs m_server.run() (called the io thread below).                       *)
(*                                                                         *)
(* A client is one connection incarnation: on_open draws a fresh UUID per  *)
(* connection, so the handle and the id name each other and one value of   *)
(* Clients stands for both.  A browser that reconnects is another client.  *)
(***************************************************************************)
EXTENDS Integers, FiniteSets

CONSTANTS
    Clients,    \* every connection that is made during a behaviour
    NoId,       \* the empty string where an id is expected
    Leavers     \* the clients whose connection may be lost

ASSUME EndpointAssumption == /\ NoId \notin Clients
                             /\ Leavers \subseteq Clients

Ids == Clients \cup {NoId}

VARIABLES
    session,    \* get_state() of each connection, and whether its object lives
    out,        \* the frames that the current step hands to server->send
    alive       \* FALSE once an exception has escaped a thread (std::terminate)

(***************************************************************************)
(* none: not connected yet.  open, closing, closed: session::state, where  *)
(* on_close is still due in closed.  detached: on_close has returned, the  *)
(* connection object is still referenced.  released: the object is freed,  *)
(* the weak handle expired and get_con_from_hdl throws bad_connection.     *)
(***************************************************************************)
SessionStates == {"none", "open", "closing", "closed", "detached", "released"}

FrameTypes == {"bind", "msg", "error", "break", "notify", "heartbeat"}

Payloads == {"targetId", "200", "209", "402", "403", "404", "406", "500", "unset",
             "strength", "custom", "forward", "pulse", "clear", "override", "done"}

Frames == [to : Clients, type : FrameTypes, clientId : Ids, targetId : Ids,
           message : Payloads]

Frame(to, type, clientId, targetId, message) ==
    [to |-> to, type |-> type, clientId |-> clientId, targetId |-> targetId,
     message |-> message]

\* send guarded by get_state() == open, or send whose invalid_state is caught:
\* in both cases a frame leaves exactly when the session is open.
Deliver(to, type, clientId, targetId, message) ==
    IF session[to] = "open" THEN {Frame(to, type, clientId, targetId, message)} ELSE {}

\* get_con_from_hdl throws for an expired handle.
HandleExpired(c) == session[c] = "released"

EndpointInit ==
    /\ session = [c \in Clients |-> "none"]
    /\ out = {}
    /\ alive = TRUE

\* A close frame arrives: the session leaves open before the socket is gone.
PeerCloses(c) ==
    /\ session[c] = "open"
    /\ session' = [session EXCEPT ![c] = "closing"]

\* The closing handshake ends, or the socket fails: on_close becomes due.
Drop(c) ==
    /\ session[c] \in {"open", "closing"}
    /\ session' = [session EXCEPT ![c] = "closed"]

\* The last handler that holds the connection object returns.
Release(c) ==
    /\ session[c] = "detached"
    /\ session' = [session EXCEPT ![c] = "released"]

\* An exception leaves the function a thread was started with.
Terminate ==
    /\ alive' = FALSE
    /\ out' = {}
=============================================================================
