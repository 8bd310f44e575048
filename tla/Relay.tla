------------------------------- MODULE Relay -------------------------------
(***************************************************************************)
(* port/esp8266/user_relay.c: the control connections to relay servers.    *)
(* One static espconn stands for the connection, whatever relay a call is  *)
(* about; its memory is freed by the two callbacks that end a connection,  *)
(* and by a close the SDK refuses.                                         *)
(*                                                                         *)
(* Outside src/: the core opens a relay that has no connection and closes  *)
(* one that has; the SDK knows an espconn from espconn_connect until one   *)
(* of the two callbacks, unless it refused to connect.  It may refuse to   *)
(* disconnect what has not connected yet, and may then forget it or still  *)
(* call back for it.                                                       *)
(***************************************************************************)
EXTENDS Naturals, FiniteSets, Functions

CONSTANTS
    Relays,         \* the relays of the core
    MaxOpen         \* bound: how many espconns have not come to their end

VARIABLES
    curr_state,     \* of each relay, as the core has it
    espconn,        \* static espconn: a block of memory, 0 is NULL
    allocated,      \* the espconns that are allocated
    sdk,            \* the espconns that were opened: their state at the SDK and relay
    misused,        \* history: a freed espconn was used, or freed again
    crossed,        \* history: a send or close used an espconn that is not its relay's
    outlived        \* history: the SDK kept an espconn whose close it had refused

Boot ==
    /\ curr_state' = [r \in Relays |-> "INITIAL"] /\ espconn' = 0
    /\ allocated' = {} /\ sdk' = << >>
    /\ misused' = FALSE /\ crossed' = FALSE /\ outlived' = FALSE
Init ==
    /\ curr_state = [r \in Relays |-> "INITIAL"] /\ espconn = 0
    /\ allocated = {} /\ sdk = << >>
    /\ misused = FALSE /\ crossed = FALSE /\ outlived = FALSE

Known(states) == {e \in DOMAIN sdk : sdk[e].state \in states}
Forgotten(e) == Restrict(sdk, DOMAIN sdk \ {e})
Free(e) ==
    /\ allocated' = allocated \ {e}
    /\ misused' = (misused \/ e \notin allocated)
Use(e) == misused' = (misused \/ e \notin allocated)
Concerns(e, r) == e \in DOMAIN sdk /\ sdk[e].relay = r
UsedFor(r) == crossed' = (crossed \/ ~Concerns(espconn, r))

\* Whether espconn_connect takes the espconn is not asked.
wish_relay_client_open(r) ==
    /\ curr_state[r] = "INITIAL"
    /\ Cardinality(DOMAIN sdk) < MaxOpen
    /\ \E e \in 1 .. Cardinality(allocated \cup DOMAIN sdk) + 1, taken \in {"CONNECTING", "REFUSED"} :
          /\ e \notin allocated \cup DOMAIN sdk
          /\ espconn' = e /\ allocated' = allocated \cup {e}
          /\ sdk' = [f \in DOMAIN sdk \cup {e} |->
                        IF f = e THEN [state |-> taken, relay |-> r] ELSE sdk[f]]
    /\ curr_state' = [curr_state EXCEPT ![r] = "CONNECTING"]
    /\ UNCHANGED <<misused, crossed, outlived>>

\* The callbacks find the relay in the espconn they get, not in the static one.
user_relay_tcp_connect_cb ==
    \E e \in Known({"CONNECTING"}) :
        /\ sdk' = [sdk EXCEPT ![e].state = "UP"]
        /\ curr_state' = [curr_state EXCEPT ![sdk[e].relay] = "OPEN"]
        /\ Use(e)
        /\ UNCHANGED <<espconn, allocated, crossed, outlived>>

user_relay_tcp_recv_cb ==
    \E e \in Known({"UP", "CLOSING"}) :
        /\ Use(e)
        /\ UNCHANGED <<curr_state, espconn, allocated, sdk, crossed, outlived>>

KeepEspconn(e) == Use(e) /\ UNCHANGED allocated         \* mutant: the memory is not freed
FreeEspconn(e) == Free(e)

Ended(e) ==
    /\ curr_state' = [curr_state EXCEPT ![sdk[e].relay] = "INITIAL"]
    /\ sdk' = Forgotten(e)
    /\ FreeEspconn(e)
    /\ UNCHANGED <<espconn, crossed, outlived>>

user_relay_tcp_recon_cb  == \E e \in Known({"CONNECTING", "UP"}) : Ended(e)
user_relay_tcp_discon_cb == \E e \in Known({"UP", "CLOSING"}) : Ended(e)

\* user_relay_tcp_send: the sockfd is ignored.
user_relay_tcp_send(r) ==
    /\ curr_state[r] = "OPEN"
    /\ Use(espconn) /\ UsedFor(r)
    /\ UNCHANGED <<curr_state, espconn, allocated, sdk, outlived>>

\* So does wish_relay_client_close: it ends whatever connection was opened last.
wish_relay_client_close(r) ==
    /\ curr_state[r] # "INITIAL"
    /\ \/ /\ espconn \in Known({"CONNECTING", "UP", "CLOSING"})
          /\ sdk' = [sdk EXCEPT ![espconn].state = "CLOSING"]
          /\ Use(espconn)
          /\ UNCHANGED <<curr_state, allocated, outlived>>
       \/ /\ espconn \notin Known({"UP", "CLOSING"})
          /\ curr_state' = [curr_state EXCEPT ![r] = "INITIAL"]
          /\ \/ sdk' = Forgotten(espconn) /\ UNCHANGED outlived
             \/ espconn \in Known({"CONNECTING"}) /\ outlived' = TRUE /\ UNCHANGED sdk
          /\ Free(espconn)
    /\ UsedFor(r)
    /\ UNCHANGED espconn

Next ==
    \/ \E r \in Relays : \/ wish_relay_client_open(r) \/ wish_relay_client_close(r)
                         \/ user_relay_tcp_send(r)
    \/ user_relay_tcp_connect_cb \/ user_relay_tcp_recv_cb
    \/ user_relay_tcp_recon_cb \/ user_relay_tcp_discon_cb

-----------------------------------------------------------------------------
\* "This will be de-allocated in the client disconnect callback, or the reconnect callback"
\* (user_relay.c:115-117), or by a close that is refused.  With any number of relays each espconn
\* is freed once, none is leaked, none is used after it was freed, and the core has a connection
\* for exactly the relays it believes to have one, until one of two things happens: a send or a
\* close, which take the espconn opened last, meets that of another relay (62, 161), or the SDK
\* still calls back for an espconn that a refused close has freed (163-168).
RelayExact ==
    ~crossed /\ ~outlived =>
        /\ ~misused
        /\ allocated = DOMAIN sdk
        /\ \A r \in Relays : (curr_state[r] # "INITIAL") <=> \E e \in DOMAIN sdk : sdk[e].relay = r
=============================================================================
