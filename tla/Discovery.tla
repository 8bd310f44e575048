----------------------------- MODULE Discovery -----------------------------
(***************************************************************************)
(* port/esp8266/user_udp.c: local discovery.  A timer broadcasts the       *)
(* advertisement of the device from one UDP espconn; another receives      *)
(* those of others on a fixed port.                                        *)
(*                                                                         *)
(* Enabling allocates an espconn whether there is one or not.  A block of  *)
(* memory is a number, NULL is 0; the esp_udp of an espconn goes with it.  *)
(* Memory does not run out.                                                *)
(*                                                                         *)
(* Outside src/: the SDK refuses a second espconn on the fixed port or     *)
(* accepts it, and ignores NULL.                                           *)
(***************************************************************************)
EXTENDS Naturals, FiniteSets

VARIABLES
    heap,           \* the espconns that are allocated
    udp,            \* the espconns the SDK knows
    client,         \* udp_client_espconn
    listener,       \* udp_server_espconn
    advertising     \* bcast_timer is armed

discoveryVars == <<heap, udp, client, listener, advertising>>

NULL == 0
malloc == CHOOSE e \in 1 .. Cardinality(heap) + 1 : e \notin heap
nextMalloc == CHOOSE e \in 1 .. Cardinality(heap) + 2 : e \notin heap \cup {malloc}

DiscoveryOff ==
    heap = {} /\ udp = {} /\ client = NULL /\ listener = NULL /\ advertising = FALSE
DiscoveryReset ==
    heap' = {} /\ udp' = {} /\ client' = NULL /\ listener' = NULL /\ advertising' = FALSE

wish_ldiscover_enable_bcast == client' = malloc /\ advertising' = TRUE

wish_ldiscover_enable_recv ==
    /\ listener' = nextMalloc
    /\ udp' \in {udp \cup {malloc, nextMalloc}} \cup
                (IF listener \in udp THEN {udp \cup {malloc}} ELSE {})

\* The two are called one after the other, and by nobody else.
EnableDiscovery ==
    /\ heap' = heap \cup {malloc, nextMalloc}
    /\ wish_ldiscover_enable_bcast
    /\ wish_ldiscover_enable_recv

wish_ldiscover_disable_bcast ==
    /\ heap' = heap \ {client} /\ udp' = udp \ {client}
    /\ client' = NULL /\ advertising' = FALSE
    /\ UNCHANGED listener

-----------------------------------------------------------------------------
\* The timer never broadcasts from an espconn that was freed or that the SDK does not know
\* (user_udp.c:112-113, 118, 134-142), nor does the SDK keep one that was freed.  Enabling twice
\* leaks an espconn: the access point and the first address enable discovery once each, so a
\* boot never allocates more than four (user_tcp.c:669-683, user_wifi.c:208-210).
DiscoverySound ==
    /\ advertising => client \in udp
    /\ udp \subseteq heap
    /\ Cardinality(heap) <= 4
=============================================================================
