--------------------------- MODULE NetworkProofs ---------------------------
(***************************************************************************)
(* Proofs about Network: the WiFi setup with local discovery, and the      *)
(* connection to a relay.                                                  *)
(***************************************************************************)
EXTENDS Network, FiniteSetTheorems, TLAPS

(* The access point is still to come in this boot. *)
ApPending == scan # "NONE" \/ "start_ap" \in timers

(* Enabling discovery allocates two espconns.  The access point does it    *)
(* once, when its timer, which only the end of a scan arms, expires; the   *)
(* check of the address does it once, and remembers.                       *)
Enabled == (IF ApPending THEN 0 ELSE 2) + (IF serverStarted THEN 2 ELSE 0)

DInv ==
    /\ heap \subseteq Nat \ {0} /\ IsFiniteSet(heap)
    /\ serverStarted \in BOOLEAN
    /\ scan \in {"NONE", "WANTED", "RUNNING"}
    /\ scan # "NONE" => "start_ap" \notin timers
    /\ udp \subseteq heap
    /\ advertising \in BOOLEAN /\ (advertising => client \in udp)
    /\ Cardinality(heap) <= Enabled

-----------------------------------------------------------------------------
(* The server, once started, is only stopped with a restart on its way.    *)
LEMMA ServerStep == StoppedServerRestarts /\ [Next]_vars => StoppedServerRestarts'
PROOF
<1> SUFFICES ASSUME StoppedServerRestarts, [Next]_vars
             PROVE  StoppedServerRestarts'
  OBVIOUS
<1> USE DEF StoppedServerRestarts
<1>1. CASE UNCHANGED vars
  BY <1>1 DEF vars
<1>2. CASE user_setup_wifi
  BY <1>2 DEF user_setup_wifi
<1>3. CASE Callback(user_wifi_start_ap)
  BY <1>3 DEF Callback, user_wifi_start_ap
<1>4. CASE Callback(user_check_ip)
  BY <1>4 DEF Callback, user_check_ip, CheckIp, StartServer
<1>5. CASE wifi_invoke \/ StoreCredentials
  BY <1>5 DEF wifi_invoke, StoreCredentials, Station
<1>6. CASE Callback(ap_scan_done_cb)
  BY <1>6 DEF Callback, ap_scan_done_cb, user_wifi_setup_commissioning
<1>7. CASE \/ system_init_ready_cb \/ PeerConnects \/ PeerGoes \/ AnswerLeaves
           \/ user_stop_wld_bcasts \/ LinkChanges
  BY <1>7 DEF system_init_ready_cb, PeerConnects, PeerGoes, AnswerLeaves,
              user_stop_wld_bcasts, LinkChanges
<1>8. CASE Callback(system_restore)
  BY <1>8 DEF Callback, system_restore
<1> QED
  BY <1>1, <1>2, <1>3, <1>4, <1>5, <1>6, <1>7, <1>8
  DEF Next, RunStep, Restart, Callback, reboot_timer_cb, RestoreRestarts, PowerCycle

(* Every step of the composition is one of the device or leaves it alone.  *)
LEMMA NetStep == [NetNext]_netVars => [Next]_vars
PROOF
  BY DEF NetNext, netVars, Next

(* A device that has started its server is never left without one: where   *)
(* it is stopped, a restart is on its way.                                 *)
THEOREM ServerComesBack == NetSpec => []StoppedServerRestarts
PROOF
<1>1. NetInit => StoppedServerRestarts
  BY DEF NetInit, Init, StoppedServerRestarts
<1> QED  BY <1>1, ServerStep, NetStep, PTL DEF NetSpec

-----------------------------------------------------------------------------
(* There is always a block of memory that is not allocated.                *)
LEMMA FreshBlock ==
    ASSUME NEW H, IsFiniteSet(H), NEW n \in Nat, Cardinality(H) < n
    PROVE  \E e \in 1 .. n : e \notin H
PROOF
<1> SUFFICES ASSUME 1 .. n \subseteq H PROVE FALSE
  OBVIOUS
<1>1. IsFiniteSet(1 .. n) /\ Cardinality(1 .. n) = n
  <2>1. Cardinality(1 .. n) = IF 1 > n THEN 0 ELSE n - 1 + 1
    BY FS_Interval
  <2> QED  BY <2>1, FS_Interval
<1>2. Cardinality(1 .. n) <= Cardinality(H)
  BY FS_Subset
<1>3. Cardinality(H) \in Nat
  BY FS_CardinalityType
<1> QED  BY <1>1, <1>2, <1>3

LEMMA MallocFresh ==
    ASSUME heap \subseteq Nat \ {0}, IsFiniteSet(heap)
    PROVE  /\ malloc \in Nat \ {0} /\ malloc \notin heap
           /\ nextMalloc \in Nat \ {0} /\ nextMalloc \notin heap \cup {malloc}
           /\ IsFiniteSet(heap \cup {malloc, nextMalloc})
           /\ Cardinality(heap \cup {malloc, nextMalloc}) = Cardinality(heap) + 2
PROOF
<1>1. Cardinality(heap) \in Nat
  BY FS_CardinalityType
<1>2. malloc \in 1 .. Cardinality(heap) + 1 /\ malloc \notin heap
  <2>1. \E e \in 1 .. Cardinality(heap) + 1 : e \notin heap
    BY <1>1, FreshBlock
  <2> QED  BY <2>1 DEF malloc
<1>3. /\ IsFiniteSet(heap \cup {malloc})
      /\ Cardinality(heap \cup {malloc}) = Cardinality(heap) + 1
  BY <1>2, FS_AddElement
<1>4. nextMalloc \in 1 .. Cardinality(heap) + 2 /\ nextMalloc \notin heap \cup {malloc}
  <2>1. \E e \in 1 .. Cardinality(heap) + 2 : e \notin heap \cup {malloc}
    BY <1>1, <1>3, FreshBlock
  <2> QED  BY <2>1 DEF nextMalloc
<1>5. heap \cup {malloc, nextMalloc} = (heap \cup {malloc}) \cup {nextMalloc}
  OBVIOUS
<1>6. /\ IsFiniteSet(heap \cup {malloc, nextMalloc})
      /\ Cardinality(heap \cup {malloc, nextMalloc}) = Cardinality(heap) + 1 + 1
  BY <1>3, <1>4, <1>5, FS_AddElement
<1> QED  BY <1>1, <1>2, <1>4, <1>6

(* Enabling allocates two espconns, and the timer has one the SDK knows.   *)
LEMMA EnablingIsSound ==
    ASSUME DInv, EnableDiscovery
    PROVE  /\ heap' \subseteq Nat \ {0} /\ IsFiniteSet(heap')
           /\ Cardinality(heap') = Cardinality(heap) + 2
           /\ udp' \subseteq heap' /\ advertising' = TRUE /\ client' \in udp'
PROOF
<1>1. heap' = heap \cup {malloc, nextMalloc} /\ client' = malloc /\ advertising' = TRUE
  BY DEF EnableDiscovery, wish_ldiscover_enable_bcast
<1>2. udp' = udp \cup {malloc, nextMalloc} \/ udp' = udp \cup {malloc}
  BY DEF EnableDiscovery, wish_ldiscover_enable_recv
<1>3. udp \subseteq heap /\ heap \subseteq Nat \ {0} /\ IsFiniteSet(heap)
  BY DEF DInv
<1> QED  BY <1>1, <1>2, <1>3, MallocFresh

LEMMA DiscoveryStep == DInv /\ [Next]_vars => DInv'
PROOF
<1> SUFFICES ASSUME DInv, [Next]_vars PROVE DInv'
  OBVIOUS
<1> DEFINE Kept == /\ heap' = heap /\ udp' = udp
                   /\ client' = client /\ advertising' = advertising
<1>a. Cardinality(heap) \in Nat
  BY FS_CardinalityType DEF DInv
<1>1. CASE Kept /\ UNCHANGED <<scan, timers, serverStarted>>
  BY <1>1 DEF DInv, Enabled, ApPending
<1>2. CASE user_setup_wifi
  <2>1. /\ heap' = {} /\ udp' = {} /\ advertising' = FALSE /\ serverStarted' = FALSE
        /\ scan' \in {"NONE", "WANTED"} /\ "start_ap" \notin timers'
    BY <1>2 DEF user_setup_wifi, DiscoveryReset, BootScan, BootTimers
  <2>2. IsFiniteSet({}) /\ Cardinality({}) = 0
    BY FS_EmptySet
  <2>3. Cardinality(heap') = 0 /\ IsFiniteSet(heap')
    BY <2>1, <2>2
  <2>4. Enabled' \in {0, 2}
    BY <2>1 DEF Enabled
  <2>5. Cardinality(heap') <= Enabled'
    BY <2>3, <2>4
  <2>6. heap' \subseteq Nat \ {0} /\ udp' \subseteq heap'
    BY <2>1
  <2> QED  BY <2>1, <2>3, <2>5, <2>6 DEF DInv
<1>3. CASE system_init_ready_cb
  BY <1>3 DEF system_init_ready_cb, discoveryVars, DInv, Enabled, ApPending
<1>4. CASE ap_scan_done_cb
  <2>1. /\ scan = "RUNNING" /\ scan' = "NONE" /\ UNCHANGED serverStarted /\ Kept
    BY <1>4 DEF ap_scan_done_cb, discoveryVars
  <2>2. Cardinality(heap) <= (IF serverStarted THEN 2 ELSE 0)
    BY <2>1 DEF DInv, Enabled, ApPending
  <2>3. Cardinality(heap) <= Enabled'
    BY <1>a, <2>1, <2>2 DEF Enabled, DInv
  <2> QED  BY <2>1, <2>3 DEF DInv
<1>5. CASE user_wifi_start_ap
  <2>1. /\ "start_ap" \in timers /\ "start_ap" \notin timers'
        /\ UNCHANGED <<scan, serverStarted>> /\ EnableDiscovery
    BY <1>5 DEF user_wifi_start_ap
  <2>2. scan = "NONE"
    BY <2>1 DEF DInv
  <2>3. Enabled' = Enabled + 2
    BY <2>1, <2>2 DEF Enabled, ApPending, DInv
  <2>4. Enabled \in {0, 2, 4}
    BY DEF Enabled, DInv
  <2>5. Cardinality(heap') <= Enabled'
    <3>1. Cardinality(heap') = Cardinality(heap) + 2
      BY <2>1, EnablingIsSound
    <3>2. Cardinality(heap) <= Enabled
      BY DEF DInv
    <3> QED  BY <1>a, <2>3, <2>4, <3>1, <3>2
  <2> QED  BY <2>1, <2>2, <2>5, EnablingIsSound DEF DInv
<1>6. CASE user_check_ip
  <2>1. /\ timers' = timers \/ timers' = timers \ {"dhcp"}
        /\ scan' = scan
        /\ serverStarted' = (serverStarted \/ link = "GOT_IP")
        /\ StartServer
    BY <1>6 DEF user_check_ip, CheckIp
  <2>2. ApPending' <=> ApPending
    BY <2>1 DEF ApPending
  <2>3. CASE link = "GOT_IP" /\ ~serverStarted
    <3>1. EnableDiscovery /\ serverStarted' = TRUE
      BY <2>1, <2>3 DEF StartServer
    <3>2. Enabled' = Enabled + 2 /\ Enabled \in {0, 2}
      BY <2>2, <2>3, <3>1 DEF Enabled
    <3>3. Cardinality(heap') <= Enabled'
      <4>1. Cardinality(heap') = Cardinality(heap) + 2
        BY <3>1, EnablingIsSound
      <4>2. Cardinality(heap) <= Enabled
        BY DEF DInv
      <4> QED  BY <1>a, <3>2, <4>1, <4>2
    <3>4. scan' # "NONE" => "start_ap" \notin timers'
      BY <2>1 DEF DInv
    <3> QED  BY <2>1, <3>1, <3>3, <3>4, EnablingIsSound DEF DInv
  <2>4. CASE ~(link = "GOT_IP" /\ ~serverStarted)
    <3>1. Kept /\ serverStarted' = serverStarted
      BY <2>1, <2>4 DEF StartServer, discoveryVars, DInv
    <3>2. Enabled' = Enabled
      BY <2>2, <3>1 DEF Enabled
    <3> QED  BY <2>1, <3>1, <3>2 DEF DInv
  <2> QED  BY <2>3, <2>4
<1>7. CASE wifi_invoke \/ StoreCredentials \/ AnswerLeaves \/ system_restore
  <2>1. /\ Kept /\ UNCHANGED <<scan, serverStarted>>
        /\ "start_ap" \in timers' <=> "start_ap" \in timers
    BY <1>7 DEF wifi_invoke, StoreCredentials, AnswerLeaves, Station, system_restore, discoveryVars
  <2>2. Enabled' = Enabled
    BY <2>1 DEF Enabled, ApPending
  <2> QED  BY <2>1, <2>2 DEF DInv
<1>8. CASE user_stop_wld_bcasts
  <2>1. /\ heap' = heap \ {client} /\ udp' = udp \ {client} /\ advertising' = FALSE
        /\ UNCHANGED <<scan, timers, serverStarted>>
    BY <1>8 DEF user_stop_wld_bcasts, wish_ldiscover_disable_bcast
  <2>2. IsFiniteSet(heap') /\ Cardinality(heap') <= Cardinality(heap)
    BY <2>1, FS_Subset DEF DInv
  <2>3. Enabled' = Enabled /\ Enabled \in {0, 2, 4}
    BY <2>1 DEF Enabled, ApPending
  <2>4. Cardinality(heap') \in Nat
    BY <2>2, FS_CardinalityType
  <2>5. Cardinality(heap') <= Enabled'
    BY <1>a, <2>2, <2>3, <2>4 DEF DInv
  <2>6. heap' \subseteq Nat \ {0} /\ udp' \subseteq heap'
    BY <2>1 DEF DInv
  <2> QED  BY <2>1, <2>2, <2>5, <2>6 DEF DInv
<1>9. CASE PeerConnects \/ PeerGoes \/ LinkChanges \/ UNCHANGED vars
  BY <1>1, <1>9 DEF PeerConnects, PeerGoes, LinkChanges, vars, discoveryVars
<1> QED
  BY <1>2, <1>3, <1>4, <1>5, <1>6, <1>7, <1>8, <1>9
  DEF Next, RunStep, Restart, Callback, reboot_timer_cb, RestoreRestarts, PowerCycle

(* The broadcast timer never uses an espconn that was freed, the SDK keeps *)
(* none, and a boot allocates at most four.                                *)
THEOREM DiscoveryIsSound == NetSpec => []DiscoverySound
PROOF
<1>1. NetInit => DInv
  <2> SUFFICES ASSUME NetInit PROVE DInv
    OBVIOUS
  <2>1. /\ heap = {} /\ udp = {} /\ advertising = FALSE /\ serverStarted = FALSE
        /\ scan = "WANTED" /\ timers = {}
    BY DEF NetInit, Init, DiscoveryOff, BootScan, BootTimers
  <2>2. IsFiniteSet({}) /\ Cardinality({}) = 0
    BY FS_EmptySet
  <2>3. Cardinality(heap) <= Enabled
    BY <2>1, <2>2 DEF Enabled, ApPending
  <2>4. heap \subseteq Nat \ {0} /\ IsFiniteSet(heap) /\ udp \subseteq heap
    BY <2>1, <2>2
  <2> QED  BY <2>1, <2>3, <2>4 DEF DInv
<1>2. DInv => DiscoverySound
  <2> SUFFICES ASSUME DInv PROVE DiscoverySound
    OBVIOUS
  <2>1. Enabled <= 4 /\ Enabled \in Nat
    BY DEF Enabled
  <2>2. Cardinality(heap) \in Nat
    BY FS_CardinalityType DEF DInv
  <2> QED  BY <2>1, <2>2 DEF DInv, DiscoverySound
<1> QED  BY <1>1, <1>2, DiscoveryStep, NetStep, PTL DEF NetSpec

-----------------------------------------------------------------------------
(* Until a send or a close has met another relay's espconn, or the SDK has *)
(* kept one whose close it refused: what is allocated is what was opened   *)
(* and has not ended, one espconn for each relay the core has a connection *)
(* to, and none for another.                                               *)
Astray == crossed \/ outlived

SdkState == {"CONNECTING", "REFUSED", "UP", "CLOSING"}

Owned ==
    /\ ~misused
    /\ allocated = DOMAIN sdk
    /\ \A e \in DOMAIN sdk : sdk[e] \in [state : SdkState, relay : Relays]
    /\ \A e, f \in DOMAIN sdk : sdk[e].relay = sdk[f].relay => e = f
    /\ DOMAIN curr_state = Relays
    /\ \A e \in DOMAIN sdk : curr_state[sdk[e].relay] # "INITIAL"
    /\ \A r \in Relays : curr_state[r] # "INITIAL" => \E e \in DOMAIN sdk : sdk[e].relay = r

RInv == ~Astray => Owned

(* An espconn that ends takes its relay back to the initial state.         *)
LEMMA EndingKeeps ==
    ASSUME Owned, NEW e \in DOMAIN sdk,
           curr_state' = [curr_state EXCEPT ![sdk[e].relay] = "INITIAL"],
           sdk' = R!Forgotten(e), R!Free(e)
    PROVE  Owned'
PROOF
<1> DEFINE r == sdk[e].relay
<1>1. /\ DOMAIN sdk' = DOMAIN sdk \ {e}
      /\ \A f \in DOMAIN sdk' : sdk'[f] = sdk[f]
  BY DEF R!Forgotten, R!Restrict
<1>2. ~misused' /\ allocated' = DOMAIN sdk'
  BY <1>1 DEF R!Free, Owned
<1>3. r \in Relays /\ DOMAIN curr_state' = Relays
  BY DEF Owned
<1>4. \A q \in Relays : curr_state'[q] = IF q = r THEN "INITIAL" ELSE curr_state[q]
  BY <1>3 DEF Owned
<1>5. \A f \in DOMAIN sdk' : sdk[f].relay # r
  BY <1>1 DEF Owned
<1> HIDE DEF r
<1>6. \A f \in DOMAIN sdk' : /\ sdk'[f] \in [state : SdkState, relay : Relays]
                             /\ curr_state'[sdk'[f].relay] # "INITIAL"
  BY <1>1, <1>4, <1>5 DEF Owned
<1>7. \A f, g \in DOMAIN sdk' : sdk'[f].relay = sdk'[g].relay => f = g
  BY <1>1 DEF Owned
<1>8. ASSUME NEW q \in Relays, curr_state'[q] # "INITIAL"
      PROVE  \E f \in DOMAIN sdk' : sdk'[f].relay = q
  <2>1. q # r /\ curr_state[q] # "INITIAL"
    BY <1>4, <1>8
  <2>2. PICK f \in DOMAIN sdk : sdk[f].relay = q
    BY <2>1 DEF Owned
  <2>3. f # e
    BY <2>1, <2>2 DEF r
  <2> QED  BY <1>1, <2>2, <2>3
<1> QED  BY <1>2, <1>3, <1>6, <1>7, <1>8 DEF Owned

(* What is done to the state of an espconn does not concern who has it.    *)
SameOwners ==
    /\ DOMAIN sdk' = DOMAIN sdk
    /\ \A f \in DOMAIN sdk : /\ sdk'[f].relay = sdk[f].relay
                             /\ sdk'[f] \in [state : SdkState, relay : Relays]

SameConnections ==
    /\ DOMAIN curr_state' = Relays
    /\ \A r \in Relays : curr_state'[r] # "INITIAL" <=> curr_state[r] # "INITIAL"

LEMMA UseKeeps ==
    ASSUME Owned, SameOwners, SameConnections, UNCHANGED allocated,
           NEW e \in DOMAIN sdk, R!Use(e)
    PROVE  Owned'
PROOF
<1>1. ~misused'
  BY DEF R!Use, Owned
<1> QED  BY <1>1 DEF Owned, SameOwners, SameConnections

LEMMA StateHasNoOwner ==
    ASSUME Owned, NEW e \in DOMAIN sdk, NEW s \in SdkState, sdk' = [sdk EXCEPT ![e].state = s]
    PROVE  SameOwners
PROOF
<1>1. sdk[e] \in [state : SdkState, relay : Relays]
  BY DEF Owned
<1>2. sdk'[e] = [sdk[e] EXCEPT !.state = s] /\ DOMAIN sdk' = DOMAIN sdk
  OBVIOUS
<1>3. sdk'[e].relay = sdk[e].relay /\ sdk'[e] \in [state : SdkState, relay : Relays]
  BY <1>1, <1>2
<1>4. \A f \in DOMAIN sdk : f # e => sdk'[f] = sdk[f]
  OBVIOUS
<1> QED  BY <1>2, <1>3, <1>4 DEF Owned, SameOwners

LEMMA RelayStep == RInv /\ R!Next => RInv'
PROOF
<1> SUFFICES ASSUME RInv, R!Next, ~Astray' PROVE Owned'
  BY DEF RInv
<1>1. CASE \E r \in Relays : R!wish_relay_client_open(r)
  <2>1. PICK r \in Relays : R!wish_relay_client_open(r)
    BY <1>1
  <2>2. Owned
    BY <2>1 DEF R!wish_relay_client_open, RInv, Astray
  <2>3. PICK e \in 1 .. R!Cardinality(allocated \cup DOMAIN sdk) + 1,
             taken \in {"CONNECTING", "REFUSED"} :
            /\ e \notin allocated \cup DOMAIN sdk
            /\ allocated' = allocated \cup {e}
            /\ sdk' = [f \in DOMAIN sdk \cup {e} |->
                          IF f = e THEN [state |-> taken, relay |-> r] ELSE sdk[f]]
    BY <2>1 DEF R!wish_relay_client_open
  <2>4. /\ curr_state[r] = "INITIAL" /\ UNCHANGED misused
        /\ curr_state' = [curr_state EXCEPT ![r] = "CONNECTING"]
    BY <2>1 DEF R!wish_relay_client_open
  <2>5. /\ DOMAIN sdk' = DOMAIN sdk \cup {e}
        /\ sdk'[e].relay = r /\ sdk'[e] \in [state : SdkState, relay : Relays]
        /\ \A f \in DOMAIN sdk : sdk'[f] = sdk[f]
    <3>1. DOMAIN sdk' = DOMAIN sdk \cup {e} /\ sdk'[e] = [state |-> taken, relay |-> r]
      BY <2>3
    <3>2. taken \in SdkState
      BY <2>3 DEF SdkState
    <3>3. \A f \in DOMAIN sdk : sdk'[f] = sdk[f]
      BY <2>3
    <3> QED  BY <3>1, <3>2, <3>3
  <2>6. /\ DOMAIN curr_state' = Relays /\ curr_state'[r] = "CONNECTING"
        /\ \A q \in Relays \ {r} : curr_state'[q] = curr_state[q]
    BY <2>2, <2>4 DEF Owned
  <2>7. \A f \in DOMAIN sdk : sdk[f].relay # r
    BY <2>2, <2>4 DEF Owned
  <2>8. \A f, g \in DOMAIN sdk' : sdk'[f].relay = sdk'[g].relay => f = g
    BY <2>2, <2>5, <2>7 DEF Owned
  <2>9. \A f \in DOMAIN sdk' : /\ sdk'[f] \in [state : SdkState, relay : Relays]
                              /\ curr_state'[sdk'[f].relay] # "INITIAL"
    BY <2>2, <2>5, <2>6, <2>7 DEF Owned
  <2>10. \A q \in Relays : curr_state'[q] # "INITIAL" => \E f \in DOMAIN sdk' : sdk'[f].relay = q
    BY <2>2, <2>5, <2>6 DEF Owned
  <2>11. ~misused' /\ allocated' = DOMAIN sdk'
    BY <2>2, <2>3, <2>4, <2>5 DEF Owned
  <2> QED  BY <2>6, <2>8, <2>9, <2>10, <2>11 DEF Owned
<1>2. CASE R!user_relay_tcp_connect_cb
  <2>1. PICK e \in DOMAIN sdk :
            /\ sdk' = [sdk EXCEPT ![e].state = "UP"]
            /\ curr_state' = [curr_state EXCEPT ![sdk[e].relay] = "OPEN"]
            /\ R!Use(e)
            /\ UNCHANGED <<allocated, crossed, outlived>>
    BY <1>2 DEF R!user_relay_tcp_connect_cb, R!Known
  <2>2. Owned
    BY <2>1 DEF RInv, Astray
  <2>3. SameOwners
    <3>1. "UP" \in SdkState /\ sdk' = [sdk EXCEPT ![e].state = "UP"]
      BY <2>1 DEF SdkState
    <3> QED  BY <2>2, <3>1, StateHasNoOwner
  <2>4. SameConnections
    BY <2>1, <2>2 DEF Owned, SameConnections
  <2> QED  BY <2>1, <2>2, <2>3, <2>4, UseKeeps
<1>3. CASE R!user_relay_tcp_recv_cb
  <2>1. PICK e \in DOMAIN sdk : R!Use(e) /\ UNCHANGED <<curr_state, allocated, sdk, crossed, outlived>>
    BY <1>3 DEF R!user_relay_tcp_recv_cb, R!Known
  <2>2. Owned
    BY <2>1 DEF RInv, Astray
  <2>3. SameOwners /\ SameConnections
    BY <2>1, <2>2 DEF Owned, SameOwners, SameConnections
  <2> QED  BY <2>1, <2>2, <2>3, UseKeeps
<1>4. CASE R!user_relay_tcp_recon_cb \/ R!user_relay_tcp_discon_cb
  <2>1. PICK e \in DOMAIN sdk : R!Ended(e)
    BY <1>4 DEF R!user_relay_tcp_recon_cb, R!user_relay_tcp_discon_cb, R!Known
  <2>2. Owned
    BY <2>1 DEF R!Ended, RInv, Astray
  <2>3. /\ curr_state' = [curr_state EXCEPT ![sdk[e].relay] = "INITIAL"]
        /\ sdk' = R!Forgotten(e) /\ R!Free(e)
    BY <2>1 DEF R!Ended, R!FreeEspconn
  <2> QED  BY <2>2, <2>3, EndingKeeps
<1>5. CASE \E r \in Relays : R!user_relay_tcp_send(r)
  <2>1. PICK r \in Relays : R!user_relay_tcp_send(r)
    BY <1>5
  <2>2. Owned /\ espconn \in DOMAIN sdk
    BY <2>1 DEF R!user_relay_tcp_send, R!UsedFor, R!Concerns, RInv, Astray
  <2>3. R!Use(espconn) /\ UNCHANGED <<curr_state, allocated, sdk>>
    BY <2>1 DEF R!user_relay_tcp_send
  <2>4. SameOwners /\ SameConnections
    BY <2>2, <2>3 DEF Owned, SameOwners, SameConnections
  <2> QED  BY <2>2, <2>3, <2>4, UseKeeps
<1>6. CASE \E r \in Relays : R!wish_relay_client_close(r)
  <2>1. PICK r \in Relays : R!wish_relay_client_close(r)
    BY <1>6
  <2>2. R!UsedFor(r) /\ ~crossed'
    BY <2>1 DEF R!wish_relay_client_close, Astray
  <2>3. ~crossed /\ espconn \in DOMAIN sdk /\ sdk[espconn].relay = r
    BY <2>2 DEF R!UsedFor, R!Concerns
  <2>4. CASE /\ sdk' = [sdk EXCEPT ![espconn].state = "CLOSING"]
             /\ R!Use(espconn)
             /\ UNCHANGED <<curr_state, allocated, outlived>>
    <3>1. Owned
      BY <2>3, <2>4 DEF RInv, Astray
    <3>2. SameOwners
      <4>1. "CLOSING" \in SdkState /\ sdk' = [sdk EXCEPT ![espconn].state = "CLOSING"]
        BY <2>4 DEF SdkState
      <4> QED  BY <2>3, <3>1, <4>1, StateHasNoOwner
    <3>3. SameConnections
      BY <2>4, <3>1 DEF Owned, SameConnections
    <3> QED  BY <2>3, <2>4, <3>1, <3>2, <3>3, UseKeeps
  <2>5. CASE /\ curr_state' = [curr_state EXCEPT ![r] = "INITIAL"]
             /\ sdk' = R!Forgotten(espconn) /\ UNCHANGED outlived
             /\ R!Free(espconn)
    <3>1. Owned
      BY <2>3, <2>5 DEF RInv, Astray
    <3> QED  BY <2>3, <2>5, <3>1, EndingKeeps
  <2>6. CASE outlived' = TRUE
    BY <2>6 DEF Astray
  <2> QED  BY <2>1, <2>4, <2>5, <2>6 DEF R!wish_relay_client_close
<1> QED  BY <1>1, <1>2, <1>3, <1>4, <1>5, <1>6 DEF R!Next

(* For any set of relays: only a send or a close that meets the espconn of *)
(* another relay, or an espconn that outlives the close that freed it, can *)
(* leak an espconn, free it twice, use it after that, or leave the core    *)
(* with a connection that is not there or without one that is.             *)
THEOREM RelayIsExact == NetSpec => []RelayExact
PROOF
<1>1. ASSUME ~misused, allocated = {}, sdk = << >>, curr_state = [s \in Relays |-> "INITIAL"]
      PROVE  Owned
  <2>1. DOMAIN << >> = {}
    OBVIOUS
  <2> QED  BY <1>1, <2>1 DEF Owned
<1>2. NetInit => RInv
  BY <1>1 DEF NetInit, R!Init, RInv
<1>3. RInv /\ [NetNext]_netVars => RInv'
  <2> SUFFICES ASSUME RInv, [NetNext]_netVars PROVE RInv'
    OBVIOUS
  <2>1. CASE R!Next
    BY <2>1, RelayStep
  <2>2. CASE UNCHANGED relayVars
    BY <2>2 DEF RInv, Astray, Owned, relayVars
  <2>3. CASE R!Boot
    <3>1. /\ ~misused' /\ allocated' = {} /\ sdk' = << >>
          /\ curr_state' = [s \in Relays |-> "INITIAL"]
      BY <2>3 DEF R!Boot
    <3>2. DOMAIN << >> = {}
      OBVIOUS
    <3> QED  BY <3>1, <3>2 DEF RInv, Owned
  <2> QED  BY <2>1, <2>2, <2>3 DEF NetNext, Callback, netVars
<1>4. RInv => RelayExact
  BY DEF RInv, Astray, Owned, RelayExact, R!RelayExact
<1> QED  BY <1>2, <1>3, <1>4, PTL DEF NetSpec
=============================================================================
