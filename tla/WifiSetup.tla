----------------------------- MODULE WifiSetup -----------------------------
(***************************************************************************)
(* port/esp8266/user_wifi.c, the DHCP check and the TCP server of          *)
(* user_tcp.c, and the commissioning endpoint of apps/mist-config: how the *)
(* device gets on the network.                                             *)
(*                                                                         *)
(* Without a saved station configuration the device scans, becomes an open *)
(* access point and serves Wish there, until a peer gives it credentials;  *)
(* it then saves them and restarts.  With a saved configuration the SDK    *)
(* joins the network, and a timer polls until the device has an address    *)
(* and the server can start.  Flash survives a restart, RAM does not.      *)
(*                                                                         *)
(* Outside src/: the SDK joins, loses and rejoins the network by itself;   *)
(* espconn_delete may refuse to stop a server that has a connection.       *)
(***************************************************************************)
EXTENDS Discovery

CONSTANT JoinFails       \* whether joining the network may fail for a while

ASSUME JoinFailsAssumption == JoinFails \in BOOLEAN

VARIABLES
    saved,          \* flash: there is a station configuration
    mode,           \* user_wifi_mode
    opmode,         \* the current mode of the radio
    scan,           \* the access point scan of a boot in setup mode
    link,           \* wifi_station_get_connect_status()
    timers,         \* the armed one-shot timers
    server,         \* the Wish TCP server listens
    serverStarted,  \* static server_started of user_check_ip
    gaveUp,         \* history: user_check_ip found in this boot that joining failed
    peer,           \* the connection of a peer that may commission
    invoke,         \* how far wifi_invoke and its answer are
    commissioned    \* history: a peer was told that its credentials were accepted, and
                    \* they were not erased since

vars == <<saved, mode, opmode, scan, link, timers, server, serverStarted,
          gaveUp, peer, invoke, commissioned, discoveryVars>>

(* user_setup_wifi: station mode if there is a saved configuration. *)
BootMode == IF saved THEN "STATION" ELSE "SETUP"
BootScan == IF saved THEN "NONE" ELSE "WANTED"
BootTimers == IF saved THEN {"dhcp"} ELSE {}

Init ==
    /\ saved = FALSE /\ commissioned = FALSE
    /\ mode = BootMode /\ scan = BootScan /\ timers = BootTimers
    /\ opmode = "STATION" /\ link = "IDLE" /\ peer = "NONE"
    /\ server = FALSE /\ serverStarted = FALSE /\ gaveUp = FALSE /\ invoke = "NONE" /\ DiscoveryOff

user_setup_wifi ==
    /\ UNCHANGED <<saved, commissioned>>
    /\ mode' = BootMode /\ scan' = BootScan /\ timers' = BootTimers
    /\ opmode' = "STATION" /\ link' = "IDLE" /\ peer' = "NONE"
    /\ server' = FALSE /\ serverStarted' = FALSE /\ gaveUp' = FALSE /\ invoke' = "NONE" /\ DiscoveryReset

-----------------------------------------------------------------------------
(* The SDK has initialised: scan for networks.  When that is done, with *)
(* or without success, the access point will be started in one second.     *)
system_init_ready_cb ==
    /\ scan = "WANTED"
    /\ scan' = "RUNNING"
    /\ UNCHANGED <<saved, mode, opmode, link, timers, server, serverStarted,
                   gaveUp, peer, invoke, commissioned, discoveryVars>>

CommissionIfScanned ==                      \* mutant: not after a failed scan
    timers' \in {timers, timers \cup {"start_ap"}}

user_wifi_setup_commissioning ==
    timers' = timers \cup {"start_ap"}

ap_scan_done_cb ==
    /\ scan = "RUNNING"
    /\ scan' = "NONE"
    /\ IF mode = "SETUP" THEN user_wifi_setup_commissioning ELSE UNCHANGED timers
    /\ UNCHANGED <<saved, mode, opmode, link, server, serverStarted,
                   gaveUp, peer, invoke, commissioned, discoveryVars>>

SetupRadio == "SOFTAP"

user_wifi_start_ap ==
    /\ "start_ap" \in timers
    /\ timers' = timers \ {"start_ap"}
    /\ opmode' = SetupRadio
    /\ server' = TRUE
    /\ EnableDiscovery
    /\ UNCHANGED <<saved, mode, scan, link, serverStarted, gaveUp, peer, invoke, commissioned>>

(* The timer that polls for an address: start the server the first time    *)
(* there is one, poll on while the SDK is still joining, give up when      *)
(* joining has failed.                                                     *)
StartServer ==
    IF link = "GOT_IP" /\ ~serverStarted
    THEN server' = TRUE /\ EnableDiscovery
    ELSE UNCHANGED <<server, discoveryVars>>

CheckIpOnce ==                              \* mutant: the timer is not re-armed
    /\ timers' = timers \ {"dhcp"}
    /\ StartServer
    /\ serverStarted' = (serverStarted \/ link = "GOT_IP")

CheckIpForgets ==                           \* mutant: not remembered that it started
    /\ timers' = IF link \in {"IDLE", "CONNECTING"} THEN timers ELSE timers \ {"dhcp"}
    /\ StartServer
    /\ UNCHANGED serverStarted

CheckIp ==
    /\ timers' = IF link \in {"IDLE", "CONNECTING"} THEN timers ELSE timers \ {"dhcp"}
    /\ StartServer
    /\ serverStarted' = (serverStarted \/ link = "GOT_IP")

user_check_ip ==
    /\ "dhcp" \in timers
    /\ CheckIp
    /\ gaveUp' = (gaveUp \/ link = "FAILED")
    /\ UNCHANGED <<saved, mode, opmode, scan, link, peer, invoke, commissioned>>

-----------------------------------------------------------------------------
(* A peer reaches the server over the access point or over the network;    *)
(* its connection goes down when it wants, or after the commissioning.     *)
PeerConnects ==
    /\ peer = "NONE" /\ server
    /\ opmode = "SOFTAP" \/ link = "GOT_IP"
    /\ peer' = "UP"
    /\ UNCHANGED <<saved, mode, opmode, scan, link, timers, server,
                   serverStarted, gaveUp, invoke, commissioned, discoveryVars>>

PeerGoes ==
    /\ peer = "UP"
    /\ peer' = "NONE"
    /\ UNCHANGED <<saved, mode, opmode, scan, link, timers, server,
                   serverStarted, gaveUp, invoke, commissioned, discoveryVars>>

(* user_wifi_set_station_mode and user_set_station_config *)
StationInRam ==                             \* mutant: configuration not saved
    /\ mode' = "STATION" /\ opmode' = "STATION"
    /\ timers' = timers \cup {"dhcp", "reboot"}
    /\ UNCHANGED saved

StationWithoutReboot ==                     \* mutant: reboot timer not armed
    /\ mode' = "STATION" /\ opmode' = "STATION"
    /\ timers' = timers \cup {"dhcp"}
    /\ saved' = TRUE

Station ==
    /\ mode' = "STATION" /\ opmode' = "STATION"
    /\ timers' = timers \cup {"dhcp", "reboot"}
    /\ saved' = TRUE

(* wifi_invoke of endpoint mistWifiCommissioning, also when it is invoked  *)
(* again before the connections it closes are down: it queues its answer   *)
(* and stops the server, and then stores the credentials.  Nothing runs    *)
(* between the two, but power may fail there.  Discovery goes on.          *)
wifi_invoke ==
    /\ peer = "UP"
    /\ server' \in {FALSE, server}
    /\ invoke' = "RUNNING"
    /\ UNCHANGED <<saved, mode, opmode, scan, link, timers, serverStarted, gaveUp,
                   peer, commissioned, discoveryVars>>

StoreCredentials ==
    /\ invoke = "RUNNING"
    /\ Station
    /\ link' \in {link, "IDLE"}
    /\ invoke' = "ANSWERED"
    /\ UNCHANGED <<scan, server, serverStarted, gaveUp, peer, commissioned, discoveryVars>>

(* The IPC task hands the answer to the core, which sends it. *)
AnswerLeaves ==
    /\ invoke = "ANSWERED"
    /\ invoke' = "NONE" /\ commissioned' = TRUE
    /\ UNCHANGED <<saved, mode, opmode, scan, link, timers, server, serverStarted, gaveUp,
                   peer, discoveryVars>>

reboot_timer_cb == "reboot" \in timers /\ user_setup_wifi

(* A long press of the button: the app erases the configuration and        *)
(* restarts the device about two seconds later.                            *)
system_restore ==
    /\ saved' = FALSE /\ commissioned' = FALSE /\ invoke' = "NONE"
    /\ timers' = timers \cup {"restore"}
    /\ UNCHANGED <<mode, opmode, scan, link, server, serverStarted, gaveUp,
                   peer, discoveryVars>>

RestoreRestarts == "restore" \in timers /\ user_setup_wifi

PowerCycle == user_setup_wifi

(* The station of the SDK, when there is a network to join. *)
LinkChanges ==
    /\ mode = "STATION" /\ saved
    /\ \/ link \in {"IDLE", "GOT_IP", "FAILED"} /\ link' = "CONNECTING"
       \/ link = "CONNECTING" /\ link' = "GOT_IP"
       \/ link = "CONNECTING" /\ JoinFails /\ link' = "FAILED"
    /\ UNCHANGED <<saved, mode, opmode, scan, timers, server, serverStarted,
                   gaveUp, peer, invoke, commissioned, discoveryVars>>

(* An app stops advertising: user_stop_wld_bcasts.                         *)
user_stop_wld_bcasts ==
    /\ wish_ldiscover_disable_bcast
    /\ UNCHANGED <<saved, mode, opmode, scan, link, timers, server, serverStarted,
                   gaveUp, peer, invoke, commissioned>>

Callback(cb) == invoke # "RUNNING" /\ cb

RunStep == Callback(
    \/ system_init_ready_cb \/ ap_scan_done_cb
    \/ user_wifi_start_ap \/ user_check_ip
    \/ PeerConnects \/ PeerGoes \/ wifi_invoke \/ AnswerLeaves
    \/ system_restore \/ user_stop_wld_bcasts \/ LinkChanges)
Restart == Callback(reboot_timer_cb \/ RestoreRestarts) \/ PowerCycle

Next == RunStep \/ StoreCredentials \/ Restart

Spec == Init /\ [][Next]_vars

(* The SDK calls back when it has initialised and scanned; timers expire.  *)
Fairness ==
    /\ WF_vars(Callback(system_init_ready_cb)) /\ WF_vars(Callback(ap_scan_done_cb))
    /\ WF_vars(Callback(user_wifi_start_ap)) /\ WF_vars(Callback(user_check_ip))
    /\ WF_vars(Callback(reboot_timer_cb)) /\ WF_vars(Callback(RestoreRestarts))
    /\ WF_vars(StoreCredentials)

FairSpec == Spec /\ Fairness

-----------------------------------------------------------------------------
(* user_check_ip starts the server once and remembers it; the server is    *)
(* stopped afterwards only by a commissioning whose restart clears that    *)
(* memory, so the device is never left without a server (user_tcp.c:670,   *)
(* mist_config.c:221, 233-235).                                            *)
StoppedServerRestarts ==
    serverStarted /\ ~server => "reboot" \in timers \/ invoke = "RUNNING"

(* A peer that was told so can rely on it: the answer leaves only after the *)
(* credentials are stored, so that whenever power fails the device comes up *)
(* in station mode, until they are erased, unless somebody keeps invoking,  *)
(* which arms the restart anew (mist_config.c:212-235, where the answer is  *)
(* queued before they are stored; user_wifi.c:62, 130-141).                 *)
CommissioningSticks ==
    \/ []<><<wifi_invoke>>_vars
    \/ commissioned ~> \/ ~commissioned
                       \/ mode = "STATION" /\ opmode = "STATION" /\ "reboot" \notin timers

(* A device without credentials comes up as an access point that serves    *)
(* Wish and listens to discovery, even if the scan fails, unless somebody  *)
(* keeps restarting it                                                     *)
(* (user_wifi.c:143-155, 238-278, 186-211).                                *)
SetupOffersAp ==
    \/ []<><<PowerCycle \/ system_restore>>_vars
    \/ mode = "SETUP" ~> \/ opmode = "SOFTAP" /\ server /\ listener # NULL
                        \/ mode = "STATION"

(* A device that keeps its address serves Wish there, unless the one poll   *)
(* that gives up found that joining had failed, or somebody keeps invoking  *)
(* (user_tcp.c:667-698, mist_config.c:221-235).                             *)
ServesOnceJoined ==
    \/ []<><<wifi_invoke>>_vars
    \/ <>[](link = "GOT_IP") => <>[](server \/ gaveUp)
=============================================================================
