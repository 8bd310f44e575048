------------------------------ MODULE Network ------------------------------
(***************************************************************************)
(* The device on the network: the WiFi setup with local discovery, and the *)
(* connection to a relay, which the restarts of the setup cut off.         *)
(***************************************************************************)
EXTENDS WifiSetup

CONSTANTS Relays, MaxOpen          \* see Relay

ASSUME MaxOpenAssumption == MaxOpen \in Nat

VARIABLES curr_state, espconn, allocated, sdk, misused, crossed, outlived

R == INSTANCE Relay
RelayExact == R!RelayExact

relayVars == <<curr_state, espconn, allocated, sdk, misused, crossed, outlived>>
netVars == <<vars, relayVars>>

NetInit == Init /\ R!Init
NetNext ==
    \/ (RunStep \/ StoreCredentials) /\ UNCHANGED relayVars
    \/ Restart /\ R!Boot
    \/ Callback(R!Next) /\ UNCHANGED vars

NetSpec == NetInit /\ [][NetNext]_netVars /\ Fairness
=============================================================================
