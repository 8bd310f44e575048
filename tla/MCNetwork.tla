----------------------------- MODULE MCNetwork -----------------------------
EXTENDS Network

\* The relay is followed until one of the two things happens that RelayExact names, and, as the
\* restarts are all it shares with the setup, while the device is online and no peer is connected.
RelayFollowed ==
    /\ ~crossed /\ ~outlived
    /\ DOMAIN sdk # {} => peer = "NONE" /\ link = "GOT_IP"
=============================================================================
