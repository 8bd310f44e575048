CONSTANTS
    JoinFails = TRUE
    Relays = {r1, r2}
    MaxOpen = 2
SPECIFICATION NetSpec
INVARIANTS StoppedServerRestarts DiscoverySound RelayExact
PROPERTIES CommissioningSticks SetupOffersAp ServesOnceJoined
CONSTRAINT RelayFollowed
