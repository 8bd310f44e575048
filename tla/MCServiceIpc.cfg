CONSTANTS
    MaxAccepted = 4
    MaxSendLen = 2
SPECIFICATION FairSpec
INVARIANTS NoLostWakeup EventIsHead NothingLost
PROPERTIES ImplementsChannel EveryEventHandled
CHECK_DEADLOCK FALSE
