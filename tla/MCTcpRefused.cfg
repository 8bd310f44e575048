CONSTANTS
    Ctx = {c1}
    Esp = {e1}
    NoCtx = NoCtx
    NoEsp = NoEsp
    EventQueueLen = 1
    MaxData = 3
    Faults = {"send_full"}
SPECIFICATION FairSpec
PROPERTY RefusedIsRetried
CHECK_DEADLOCK FALSE
