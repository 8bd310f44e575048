CONSTANTS
    Ctx = {c1}
    Esp = {e1, e2}
    NoCtx = NoCtx
    NoEsp = NoEsp
    EventQueueLen = 1
    MaxData = 2
    MaxAccepted = 1
    Faults = {"late_stack", "send_full"}
SPECIFICATION PortSpec
PROPERTIES IpcEventsHandled EventsProcessed CloseCompletes
CHECK_DEADLOCK FALSE
