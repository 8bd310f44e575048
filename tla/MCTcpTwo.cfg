CONSTANTS
    Ctx = {c1, c2}
    Esp = {e1, e2}
    NoCtx = NoCtx
    NoEsp = NoEsp
    EventQueueLen = 2
    MaxData = 3
    Faults = {"send_full", "send_error"}
SPECIFICATION Spec
INVARIANTS EntriesAlive HeldIsPending StreamIntact
SYMMETRY Symmetry
CHECK_DEADLOCK FALSE
