CONSTANTS
    Ctx = {c1, c2}
    Esp = {e1, e2}
    NoCtx = NoCtx
    NoEsp = NoEsp
    EventQueueLen = 2
    MaxData = 2
    Faults = {}
SPECIFICATION Spec
INVARIANT SentCallbackHasData
SYMMETRY Symmetry
CHECK_DEADLOCK FALSE
