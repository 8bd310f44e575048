CONSTANTS
    Ctx = {c1, c2}
    Esp = {e1, e2}
    NoCtx = NoCtx
    NoEsp = NoEsp
    EventQueueLen = 1
    MaxData = 2
    Faults = {"late_stack", "early_close", "stale_event", "full_queue", "no_memory",
              "send_full", "send_error"}
SPECIFICATION Spec
INVARIANTS TypeOK SentOnceInOrder
SYMMETRY Symmetry
CHECK_DEADLOCK FALSE
