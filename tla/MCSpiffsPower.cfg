CONSTANTS
    Blocks = 4
    Entries = 4
    DataLen = 2
    HdrIxLen = 2
    IxLen = 2
    PageLen = 3
    IxFlag = 100
    EraseWrap = 4
    Fds = {1, 2}
    CachePages = 2
    Names = {1, 2}
    Byte = {1, 2}
    Writes <- MCWrites
    OpenFlags <- MCOpenFlags
    Starts <- MCStarts
    Missing = Missing
    Damaged = Damaged
    Careless = FALSE
    MaxSize = 9
    MaxCalls = 2
VIEW Kept
SPECIFICATION PowerSpec
CONSTANT Supplies <- MCSupplies
INVARIANT MendedIntact
PROPERTIES CheckEnds CutSparesOthers DamageMended CheckIsIdle
CHECK_DEADLOCK FALSE
