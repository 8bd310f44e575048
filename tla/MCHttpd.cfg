CONSTANTS
    p1 = p1
    p2 = p2
    Peers <- MCPeers
    NoPeer = NoPeer
    MaxConn = 2
    MaxBacklog = 2
    PostLen = 2
    Table <- MCTable
    Requests <- MCRequests
    Files = {"file", "full"}
    FullFiles = {"full"}
    Blocks = 2
    MaxRequests <- MCMaxRequests
    MaxFrames <- MCMaxFrames
SPECIFICATION FairSpec
INVARIANTS StreamKept OneAnswerEach PoolExact
PROPERTY RequestsServed
CHECK_DEADLOCK FALSE
