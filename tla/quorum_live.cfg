SPECIFICATION FairSpec
CONSTANTS
    p1 = p1
    p2 = p2
    p3 = p3
    p4 = p4
    NoPeer = NoPeer
    Peers <- FourPeers
    InitServers <- FourPeers
    BufSize = 1
    RepFactor = 3
    MaxWrites = 1
    MaxCrashes = 1
    MaxExpiries = 0
    MaxStarts = 0
CHECK_DEADLOCK FALSE
PROPERTIES
    WriteReturns
    RedundancyRestored
