SPECIFICATION CRSpec
CONSTANTS
    p1 = p1
    p2 = p2
    p3 = p3
    NoPeer = NoPeer
    Peers <- TwoPeers
    InitServers <- TwoPeers
    BufSize = 2
    RepFactor = 2
    MaxWrites = 3
    MaxCrashes = 0
    MaxExpiries = 0
    MaxStarts = 0
    Letters <- TwoPeers
    Addr <- TwoAddr
    MaxGarbage = 4
    MaxClientCrashes = 2
CHECK_DEADLOCK FALSE
PROPERTIES
    NoReplicaMeansNoData
