SPECIFICATION CRSpec
CONSTANTS
    p1 = p1
    p2 = p2
    p3 = p3
    NoPeer = NoPeer
    Peers <- ThreePeers
    InitServers <- ThreePeers
    BufSize = 2
    RepFactor = 3
    MaxWrites = 3
    MaxCrashes = 0
    MaxExpiries = 0
    MaxStarts = 0
    Letters <- ThreePeers
    Addr <- ThreeAddr
    MaxGarbage = 4
    MaxClientCrashes = 1
SYMMETRY ThreeSymmetry
CHECK_DEADLOCK FALSE
INVARIANTS
    RecoversAcked
