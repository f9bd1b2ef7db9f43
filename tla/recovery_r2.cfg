SPECIFICATION CRSpec
CONSTANTS
    p1 = p1
    p2 = p2
    p3 = p3
    NoPeer = NoPeer
    Peers <- ThreePeers
    InitServers <- ThreePeers
    BufSize = 2
    RepFactor = 2
    MaxWrites = 3
    MaxCrashes = 1
    MaxExpiries = 0
    MaxStarts = 0
    Letters <- ThreePeers
    Addr <- ThreeAddr
    MaxGarbage = 4
    MaxClientCrashes = 2
SYMMETRY ThreeSymmetry
CHECK_DEADLOCK FALSE
INVARIANTS
    CRTypeOK
    RecoversAcked
    AckedOnEveryPeer
    NodeReadBack
