SPECIFICATION Spec
CONSTANTS
    c1 = c1
    c2 = c2
    Callers <- OneCaller
    Main = main
    NoProc = noproc
    RawNames <- TwoKeysRaw
    Keys <- TwoKeys
    TrimSpace <- TwoKeysTrim
    Bodies <- AllBodies
    InvalidBodies = {"bad"}
    RejectedBodies = {"busy"}
    UserPaths = {"/own.pem"}
    CertPaths = {"a.pem"}
    CertFile <- TwoKeysFile
    PEMs = {"p1", "p2"}
    Backend = "redis"
    Faults = {"save", "disk", "crash"}
    ConfigRequests <- TLSRequests
    InitialBlocks <- NewHost
    Ops = {"create", "update", "delete"}
INVARIANTS KeysOnlyInFiles CertificatesInPlace
PROPERTIES SuccessMeansApplied
