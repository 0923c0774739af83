SPECIFICATION Spec
CONSTANTS
    c1 = c1
    c2 = c2
    Callers <- TwoCallers
    Main = main
    NoProc = noproc
    RawNames <- TwoKeysRaw
    Keys <- TwoKeys
    TrimSpace <- TwoKeysTrim
    Bodies <- AllBodies
    InvalidBodies = {"bad"}
    RejectedBodies = {"busy"}
    UserPaths = {}
    CertPaths = {"a.pem"}
    CertFile <- TwoKeysFile
    PEMs = {}
    Backend = "redis"
    Faults = {"late", "truncated", "close", "haproxy", "crash", "reset"}
    ConfigRequests <- TwoKeyRequests
    InitialBlocks <- NewHost
    Ops = {"create", "delete"}
SYMMETRY CallerSymmetry
INVARIANTS TypeOK Explained NoPanic
PROPERTIES ImplementsCatalogue StoreEditedOnce
