SPECIFICATION Spec
CONSTANTS
    c1 = c1
    c2 = c2
    Callers <- OneCaller
    Main = main
    NoProc = noproc
    RawNames <- TwoKeysTrimmed
    Keys <- TwoKeys
    TrimSpace <- TwoKeysSame
    Bodies <- AllBodies
    InvalidBodies = {"bad"}
    RejectedBodies = {"busy"}
    UserPaths = {}
    CertPaths = {"a.pem"}
    CertFile <- TwoKeysFile
    PEMs = {}
    Backend = "redis"
    Faults = {"late", "torn", "haproxy", "crash", "reset"}
    ConfigRequests <- TwoNames
    InitialBlocks <- NewHost
    Ops = {"create", "delete"}
PROPERTIES SuccessHeals StoreEditedOnce
