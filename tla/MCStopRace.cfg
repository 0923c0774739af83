SPECIFICATION Spec
CONSTANTS
    c1 = c1
    c2 = c2
    Callers <- TwoCallers
    Main = main
    NoProc = noproc
    RawNames <- OneKeyRaw
    Keys <- OneKey
    TrimSpace <- OneKeyTrim
    Bodies <- AllBodies
    InvalidBodies = {"bad"}
    RejectedBodies = {"busy"}
    UserPaths = {}
    CertPaths = {"a.pem"}
    CertFile <- OneKeyFile
    PEMs = {}
    Backend = "memory"
    Faults = {}
    ConfigRequests <- OneKeyRequests
    InitialBlocks <- OneKeyBlocks
    Ops = {"create", "update", "delete", "get", "list"}
SYMMETRY CallerSymmetry
INVARIANTS NoPanic
