SPECIFICATION Spec
CONSTANTS
    c1 = c1
    c2 = c2
    Callers <- OneCaller
    Main = main
    NoProc = noproc
    RawNames <- OneKeyRaw
    Keys <- OneKey
    TrimSpace <- OneKeyTrim
    Bodies <- AllBodies
    InvalidBodies = {"bad"}
    RejectedBodies = {"busy"}
    UserPaths = {}
    CertPaths = {"a.pem"}
    CertFile <- OneKeyFile
    PEMs = {}
    Backend = "redis"
    Faults = {"torn"}
    ConfigRequests <- OneKeyRequests
    InitialBlocks <- NewHost
    Ops = {"create", "delete"}
PROPERTIES DeletedIsGone
