SPECIFICATION Spec
CONSTANTS
    Pids = {"w1", "w2", "other"}
    Haproxy = {"w1", "w2"}
    Conns = {"v4", "v6"}
    Local <- LocalOf
    Remote <- RemoteOf
    States = {1, 12}
    Lingering = {6}
    MaxInode = 3
    ProcFaults = {"fd", "table"}
INVARIANTS TimeWaitNeedsNoFilter AddressesDecoded
PROPERTIES Complete OnlyOwn
