--------------------------- MODULE NetworkSockets ---------------------------
(***************************************************************************)
(* NetworkSocketsService (internal/services/network_sockets.go): one call  *)
(* of GetNetworkSockets collects the sockets of the HAProxy processes from *)
(* /proc, file by file, while processes and sockets come and go.           *)
(*                                                                         *)
(* The kernel is external: a socket has an inode while a process holds it, *)
(* and a row of /proc/net/tcp or tcp6; a socket that lingers after its last *)
(* holder closed it (TIME_WAIT, FIN_WAIT1) has a row with inode 0.  Inodes *)
(* are numbered upwards and not reused.  Calls share nothing, so one call  *)
(* at a time is enough.                                                    *)
(***************************************************************************)
EXTENDS Integers, FiniteSets

CONSTANTS
    Pids,           \* processes of the host
    Haproxy,        \* those whose comm contains the process name "haproxy"
    Conns,          \* connections and listeners, each with its address pair
    Local, Remote,  \* the address of each end, as bytes in network order
    States,         \* states of a socket that a process holds
    Lingering,      \* states of a socket that no process holds any more
    MaxInode,       \* bound on the sockets opened in a behaviour
    ProcFaults      \* which reads of /proc can fail: "fd", "table"

Families == {"IPv4", "IPv6"}
Byte == 0 .. 255
IPv4 == [1 .. 4 -> Byte]
IPv6 == [1 .. 16 -> Byte]

ASSUME SocketAssumption ==
    /\ Haproxy \subseteq Pids
    /\ MaxInode \in Nat
    /\ States \subseteq (1 .. 12) \ {6}   \* a socket in TIME_WAIT has no holder
    /\ Lingering \subseteq 1 .. 12
    /\ ProcFaults \subseteq {"fd", "table"}

ASSUME AddressAssumption ==
    /\ Local \in [Conns -> IPv4 \cup IPv6] /\ Remote \in [Conns -> IPv4 \cup IPv6]
    /\ \A c \in Conns : DOMAIN Local[c] = DOMAIN Remote[c]

Family(c) == IF Local[c] \in IPv4 THEN "IPv4" ELSE "IPv6"

-----------------------------------------------------------------------------
(* Addresses.  A row shows each 32-bit word of an address as a hexadecimal *)
(* number of the (little-endian) host, so the pairs of digits of a word    *)
(* come in reverse.                                                        *)

AddressField(a) == [i \in DOMAIN a |-> a[8 * ((i - 1) \div 4) + 5 - i]]

\* IPv4: the four numbers that are printed with dots.
ParseIPv4(text) == [i \in 1 .. 4 |-> text[5 - i]]

\* IPv6: the eight 16-bit groups.  A chunk of eight digits is read as a
\* number, taken apart into bytes, and printed from the last byte on; leading
\* zeros do not change the value of a group.
ParseIPv6WithoutSwap(text) == [g \in 1 .. 8 |-> 256 * text[2 * g - 1] + text[2 * g]]
ParseIPv6(text) ==
    [g \in 1 .. 8 |->
        LET chunk == 4 * ((g - 1) \div 2)
            last == IF g % 2 = 1 THEN chunk + 4 ELSE chunk + 2
        IN  256 * text[last] + text[last - 1]]

ParseAddress(text, family) ==
    IF family = "IPv4" THEN ParseIPv4(text) ELSE ParseIPv6(text)

\* socketStateMap: numbers it does not list are UNSPECIFIED.
UNSPECIFIED == 0
ESTABLISHED == 1
TIME_WAIT == 6
LISTEN == 10
SocketState(st) == IF st \in 1 .. 11 THEN st ELSE UNSPECIFIED

-----------------------------------------------------------------------------
VARIABLES
    fds,          \* kernel: the inodes of the sockets each process holds
    alive,        \* kernel: the processes listed in /proc
    table,        \* kernel: the row of each connection
    nextInode,    \* kernel: the inodes below it were given out
    pc,           \* where the call is
    pids,         \* process directories still to be read
    links,        \* the process being read and its descriptors to be read
    inodes,       \* serviceInodes
    rows,         \* rows of the current table still to be read
    batch,        \* connections read from the current table
    connections,  \* connections read from the tables before
    reply,        \* the last answer
    steady,       \* ghost: sockets that HAProxy held since the call began
    owned,        \* ghost: inodes that HAProxy held at some time of the call
    missed        \* ghost: families whose table could not be read

kernelVars == <<fds, alive, table, nextInode>>
callVars == <<pc, pids, links, inodes, rows, batch, connections, reply>>
ghostVars == <<steady, owned, missed>>
vars == <<kernelVars, callVars, ghostVars>>

NoRow == [inode |-> 0, state |-> 0]
NoLinks == [pid |-> "none", left |-> {}]
NoReply == [groups |-> [s \in {} |-> {}], total |-> 0, established |-> 0,
            listen |-> 0, timeWait |-> 0, filtered |-> FALSE, code |-> ""]

-----------------------------------------------------------------------------
(* The kernel *)

\* The sockets that HAProxy processes hold now.
Holdings ==
    {[pid |-> p, conn |-> c, inode |-> table[c].inode] :
        p \in Haproxy \cap alive, c \in Conns}

HeldBy(h) == h.pid \in alive /\ h.inode # 0 /\ h.inode \in fds[h.pid]
                /\ table[h.conn].inode = h.inode

\* The ghosts follow the kernel while a call is under way.
Observe ==
    /\ steady' = {h \in steady : HeldBy(h)'}
    /\ owned' = IF pc = "idle" THEN {}
                               ELSE owned \cup UNION {fds'[p] : p \in Haproxy \cap alive'}
    /\ UNCHANGED <<callVars, missed>>

Open(p, c) ==
    /\ p \in alive /\ table[c] = NoRow /\ nextInode <= MaxInode
    /\ \E st \in States : table' = [table EXCEPT ![c] = [inode |-> nextInode, state |-> st]]
    /\ fds' = [fds EXCEPT ![p] = @ \cup {nextInode}]
    /\ nextInode' = nextInode + 1
    /\ UNCHANGED alive

\* What becomes of a table when processes hold only the inodes in held.
Abandon(held) ==
    \E st \in Lingering, gone \in SUBSET Conns :
       table' = [c \in Conns |->
                    IF table[c].inode \in held \cup {0} THEN table[c]
                    ELSE IF c \in gone THEN NoRow
                    ELSE [inode |-> 0, state |-> st]]

Close(p) ==
    /\ \E i \in fds[p] : fds' = [fds EXCEPT ![p] = @ \ {i}]
    /\ Abandon(UNION {fds'[q] : q \in Pids})
    /\ UNCHANGED <<alive, nextInode>>

\* A lingering socket expires.
Expire(c) ==
    /\ table[c] # NoRow /\ table[c].inode = 0
    /\ table' = [table EXCEPT ![c] = NoRow]
    /\ UNCHANGED <<fds, alive, nextInode>>

\* A reload of HAProxy forks a worker, which inherits what its parent holds.
Fork(p, q) ==
    /\ p \in alive /\ q \notin alive /\ (p \in Haproxy <=> q \in Haproxy)
    /\ alive' = alive \cup {q}
    /\ fds' = [fds EXCEPT ![q] = fds[p]]
    /\ UNCHANGED <<table, nextInode>>

ProcessExits(p) ==
    /\ p \in alive
    /\ alive' = alive \ {p}
    /\ fds' = [fds EXCEPT ![p] = {}]
    /\ Abandon(UNION {fds'[q] : q \in Pids})
    /\ UNCHANGED nextInode

Kernel ==
    /\ \/ \E p \in Pids, c \in Conns : Open(p, c)
       \/ \E p \in Pids : Close(p) \/ ProcessExits(p)
       \/ \E c \in Conns : Expire(c)
       \/ \E p, q \in Pids : Fork(p, q)
    /\ Observe

-----------------------------------------------------------------------------
(* GetNetworkSockets *)

\* A call whose context is done answers at once.
Cancelled ==
    /\ pc = "idle"
    /\ reply' = [NoReply EXCEPT !.code = "Canceled"]
    /\ UNCHANGED <<kernelVars, ghostVars, pc, pids, links, inodes, rows, batch, connections>>

Begin ==
    /\ pc = "idle"
    /\ pc' = "pids"
    /\ reply' = NoReply
    /\ steady' = {h \in Holdings : HeldBy(h)}
    /\ owned' = UNION {fds[p] : p \in Haproxy \cap alive}
    /\ missed' = {}
    /\ UNCHANGED <<kernelVars, pids, links, inodes, rows, batch, connections>>

\* findAllProcessPIDs.  A process that ends before its comm is read is found
\* gone when its descriptors are read.
FindPids(found) ==
    /\ pc = "pids"
    /\ pids' = found
    /\ pc' = "fds"
    /\ UNCHANGED <<kernelVars, ghostVars, links, inodes, rows, batch, connections, reply>>

FindsEveryProcess == FindPids(alive)
FindAllProcessPIDs == FindPids(alive \cap Haproxy)

\* getProcessInodes reads the directory of one process ...
ReadDir(p) ==
    /\ pc = "fds" /\ links = NoLinks
    /\ p \in pids /\ p \in alive
    /\ pids' = pids \ {p}
    /\ links' = [pid |-> p, left |-> fds[p]]
    /\ UNCHANGED <<kernelVars, ghostVars, pc, inodes, rows, batch, connections, reply>>

\* ... skips one that is gone or that it may not read ...
ReadDirFails(p) ==
    /\ pc = "fds" /\ links = NoLinks
    /\ p \in pids /\ (p \notin alive \/ "fd" \in ProcFaults)
    /\ pids' = pids \ {p}
    /\ steady' = {h \in steady : h.pid # p}
    /\ UNCHANGED <<kernelVars, owned, missed, pc, links, inodes, rows, batch, connections, reply>>

\* ... and reads its links one by one; a descriptor closed meanwhile is skipped.
ReadLink(i) ==
    /\ pc = "fds" /\ i \in links.left
    /\ inodes' = IF i \in fds[links.pid] THEN inodes \cup {i} ELSE inodes
    /\ links' = [links EXCEPT !.left = @ \ {i}]
    /\ UNCHANGED <<kernelVars, ghostVars, pc, pids, rows, batch, connections, reply>>

LinksRead ==
    /\ pc = "fds" /\ links # NoLinks /\ links.left = {}
    /\ links' = NoLinks
    /\ UNCHANGED <<kernelVars, ghostVars, pc, pids, inodes, rows, batch, connections, reply>>

\* readSockets opens the table of a family.
OpenTable(family) ==
    /\ pc' = family
    /\ rows' = {c \in Conns : Family(c) = family}
    /\ batch' = {}

InodesRead ==
    /\ pc = "fds" /\ pids = {} /\ links = NoLinks
    /\ OpenTable("IPv4")
    /\ UNCHANGED <<kernelVars, ghostVars, pids, links, inodes, connections, reply>>

\* No inode at all (no process, nothing readable, no sockets) means no filter.
FiltersOnlyHeld(inode) == inodes # {} /\ inode # 0 /\ inode \notin inodes
FilteredOut(inode) == inodes # {} /\ inode \notin inodes

\* Each row is read once, at its own moment.
ReadRow(c) ==
    /\ pc \in Families /\ c \in rows
    /\ rows' = rows \ {c}
    /\ batch' = IF table[c] = NoRow \/ FilteredOut(table[c].inode)
                  THEN batch
                  ELSE batch \cup {[conn |-> c,
                                    local |-> ParseAddress(AddressField(Local[c]), pc),
                                    remote |-> ParseAddress(AddressField(Remote[c]), pc),
                                    state |-> SocketState(table[c].state),
                                    inode |-> table[c].inode]}
    /\ UNCHANGED <<kernelVars, ghostVars, pc, pids, links, inodes, connections, reply>>

\* The connections are grouped by their state and counted.
Response(cs) ==
    LET of(s) == {e \in cs : e.state = s} IN
    [groups |-> [s \in {e.state : e \in cs} |-> of(s)], total |-> Cardinality(cs),
     established |-> Cardinality(of(ESTABLISHED)), listen |-> Cardinality(of(LISTEN)),
     timeWait |-> Cardinality(of(TIME_WAIT)), filtered |-> inodes # {}, code |-> "OK"]

\* After the IPv4 table comes the IPv6 table, and then the answer.
EndTable(cs) ==
    IF pc = "IPv4"
      THEN /\ connections' = cs
           /\ OpenTable("IPv6")
           /\ UNCHANGED <<inodes, reply>>
      ELSE /\ reply' = Response(cs)
           /\ pc' = "idle" /\ inodes' = {} /\ rows' = {} /\ batch' = {} /\ connections' = {}

KeepsLastTable ==
    /\ pc \in Families /\ rows = {}
    /\ EndTable(batch)
    /\ UNCHANGED <<kernelVars, ghostVars, pids, links>>
TableRead ==
    /\ pc \in Families /\ rows = {}
    /\ EndTable(connections \cup batch)
    /\ UNCHANGED <<kernelVars, ghostVars, pids, links>>

\* A table that cannot be opened or read to its end is left out altogether.
TableFails ==
    /\ pc \in Families /\ "table" \in ProcFaults
    /\ EndTable(connections)
    /\ missed' = missed \cup {pc}
    /\ UNCHANGED <<kernelVars, steady, owned, pids, links>>

Call ==
    \/ Cancelled \/ Begin \/ FindAllProcessPIDs
    \/ \E p \in Pids : ReadDir(p) \/ ReadDirFails(p)
    \/ \E i \in 1 .. MaxInode : ReadLink(i)
    \/ LinksRead \/ InodesRead
    \/ \E c \in Conns : ReadRow(c)
    \/ TableRead \/ TableFails

-----------------------------------------------------------------------------
Init ==
    /\ fds = [p \in Pids |-> {}]
    /\ alive = Pids
    /\ table = [c \in Conns |-> NoRow]
    /\ nextInode = 1
    /\ pc = "idle" /\ pids = {} /\ links = NoLinks /\ inodes = {}
    /\ rows = {} /\ batch = {} /\ connections = {} /\ reply = NoReply
    /\ steady = {} /\ owned = {} /\ missed = {}

Next == Kernel \/ Call

Spec == Init /\ [][Next]_vars

-----------------------------------------------------------------------------
(* Correctness *)

\* The connections of an answer.
Answered == UNION {reply.groups[s] : s \in DOMAIN reply.groups}

\* An answer given by this step.
Answers == pc # "idle" /\ pc' = "idle"

\* Whatever opens, closes, forks and exits during a call: a socket that one
\* HAProxy process held from its beginning to its end, and whose files could
\* be read, is in the answer, once.
Complete ==
    [][Answers => \A h \in steady :
          Family(h.conn) \in missed' \/
          (\E e \in Answered' : e.conn = h.conn /\ e.inode = h.inode
              /\ \A d \in Answered' : d.conn = h.conn => d = e)]_vars

\* When HAProxy held a readable socket throughout the call, the answer shows
\* its sockets only: the sockets of the rest of the host are shown just when
\* no socket of HAProxy was found.
OnlyOwn ==
    [][Answers /\ steady # {} =>
          reply'.filtered /\ \A e \in Answered' : e.inode \in owned]_vars

\* Sockets in TIME_WAIT have lost their inode, so an answer about HAProxy
\* never counts one: time_wait_count is 0 unless the filter was off.
TimeWaitNeedsNoFilter == reply.filtered => reply.timeWait = 0

\* The 16-bit groups of an IPv6 address, or the bytes of an IPv4 address.
Notation(a) ==
    IF a \in IPv4 THEN a ELSE [g \in 1 .. 8 |-> 256 * a[2 * g - 1] + a[2 * g]]

\* The addresses of an answer are those of its connection, although the rows
\* show them word by word in the byte order of the host.
AddressesDecoded ==
    \A e \in Answered : e.local = Notation(Local[e.conn]) /\ e.remote = Notation(Remote[e.conn])
=============================================================================
