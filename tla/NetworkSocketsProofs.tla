------------------------ MODULE NetworkSocketsProofs ------------------------
(***************************************************************************)
(* Proofs about NetworkSockets, for any processes, connections, addresses, *)
(* states and faults.  The four properties follow from one invariant:      *)
(* where a steady socket is while the call looks for it, and what an entry *)
(* that was read can say.                                                  *)
(***************************************************************************)
EXTENDS NetworkSockets, FiniteSetTheorems, TLAPS

-----------------------------------------------------------------------------
(* Addresses *)

\* Reversing the bytes of the one word of an IPv4 address gives it back.
LEMMA IPv4Decoded ==
    ASSUME NEW a \in IPv4
    PROVE  ParseIPv4(AddressField(a)) = a
<1>1. DOMAIN a = 1 .. 4
  BY DEF IPv4
<1>2. \A i \in 1 .. 4 : AddressField(a)[5 - i] = a[i]
  <2>1. \A j \in 1 .. 4 : AddressField(a)[j] = a[5 - j]
    BY <1>1 DEF AddressField
  <2> QED
    BY <2>1
<1> QED
  BY <1>1, <1>2 DEF ParseIPv4, IPv4

\* The bytes of a word are found again by the arithmetic on its chunk.
LEMMA IPv6Decoded ==
    ASSUME NEW a \in IPv6
    PROVE  ParseIPv6(AddressField(a)) = [g \in 1 .. 8 |-> 256 * a[2 * g - 1] + a[2 * g]]
<1> DEFINE text == AddressField(a)
<1>1. DOMAIN a = 1 .. 16
  BY DEF IPv6
<1>2. \A j \in 1 .. 16 : text[j] = a[8 * ((j - 1) \div 4) + 5 - j]
  BY <1>1 DEF AddressField
<1>3. /\ text[4] = a[1] /\ text[3] = a[2] /\ text[2] = a[3] /\ text[1] = a[4]
      /\ text[8] = a[5] /\ text[7] = a[6] /\ text[6] = a[7] /\ text[5] = a[8]
      /\ text[12] = a[9] /\ text[11] = a[10] /\ text[10] = a[11] /\ text[9] = a[12]
      /\ text[16] = a[13] /\ text[15] = a[14] /\ text[14] = a[15] /\ text[13] = a[16]
  BY <1>2
<1> HIDE DEF text
<1>4. ASSUME NEW g \in 1 .. 8
      PROVE  ParseIPv6(text)[g] = 256 * a[2 * g - 1] + a[2 * g]
  <2>1. g \in {1, 2, 3, 4, 5, 6, 7, 8}
    OBVIOUS
  <2> QED
    BY <1>3, <2>1 DEF ParseIPv6
<1> QED
  BY <1>4 DEF ParseIPv6, text

\* What readSockets makes of the row of a connection is its two addresses.
LEMMA RowDecoded ==
    ASSUME NEW c \in Conns
    PROVE  /\ ParseAddress(AddressField(Local[c]), Family(c)) = Notation(Local[c])
           /\ ParseAddress(AddressField(Remote[c]), Family(c)) = Notation(Remote[c])
<1>1. /\ Local[c] \in IPv4 \cup IPv6 /\ Remote[c] \in IPv4 \cup IPv6
      /\ DOMAIN Local[c] = DOMAIN Remote[c]
  BY AddressAssumption
<1>2. 1 .. 4 # 1 .. 16
  <2>1. 16 \notin 1 .. 4 /\ 16 \in 1 .. 16
    OBVIOUS
  <2> QED
    BY <2>1
<1>3. Local[c] \in IPv4 <=> Remote[c] \in IPv4
  BY <1>1, <1>2 DEF IPv4, IPv6
<1>4. CASE Local[c] \in IPv4
  BY <1>3, <1>4, IPv4Decoded DEF Family, ParseAddress, Notation
<1>5. CASE Local[c] \notin IPv4
  BY <1>1, <1>3, <1>5, IPv6Decoded DEF Family, ParseAddress, Notation
<1> QED
  BY <1>4, <1>5

-----------------------------------------------------------------------------
(* The inductive invariant *)

\* A socket has an inode just while a process holds it.
KernelInv ==
    /\ fds \in [Pids -> SUBSET (1 .. MaxInode)]
    /\ alive \subseteq Pids
    /\ \A p \in Pids \ alive : fds[p] = {}
    /\ table \in [Conns -> [inode : Nat, state : Nat]]
    /\ \A c \in Conns : table[c].state = TIME_WAIT => table[c].inode = 0
    /\ nextInode \in Nat \ {0}

\* What a call has at each of its places.
CallInv ==
    /\ pc \in {"idle", "pids", "fds", "IPv4", "IPv6"}
    /\ pids \subseteq Haproxy
    /\ links.left # {} => links.pid \in Haproxy
    /\ inodes \subseteq 1 .. MaxInode
    /\ pc \in {"idle", "pids"} => inodes = {}
    /\ rows \subseteq {c \in Conns : Family(c) = pc}
    /\ pc \notin Families => batch = {}
    /\ pc # "IPv6" => connections = {}

\* The inodes that were read are HAProxy's, and the steady ones among those
\* of the processes that were read.
InodeInv ==
    pc # "idle" =>
        /\ inodes \subseteq owned
        /\ \A p \in Haproxy \cap alive : fds[p] \subseteq owned
        /\ \A h \in steady :
              /\ h.pid \in Haproxy /\ h.conn \in Conns /\ HeldBy(h)
              /\ pc = "fds" => \/ h.pid \in pids
                               \/ h.pid = links.pid /\ h.inode \in links.left
                               \/ h.inode \in inodes
              /\ pc \in Families => h.inode \in inodes

\* An entry shows its connection, passed the filter, and has no inode if it
\* lingers.
Sound(e) ==
    /\ e.conn \in Conns
    /\ e.local = Notation(Local[e.conn]) /\ e.remote = Notation(Remote[e.conn])
    /\ inodes # {} => e.inode \in inodes
    /\ e.state = TIME_WAIT => e.inode = 0

EntryInv ==
    /\ \A e \in batch : Sound(e) /\ Family(e.conn) = pc /\ e.conn \notin rows
    /\ \A e \in connections : Sound(e) /\ Family(e.conn) = "IPv4"
    /\ \A d, e \in batch : d.conn = e.conn => d = e
    /\ \A d, e \in connections : d.conn = e.conn => d = e

\* A steady socket is still to be read, was read, or its table failed.
ReadInv ==
    pc \in Families => \A h \in steady :
        /\ Family(h.conn) = pc =>
              h.conn \in rows \/ \E e \in batch : e.conn = h.conn /\ e.inode = h.inode
        /\ pc = "IPv6" /\ Family(h.conn) = "IPv4" =>
              "IPv4" \in missed \/ \E e \in connections : e.conn = h.conn /\ e.inode = h.inode

ReplyInv == AddressesDecoded /\ TimeWaitNeedsNoFilter

Inv == KernelInv /\ CallInv /\ InodeInv /\ EntryInv /\ ReadInv /\ ReplyInv

-----------------------------------------------------------------------------
(* The kernel *)

\* When sockets are abandoned, what lingers has no inode.
LEMMA AbandonKeeps ==
    ASSUME KernelInv, NEW held, Abandon(held)
    PROVE  /\ table' \in [Conns -> [inode : Nat, state : Nat]]
           /\ \A c \in Conns : table'[c].state = TIME_WAIT => table'[c].inode = 0
<1>1. PICK st \in Lingering, gone \in SUBSET Conns :
         table' = [c \in Conns |->
                      IF table[c].inode \in held \cup {0} THEN table[c]
                      ELSE IF c \in gone THEN NoRow
                      ELSE [inode |-> 0, state |-> st]]
  BY DEF Abandon
<1>2. st \in Nat
  BY SocketAssumption
<1>3. NoRow = [inode |-> 0, state |-> 0] /\ TIME_WAIT = 6
  BY DEF NoRow, TIME_WAIT
<1> QED
  BY <1>1, <1>2, <1>3 DEF KernelInv

\* Whatever the kernel does keeps its own invariant.
LEMMA KernelKeeps ==
    ASSUME KernelInv, Kernel
    PROVE  KernelInv'
<1>1. ASSUME NEW p \in Pids, NEW c \in Conns, Open(p, c)
      PROVE  KernelInv'
  <2>1. PICK st \in States : table' = [table EXCEPT ![c] = [inode |-> nextInode, state |-> st]]
    BY <1>1 DEF Open
  <2>2. st \in Nat /\ st # 6 /\ MaxInode \in Nat
    BY SocketAssumption
  <2>3. nextInode \in 1 .. MaxInode
    BY <1>1, <2>2 DEF Open, KernelInv
  <2> QED
    BY <1>1, <2>1, <2>2, <2>3 DEF Open, KernelInv, TIME_WAIT
<1>2. ASSUME NEW p \in Pids, Close(p)
      PROVE  KernelInv'
  BY <1>2, AbandonKeeps DEF Close, KernelInv
<1>3. ASSUME NEW p \in Pids, ProcessExits(p)
      PROVE  KernelInv'
  BY <1>3, AbandonKeeps DEF ProcessExits, KernelInv
<1>4. ASSUME NEW c \in Conns, Expire(c)
      PROVE  KernelInv'
  BY <1>4 DEF Expire, KernelInv, NoRow, TIME_WAIT
<1>5. ASSUME NEW p \in Pids, NEW q \in Pids, Fork(p, q)
      PROVE  KernelInv'
  BY <1>5 DEF Fork, KernelInv
<1> QED
  BY <1>1, <1>2, <1>3, <1>4, <1>5 DEF Kernel

\* A call under way is not disturbed: what is still steady is still to be
\* found, and what HAProxy gets is remembered.
LEMMA KernelStep ==
    ASSUME Inv, Kernel
    PROVE  Inv'
<1> USE DEF Inv
<1>1. KernelInv'
  BY KernelKeeps
<1>2. /\ Observe
      /\ steady' = {h \in steady : HeldBy(h)'}
      /\ UNCHANGED <<pc, pids, links, inodes, rows, batch, connections, reply, missed>>
  BY DEF Kernel, Observe, callVars
<1>3. CallInv'
  BY <1>2 DEF CallInv
<1>4. InodeInv'
  <2> SUFFICES ASSUME pc # "idle" PROVE InodeInv'
    BY <1>2 DEF InodeInv
  <2>1. owned' = owned \cup UNION {fds'[p] : p \in Haproxy \cap alive'}
    BY <1>2 DEF Observe
  <2>2. inodes' \subseteq owned' /\ \A p \in Haproxy \cap alive' : fds'[p] \subseteq owned'
    BY <1>2, <2>1 DEF InodeInv
  <2>3. ASSUME NEW h \in steady'
        PROVE  h \in steady /\ HeldBy(h)'
    BY <1>2
  <2> QED
    BY <1>2, <2>2, <2>3 DEF InodeInv
<1>5. EntryInv'
  BY <1>2 DEF EntryInv, Sound
<1>6. ReadInv'
  BY <1>2 DEF ReadInv
<1>7. ReplyInv'
  BY <1>2 DEF ReplyInv, AddressesDecoded, Answered, TimeWaitNeedsNoFilter
<1> QED
  BY <1>1, <1>3, <1>4, <1>5, <1>6, <1>7

-----------------------------------------------------------------------------
(* The call *)

\* The answer to a call that has ended before it began is empty.
LEMMA EmptyReply ==
    ASSUME reply'.groups = NoReply.groups, reply'.timeWait = 0
    PROVE  ReplyInv'
  BY DEF ReplyInv, AddressesDecoded, Answered, TimeWaitNeedsNoFilter, NoReply

\* Reading the processes' descriptors leaves the rest of the state alone, so
\* only what it says of inodes is at stake.
LEMMA CollectingKeeps ==
    ASSUME Inv, pc = "fds", pc' = "fds", UNCHANGED <<kernelVars, rows, batch, connections, reply>>,
           pids' \subseteq pids,
           links'.left # {} => links'.pid \in Haproxy,
           inodes' \subseteq 1 .. MaxInode,
           InodeInv'
    PROVE  Inv'
<1> USE DEF Inv
<1>1. KernelInv'
  BY DEF KernelInv, kernelVars
<1>2. CallInv'
  BY DEF CallInv
<1>3. batch' = {} /\ connections' = {}
  BY DEF CallInv, Families
<1>4. EntryInv' /\ ReadInv'
  BY <1>3 DEF EntryInv, ReadInv, Families
<1>5. ReplyInv'
  BY DEF ReplyInv, AddressesDecoded, Answered, TimeWaitNeedsNoFilter
<1> QED
  BY <1>1, <1>2, <1>4, <1>5

\* A call that begins finds what HAProxy holds at that moment.
LEMMA BeginStep ==
    ASSUME Inv, Begin
    PROVE  Inv'
<1> USE DEF Inv
<1>1. KernelInv'
  BY DEF Begin, KernelInv, kernelVars
<1>2. CallInv'
  BY DEF Begin, CallInv, Families, Family
<1>3. InodeInv'
  <2>1. pc' = "pids" /\ inodes' = {} /\ UNCHANGED <<fds, alive, table>>
    BY DEF Begin, CallInv, kernelVars
  <2>2. \A p \in Haproxy \cap alive : fds[p] \subseteq owned'
    BY DEF Begin
  <2>3. ASSUME NEW h \in steady'
        PROVE  h.pid \in Haproxy /\ h.conn \in Conns /\ HeldBy(h)
    BY DEF Begin, Holdings
  <2>4. \A h \in steady' : HeldBy(h)'
    BY <2>1, <2>3 DEF HeldBy
  <2> QED
    BY <2>1, <2>2, <2>3, <2>4 DEF InodeInv, Families
<1>4. EntryInv' /\ ReadInv'
  BY DEF Begin, CallInv, EntryInv, ReadInv, Families
<1>5. ReplyInv'
  BY EmptyReply DEF Begin, NoReply
<1> QED
  BY <1>1, <1>2, <1>3, <1>4, <1>5

\* Every HAProxy process with a steady socket is alive, and so is found.
LEMMA FindStep ==
    ASSUME Inv, FindAllProcessPIDs
    PROVE  Inv'
<1> USE DEF Inv, FindAllProcessPIDs, FindPids
<1>1. KernelInv'
  BY DEF KernelInv, kernelVars
<1>2. CallInv'
  BY DEF CallInv, Families, Family
<1>3. InodeInv'
  BY DEF InodeInv, HeldBy, Families, kernelVars, ghostVars
<1>4. EntryInv' /\ ReadInv'
  BY DEF CallInv, EntryInv, ReadInv, Families
<1>5. ReplyInv'
  BY DEF ReplyInv, AddressesDecoded, Answered, TimeWaitNeedsNoFilter
<1> QED
  BY <1>1, <1>2, <1>3, <1>4, <1>5

\* Directories and links: a steady socket stays in a directory to be read, a
\* link to be read, or the inodes that were read.
LEMMA CollectStep ==
    ASSUME Inv,
           \/ \E p \in Pids : ReadDir(p) \/ ReadDirFails(p)
           \/ \E i \in 1 .. MaxInode : ReadLink(i)
           \/ LinksRead
    PROVE  Inv'
<1> USE DEF Inv
<1>1. ASSUME NEW p \in Pids, ReadDir(p)
      PROVE  Inv'
  <2>1. p \in Haproxy
    BY <1>1 DEF ReadDir, CallInv
  <2>2. InodeInv'
    BY <1>1 DEF ReadDir, NoLinks, InodeInv, HeldBy, Families, kernelVars, ghostVars
  <2> QED
    BY <1>1, <2>1, <2>2, CollectingKeeps DEF ReadDir, CallInv
<1>2. ASSUME NEW p \in Pids, ReadDirFails(p)
      PROVE  Inv'
  <2>1. InodeInv'
    BY <1>2 DEF ReadDirFails, InodeInv, HeldBy, Families, kernelVars
  <2> QED
    BY <1>2, <2>1, CollectingKeeps DEF ReadDirFails, CallInv
<1>3. ASSUME NEW i \in 1 .. MaxInode, ReadLink(i)
      PROVE  Inv'
  <2>1. links' = [links EXCEPT !.left = @ \ {i}] /\ links.pid \in Haproxy /\ i \in links.left
    BY <1>3 DEF ReadLink, CallInv
  <2>2. links'.pid = links.pid /\ links'.left = links.left \ {i}
    BY <1>3 DEF ReadLink
  <2>3. i \in fds[links.pid] => i \in owned
    BY <1>3, <2>1, SocketAssumption DEF ReadLink, InodeInv, KernelInv
  <2>4. InodeInv'
    BY <1>3, <2>2, <2>3 DEF ReadLink, InodeInv, HeldBy, Families, kernelVars, ghostVars
  <2> QED
    BY <1>3, <2>1, <2>2, <2>4, CollectingKeeps DEF ReadLink, CallInv
<1>4. ASSUME LinksRead
      PROVE  Inv'
  <2>1. InodeInv'
    BY <1>4 DEF LinksRead, InodeInv, HeldBy, Families, kernelVars, ghostVars
  <2> QED
    BY <1>4, <2>1, CollectingKeeps DEF LinksRead, NoLinks, CallInv
<1> QED
  BY <1>1, <1>2, <1>3, <1>4

\* A call that is cancelled before it begins.
LEMMA CancelledStep ==
    ASSUME Inv, Cancelled
    PROVE  Inv'
<1> USE DEF Inv
<1>1. UNCHANGED <<fds, alive, table, nextInode, steady, owned, missed, pc, pids, links,
                  inodes, rows, batch, connections>>
  BY DEF Cancelled, kernelVars, ghostVars
<1>2. KernelInv' /\ CallInv'
  BY <1>1 DEF KernelInv, CallInv
<1>3. InodeInv'
  BY <1>1 DEF InodeInv, HeldBy
<1>4. EntryInv' /\ ReadInv'
  BY <1>1 DEF EntryInv, Sound, ReadInv
<1>5. ReplyInv'
  BY EmptyReply DEF Cancelled, NoReply
<1> QED
  BY <1>2, <1>3, <1>4, <1>5

\* With no directory and no link left, the inode of every steady socket is
\* known when the first table is opened.
LEMMA InodesReadStep ==
    ASSUME Inv, InodesRead
    PROVE  Inv'
<1> USE DEF Inv, InodesRead, OpenTable
<1>1. KernelInv'
  BY DEF KernelInv, kernelVars
<1>2. CallInv'
  BY DEF CallInv, Families
<1>3. InodeInv'
  BY DEF InodeInv, HeldBy, NoLinks, Families, kernelVars, ghostVars
<1>4. EntryInv'
  BY DEF CallInv, EntryInv, Families
<1>5. ReadInv'
  BY DEF InodeInv, ReadInv, Families, ghostVars
<1>6. ReplyInv'
  BY DEF ReplyInv, AddressesDecoded, Answered, TimeWaitNeedsNoFilter
<1> QED
  BY <1>1, <1>2, <1>3, <1>4, <1>5, <1>6

\* A row that is read shows its connection, and that of a steady socket is
\* not filtered out.
LEMMA ReadRowStep ==
    ASSUME Inv, NEW c \in Conns, ReadRow(c)
    PROVE  Inv'
<1> USE DEF Inv
<1> DEFINE entry == [conn |-> c,
                     local |-> ParseAddress(AddressField(Local[c]), pc),
                     remote |-> ParseAddress(AddressField(Remote[c]), pc),
                     state |-> SocketState(table[c].state),
                     inode |-> table[c].inode]
           skipped == table[c] = NoRow \/ FilteredOut(table[c].inode)
<1>1. /\ pc \in Families /\ c \in rows /\ rows' = rows \ {c}
      /\ batch' = IF skipped THEN batch ELSE batch \cup {entry}
      /\ UNCHANGED <<fds, alive, table, nextInode, steady, owned, missed, pc, pids, links,
                     inodes, connections, reply>>
  BY DEF ReadRow, kernelVars, ghostVars
<1>2. Family(c) = pc
  BY <1>1 DEF CallInv
<1>3. KernelInv' /\ CallInv'
  BY <1>1 DEF KernelInv, CallInv
<1>4. InodeInv'
  BY <1>1 DEF InodeInv, HeldBy
<1>5. ~skipped => Sound(entry)
  <2>1. entry.local = Notation(Local[c]) /\ entry.remote = Notation(Remote[c])
    BY <1>2, RowDecoded
  <2>2. SocketState(table[c].state) = TIME_WAIT => table[c].state = TIME_WAIT
    BY DEF KernelInv, SocketState, TIME_WAIT, UNSPECIFIED
  <2>3. entry.state = TIME_WAIT => entry.inode = 0
    BY <2>2 DEF KernelInv
  <2>4. ~skipped /\ inodes # {} => entry.inode \in inodes
    BY DEF FilteredOut
  <2> QED
    BY <2>1, <2>3, <2>4 DEF Sound
<1>6. entry.conn = c /\ entry.inode = table[c].inode
  OBVIOUS
<1> HIDE DEF entry
<1>7. \A e : Sound(e)' <=> Sound(e)
  BY <1>1 DEF Sound
<1>8. EntryInv'
  <2>1. \A e \in batch' : e \in batch \/ (~skipped /\ e = entry)
    BY <1>1
  <2>2. \A e \in batch : e.conn # c
    BY <1>1 DEF EntryInv
  <2>3. \A e \in batch' : Sound(e) /\ Family(e.conn) = pc /\ e.conn \notin rows'
    BY <1>1, <1>2, <1>5, <1>6, <2>1 DEF EntryInv
  <2>4. \A d, e \in batch' : d.conn = e.conn => d = e
    BY <1>6, <2>1, <2>2 DEF EntryInv
  <2> QED
    BY <1>1, <1>7, <2>3, <2>4 DEF EntryInv
<1>9. ReadInv'
  <2>1. ASSUME NEW h \in steady, h.conn = c
        PROVE  entry \in batch' /\ entry.inode = h.inode
    <3>1. h.inode = table[c].inode /\ h.inode # 0 /\ h.inode \in inodes
      BY <1>1, <2>1 DEF InodeInv, HeldBy, Families
    <3>2. ~skipped
      BY <3>1 DEF NoRow, FilteredOut
    <3> QED
      BY <1>1, <1>6, <3>1, <3>2
  <2>2. batch \subseteq batch'
    BY <1>1
  <2> QED
    BY <1>1, <1>6, <2>1, <2>2 DEF ReadInv
<1>10. ReplyInv'
  BY <1>1 DEF ReplyInv, AddressesDecoded, Answered, TimeWaitNeedsNoFilter
<1> QED
  BY <1>3, <1>4, <1>8, <1>9, <1>10

\* Grouping by state neither loses nor adds a connection.
LEMMA ResponseAnswers ==
    ASSUME NEW cs, reply' = Response(cs)
    PROVE  Answered' = cs /\ reply'.filtered = (inodes # {})
<1>1. /\ reply'.groups = [s \in {e.state : e \in cs} |-> {e \in cs : e.state = s}]
      /\ reply'.filtered = (inodes # {})
  BY DEF Response
<1> QED
  BY <1>1 DEF Answered

\* The end of a table: the next one is opened, or the answer is given.
LEMMA EndTableStep ==
    ASSUME Inv, pc \in Families, NEW cs, cs \subseteq connections \cup batch, EndTable(cs),
           UNCHANGED <<kernelVars, steady, owned, pids, links>>,
           \A h \in steady : pc = "IPv4" /\ Family(h.conn) = "IPv4" =>
              "IPv4" \in missed' \/ \E e \in cs : e.conn = h.conn /\ e.inode = h.inode
    PROVE  Inv'
<1> USE DEF Inv
<1>1. KernelInv'
  BY DEF KernelInv, kernelVars
<1>2. ASSUME NEW e \in cs
      PROVE  Sound(e)
  BY DEF EntryInv
<1>3. CASE pc = "IPv4"
  <2>1. /\ connections' = cs /\ connections = {} /\ pc' = "IPv6" /\ batch' = {}
        /\ rows' = {c \in Conns : Family(c) = "IPv6"}
        /\ UNCHANGED <<inodes, reply, steady, owned, pids, links, fds, alive, table>>
    BY <1>3 DEF EndTable, OpenTable, CallInv, kernelVars
  <2>2. CallInv'
    BY <2>1, <1>3 DEF CallInv, Families
  <2>3. InodeInv'
    BY <2>1, <1>3 DEF InodeInv, HeldBy, Families
  <2>4. \A e \in cs : Sound(e)'
    BY <1>2, <2>1 DEF Sound
  <2>5. EntryInv'
    BY <2>1, <2>4, <1>3 DEF EntryInv
  <2>6. ReadInv'
    BY <2>1, <1>3 DEF ReadInv, InodeInv, Families
  <2>7. ReplyInv'
    BY <2>1 DEF ReplyInv, AddressesDecoded, Answered, TimeWaitNeedsNoFilter
  <2> QED
    BY <1>1, <2>2, <2>3, <2>5, <2>6, <2>7
<1>4. CASE pc = "IPv6"
  <2>1. /\ reply' = Response(cs) /\ pc' = "idle" /\ inodes' = {} /\ rows' = {} /\ batch' = {}
        /\ connections' = {} /\ UNCHANGED <<pids, links>>
    BY <1>4 DEF EndTable
  <2>2. CallInv' /\ InodeInv' /\ EntryInv' /\ ReadInv'
    BY <2>1 DEF CallInv, InodeInv, EntryInv, ReadInv, Families
  <2>3. Answered' = cs /\ reply'.filtered = (inodes # {})
    BY <2>1, ResponseAnswers
  <2>4. AddressesDecoded'
    BY <1>2, <2>3 DEF AddressesDecoded, Sound
  <2>5. ASSUME inodes # {}
        PROVE  reply'.timeWait = 0
    <3>1. 0 \notin inodes
      BY DEF CallInv
    <3>2. {e \in cs : e.state = TIME_WAIT} = {}
      BY <1>2, <2>5, <3>1 DEF Sound
    <3>3. reply'.timeWait = Cardinality({e \in cs : e.state = TIME_WAIT})
      BY <2>1 DEF Response
    <3> QED
      BY <3>2, <3>3, FS_EmptySet
  <2> QED
    BY <1>1, <2>2, <2>3, <2>4, <2>5 DEF ReplyInv, TimeWaitNeedsNoFilter
<1> QED
  BY <1>3, <1>4 DEF Families

\* When no row is left, every steady socket of the table is in the batch.
LEMMA TableReadStep ==
    ASSUME Inv, TableRead
    PROVE  Inv'
<1>1. /\ pc \in Families /\ rows = {} /\ EndTable(connections \cup batch)
      /\ UNCHANGED <<kernelVars, steady, owned, pids, links>>
  BY DEF TableRead, ghostVars
<1>2. \A h \in steady : pc = "IPv4" /\ Family(h.conn) = "IPv4" =>
         \E e \in connections \cup batch : e.conn = h.conn /\ e.inode = h.inode
  BY <1>1 DEF Inv, ReadInv
<1> QED
  BY <1>1, <1>2, EndTableStep

\* A table that fails is noted as missed.
LEMMA TableFailsStep ==
    ASSUME Inv, TableFails
    PROVE  Inv'
<1>1. /\ pc \in Families /\ EndTable(connections) /\ missed' = missed \cup {pc}
      /\ UNCHANGED <<kernelVars, steady, owned, pids, links>>
  BY DEF TableFails
<1> QED
  BY <1>1, EndTableStep

-----------------------------------------------------------------------------
(* The theorems *)

\* The invariant holds before the first call.
LEMMA InitInv ==
    Init => Inv
<1> SUFFICES ASSUME Init PROVE Inv
  OBVIOUS
<1>1. KernelInv
  BY DEF Init, KernelInv, NoRow, TIME_WAIT
<1>2. CallInv
  BY DEF Init, CallInv, NoLinks, Families
<1>3. InodeInv /\ EntryInv /\ ReadInv
  BY DEF Init, InodeInv, EntryInv, ReadInv, Families
<1>4. ReplyInv
  BY DEF Init, ReplyInv, AddressesDecoded, Answered, TimeWaitNeedsNoFilter, NoReply
<1> QED
  BY <1>1, <1>2, <1>3, <1>4 DEF Inv

\* Steps of the kernel and of the call keep the invariant.
LEMMA NextInv ==
    Inv /\ [Next]_vars => Inv'
<1> SUFFICES ASSUME Inv, [Next]_vars PROVE Inv'
  OBVIOUS
<1>1. CASE Kernel
  BY <1>1, KernelStep
<1>2. CASE Call
  BY <1>2, CancelledStep, BeginStep, FindStep, CollectStep, InodesReadStep, ReadRowStep,
     TableReadStep, TableFailsStep DEF Call
<1>3. CASE UNCHANGED vars
  <2>1. UNCHANGED <<fds, alive, table, nextInode, pc, pids, links, inodes, rows, batch,
                    connections, reply, steady, owned, missed>>
    BY <1>3 DEF vars, kernelVars, callVars, ghostVars
  <2>2. KernelInv' /\ CallInv'
    BY <2>1 DEF Inv, KernelInv, CallInv
  <2>3. InodeInv'
    BY <2>1 DEF Inv, InodeInv, HeldBy
  <2>4. EntryInv' /\ ReadInv'
    BY <2>1 DEF Inv, EntryInv, Sound, ReadInv
  <2>5. ReplyInv'
    BY <2>1 DEF Inv, ReplyInv, AddressesDecoded, Answered, TimeWaitNeedsNoFilter
  <2> QED
    BY <2>2, <2>3, <2>4, <2>5 DEF Inv
<1> QED
  BY <1>1, <1>2, <1>3 DEF Next

\* So it always holds.
LEMMA InvHolds ==
    Spec => []Inv
  BY InitInv, NextInv, PTL DEF Spec

\* Addresses in an answer of GetNetworkSockets are those of the connections,
\* for any addresses: parseHexAddress undoes the byte order of the host.
THEOREM AddressesAreDecoded ==
    Spec => []AddressesDecoded
<1>1. Inv => AddressesDecoded
  BY DEF Inv, ReplyInv
<1> QED
  BY <1>1, InvHolds, PTL

\* time_wait_count is 0 in every answer that was filtered, since a socket in
\* TIME_WAIT has no inode that a process could hold.
THEOREM TimeWaitIsHidden ==
    Spec => []TimeWaitNeedsNoFilter
<1>1. Inv => TimeWaitNeedsNoFilter
  BY DEF Inv, ReplyInv
<1> QED
  BY <1>1, InvHolds, PTL

\* Only the end of the second table answers a call that has begun.
LEMMA AnswerStep ==
    ASSUME Inv, [Next]_vars, Answers
    PROVE  /\ pc = "IPv6"
           /\ \/ rows = {} /\ reply' = Response(connections \cup batch)
              \/ reply' = Response(connections) /\ "IPv6" \in missed'
           /\ missed \subseteq missed'
<1>1. Call
  BY DEF Answers, Next, Kernel, Observe, callVars, vars
<1>2. CASE TableRead
  BY <1>2 DEF TableRead, EndTable, OpenTable, Answers, Families, ghostVars
<1>3. CASE TableFails
  BY <1>3 DEF TableFails, EndTable, OpenTable, Answers, Families
<1>4. CASE Cancelled \/ Begin \/ FindAllProcessPIDs \/ LinksRead \/ InodesRead
  BY <1>4 DEF Cancelled, Begin, FindAllProcessPIDs, FindPids, LinksRead, InodesRead,
     OpenTable, Answers
<1>5. CASE \/ \E p \in Pids : ReadDir(p) \/ ReadDirFails(p)
           \/ \E i \in 1 .. MaxInode : ReadLink(i)
           \/ \E c \in Conns : ReadRow(c)
  BY <1>5 DEF ReadDir, ReadDirFails, ReadLink, ReadRow, Answers
<1> QED
  BY <1>1, <1>2, <1>3, <1>4, <1>5 DEF Call

\* Whatever happens between the reads of /proc, an answer given while HAProxy
\* held a readable socket throughout shows sockets of HAProxy only.
THEOREM OthersAreNotShown ==
    Spec => OnlyOwn
<1>1. ASSUME Inv, [Next]_vars, Answers, steady # {}
      PROVE  reply'.filtered /\ \A e \in Answered' : e.inode \in owned
  <2>1. PICK cs : cs \subseteq connections \cup batch /\ reply' = Response(cs)
    BY <1>1, AnswerStep
  <2>2. Answered' = cs /\ reply'.filtered = (inodes # {})
    BY <2>1, ResponseAnswers
  <2>3. inodes # {} /\ inodes \subseteq owned
    BY <1>1, AnswerStep DEF Inv, InodeInv, Families
  <2>4. \A e \in cs : e.inode \in inodes
    BY <1>1, <2>1, <2>3 DEF Inv, EntryInv, Sound
  <2> QED
    BY <2>2, <2>3, <2>4
<1> QED
  BY <1>1, InvHolds, PTL DEF OnlyOwn, Spec

\* A socket that HAProxy held throughout, and whose files could be read, is
\* in the answer exactly once.
THEOREM HeldSocketsAreShown ==
    Spec => Complete
<1>1. ASSUME Inv, [Next]_vars, Answers, NEW h \in steady, Family(h.conn) \notin missed'
      PROVE  \E e \in Answered' : e.conn = h.conn /\ e.inode = h.inode
                /\ \A d \in Answered' : d.conn = h.conn => d = e
  <2>1. pc = "IPv6" /\ missed \subseteq missed'
    BY <1>1, AnswerStep
  <2>2. PICK cs : /\ connections \subseteq cs /\ cs \subseteq connections \cup batch
                  /\ "IPv6" \notin missed' => rows = {} /\ cs = connections \cup batch
                  /\ reply' = Response(cs)
    BY <1>1, AnswerStep
  <2>3. Answered' = cs
    BY <2>2, ResponseAnswers
  <2>4. PICK e \in cs : e.conn = h.conn /\ e.inode = h.inode
    BY <1>1, <2>1, <2>2 DEF Inv, ReadInv, Family, Families
  <2>5. \A d, f \in cs : d.conn = f.conn => d = f
    BY <1>1, <2>1, <2>2 DEF Inv, EntryInv
  <2> QED
    BY <2>3, <2>4, <2>5
<1>2. Inv /\ [Next]_vars => [Answers => \A h \in steady :
          Family(h.conn) \in missed' \/
          (\E e \in Answered' : e.conn = h.conn /\ e.inode = h.inode
              /\ \A d \in Answered' : d.conn = h.conn => d = e)]_vars
  BY <1>1
<1> QED
  BY <1>2, InvHolds, PTL DEF Complete, Spec
=============================================================================
