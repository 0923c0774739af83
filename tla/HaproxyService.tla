--------------------------- MODULE HaproxyService ---------------------------
(***************************************************************************)
(* HaproxyService (internal/services/haproxy.go): the gRPC calls on        *)
(* managed configurations, their persistence to the HAProxy configuration  *)
(* file, to the store and to the running HAProxy, with the process         *)
(* lifecycle around them.                                                  *)
(*                                                                         *)
(* Callers are the goroutines that handle gRPC calls; Main is the          *)
(* goroutine that runs the Fx lifecycle.  pc[t] says where t is: at a name *)
(* of Blocking it asks for the mutex, at every later name until it answers *)
(* it has asked for it, and a writer also waits for the readers to leave.  *)
(***************************************************************************)
EXTENDS ConfigStore

CONSTANTS
    Callers, Main, NoProc,
    ConfigRequests,   \* configurations that clients send
    InitialBlocks,    \* managed blocks found in the file of a new host
    Ops               \* the calls that clients make

Procs == Callers \cup {Main}
Mutators == {"create", "update", "delete"}
Readers == {"get", "list"}

\* No configuration of a list is rendered with a certificate of the service.
Pristine(list) == \A c \in list : c.path \notin CertPaths /\ c.pem = ""

ASSUME ProcAssumption == Main \notin Callers /\ NoProc \notin Procs
ASSUME RequestAssumption ==
    /\ ConfigRequests \subseteq Request
    /\ Ops \subseteq Mutators \cup Readers \cup {"status"}
    /\ \A b \in InitialBlocks :
          b \subseteq Config /\ DistinctNames(b) /\ Pristine(b)

VARIABLES
    pc, op, arg,      \* per process: where it is, its call and its argument
    configurations,   \* per process: the list loaded, then edited
    before, restBefore,  \* the file content the writer saved for the rollback
    reply,            \* the answer given by the last step, if it gave one
    writer, readers,  \* s.mu: who took or waits as writer; who reads
    client,           \* s.client # nil
    fileSet,          \* s.configurationFile and s.certificatesDir are set
    serving,          \* the gRPC server accepts calls
    block,            \* the managed configurations written to the HAProxy file
    rest,             \* what writes cut inside a block left in the file before it
    certs,            \* the certificates directory: what each file holds
    running,          \* what the running HAProxy loaded
    lost,             \* ghost: file content was lost since the last success
    possible,         \* ghost: lists that the answers given so far allow
    panicked          \* ghost: the process died of a nil dereference

lockVars == <<writer, readers>>
callVars == <<pc, op, arg, configurations, before, reply>>
clientVars == <<client, fileSet>>
fileVars == <<block, rest>>
hostVars == <<fileVars, restBefore, certs, running>>
ghostVars == <<lost, possible, panicked>>
vars == <<callVars, lockVars, clientVars, serving, storeVars, hostVars,
          ghostVars>>

NameOnly(n) == [name |-> n, body |-> "", path |-> "", pem |-> ""]
NoReply == [to |-> NoProc, code |-> "", list |-> {}]
Codes == {"", "OK", "InvalidArgument", "AlreadyExists", "NotFound",
          "Internal", "Unknown"}

\* What HAProxy holds in memory after it loaded list: each configuration with
\* the content of its certificate file.
Entry(c, cs) == [cfg |-> c, pem |-> IF c.path \in CertPaths THEN cs[c.path] ELSE ""]
Loaded(list, cs) == {Entry(c, cs) : c \in list}
RunningList == {r.cfg : r \in running}

\* HAProxy refuses a file with a bad section or an unreadable certificate.
Accepts(list, cs) ==
    \A c \in list : /\ c.body \notin RejectedBodies
                    /\ c.path \in CertPaths => cs[c.path] # ""

Key(t) == NormalizeConfigurationName(arg[t].name)

\* A write cut inside a block leaves a start marker without an end (open),
\* after it entries of configurations, perhaps half of one (corrupt), and some
\* of their sections.
Rest == [open : BOOLEAN, entries : SUBSET Config, corrupt : BOOLEAN]
NoRest == [open |-> FALSE, entries |-> {}, corrupt |-> FALSE]

\* MergeManagedBlock appends its block to a file with an open start marker, so
\* what follows that marker stays; any other block is replaced as a whole.
KeepsRest == [rest EXCEPT !.open = FALSE]
MergedRest == IF rest.open THEN KeepsRest ELSE NoRest

\* What is read is between the first start marker and the first end after it;
\* half an entry there fails the load.
FileList == IF rest.open \/ rest.corrupt THEN {} ELSE block \cup rest.entries
Undecodable == rest.corrupt /\ ~rest.open

-----------------------------------------------------------------------------
(* The mutex is sync.RWMutex: a writer first claims the mutex, which stops *)
(* new readers, and then waits for the readers that are inside.            *)

HoldsLock(t) == (writer = t /\ readers = {}) \/ t \in readers

Goto(t, label) == pc' = [pc EXCEPT ![t] = label]

Blocking == [lock |-> "load", slow |-> "create", stop |-> "stopping"]

LockWhen(t, free) ==
    /\ pc[t] \in DOMAIN Blocking
    /\ free
    /\ writer' = t
    /\ Goto(t, Blocking[pc[t]])
    /\ reply' = NoReply
    /\ UNCHANGED <<op, arg, configurations, before, readers, clientVars,
                   serving, storeVars, hostVars, ghostVars>>

LockAtOnce(t) == LockWhen(t, TRUE)
Lock(t) == LockWhen(t, writer = NoProc)

RLockWhen(t, free) ==
    /\ pc[t] = "rlock"
    /\ free
    /\ readers' = readers \cup {t}
    /\ Goto(t, "load")
    /\ reply' = NoReply
    /\ UNCHANGED <<op, arg, configurations, before, writer, clientVars,
                   serving, storeVars, hostVars, ghostVars>>

RLockAtOnce(t) == RLockWhen(t, TRUE)
RLock(t) == RLockWhen(t, writer = NoProc)

KeepsWriteLock(t) == UNCHANGED writer /\ readers' = readers \ {t}
Unlock(t) ==
    /\ writer' = IF writer = t THEN NoProc ELSE writer
    /\ readers' = readers \ {t}

\* t answers and releases what it holds (the deferred unlock).  The answer
\* of the start hook decides whether Fx goes on or shuts down.
Reply(t, code, list) ==
    /\ reply' = [to |-> t, code |-> code, list |-> list]
    /\ Goto(t, IF t # Main THEN "idle" ELSE IF code = "OK" THEN "run" ELSE "drain")
    /\ op' = [op EXCEPT ![t] = ""]
    /\ arg' = [arg EXCEPT ![t] = NameOnly("")]
    /\ configurations' = [configurations EXCEPT ![t] = {}]
    /\ before' = IF writer = t THEN {} ELSE before
    /\ Unlock(t)

\* t goes on to label with the list l, answering nothing yet.
Continue(t, label, l) ==
    /\ Goto(t, label)
    /\ configurations' = [configurations EXCEPT ![t] = l]
    /\ reply' = NoReply
    /\ UNCHANGED <<op, arg, lockVars>>

-----------------------------------------------------------------------------
(* Entry of the calls, through the controller *)

Enter(t, o, a, label) ==
    /\ Goto(t, label)
    /\ op' = [op EXCEPT ![t] = o]
    /\ arg' = [arg EXCEPT ![t] = a]
    /\ reply' = NoReply
    /\ UNCHANGED <<configurations, before, lockVars>>

Refuse(t) ==
    /\ reply' = [to |-> t, code |-> "InvalidArgument", list |-> {}]
    /\ UNCHANGED <<pc, op, arg, configurations, before, lockVars>>

Accepting(t, o) ==
    /\ serving /\ t # Main /\ pc[t] = "idle" /\ o \in Ops
    /\ UNCHANGED <<clientVars, serving, storeVars, hostVars, ghostVars>>

\* Create and Update validate first; Get does too, and then needs no client.
Submit(t, o) ==
    /\ Accepting(t, o)
    /\ \E r \in ConfigRequests :
          IF ValidateConfiguration(r) THEN Enter(t, o, r, "client") ELSE Refuse(t)

CreateConfiguration(t) == Submit(t, "create")
UpdateConfiguration(t) == Submit(t, "update")

DeleteConfiguration(t) ==
    /\ Accepting(t, "delete")
    /\ \E n \in RawNames : Enter(t, "delete", NameOnly(n), "client")

GetConfiguration(t) ==
    /\ Accepting(t, "get")
    /\ \E n \in RawNames :
          IF NormalizeConfigurationName(n) # ""
            THEN Enter(t, "get", NameOnly(n), "rlock")
            ELSE Refuse(t)

ListConfigurations(t) ==
    /\ Accepting(t, "list")
    /\ Enter(t, "list", NameOnly(""), "rlock")

GetStatus(t) ==
    /\ Accepting(t, "status")
    /\ Enter(t, "status", NameOnly(""), "client")

-----------------------------------------------------------------------------
(* getOrCreateClient: a check under the read lock, then, if there is no    *)
(* client, a second check and the creation under the write lock.           *)

FailCode(t) == IF op[t] = "status" THEN "Unknown" ELSE "Internal"

\* The caller has its client and the mutex is free again.
WithClient(t) ==
    IF op[t] = "delete" /\ Key(t) = ""
      THEN Reply(t, "InvalidArgument", {})
      ELSE /\ Goto(t, IF op[t] = "status" THEN "stats" ELSE "lock")
           /\ Unlock(t)
           /\ reply' = NoReply
           /\ UNCHANGED <<op, arg, configurations, before>>

CheckClient(t) ==
    /\ pc[t] = "client"
    /\ writer = NoProc
    /\ IF client
         THEN WithClient(t)
         ELSE /\ Goto(t, "slow")
              /\ reply' = NoReply
              /\ UNCHANGED <<op, arg, configurations, before, lockVars>>
    /\ UNCHANGED <<clientVars, serving, storeVars, hostVars, ghostVars>>

CreateClient(t) ==
    /\ pc[t] = "create" /\ HoldsLock(t)
    /\ client' = TRUE
    /\ fileSet' = (fileSet \/ ~client)
    /\ WithClient(t)
    /\ UNCHANGED <<serving, storeVars, hostVars, ghostVars>>

\* The paths are assigned before the certificates directory is created, so a
\* failure may leave them set without a client.
CreateClientFails(t) ==
    /\ pc[t] = "create" /\ HoldsLock(t)
    /\ ~client /\ "client" \in Faults
    /\ fileSet' \in {fileSet, TRUE}
    /\ Reply(t, FailCode(t), {})
    /\ UNCHANGED <<client, serving, storeVars, hostVars, ghostVars>>

\* GetStats runs without the mutex, on the client read before.
GetStats(t) ==
    /\ pc[t] = "stats"
    /\ \/ Reply(t, "OK", {})
       \/ "haproxy" \in Faults /\ Reply(t, FailCode(t), {})
    /\ UNCHANGED <<clientVars, serving, storeVars, hostVars, ghostVars>>

-----------------------------------------------------------------------------
(* loadConfigurationsLocked and the decision each call takes on the list *)

\* The list a mutator goes on to persist.
Edited(t, l) ==
    CASE op[t] = "create" -> l \cup {Stored(arg[t])}
      [] op[t] = "update" -> (l \ {FirstMatch(l, Key(t))}) \cup {Stored(arg[t])}
      [] OTHER -> l \ {FirstMatch(l, Key(t))}

Decide(t, l) ==
    \/ op[t] = "list" /\ Reply(t, "OK", l)
    \/ op[t] = "start" /\ Continue(t, "certs", l) /\ UNCHANGED before
    \/ op[t] = "get" /\ HasMatch(l, Key(t)) /\ Reply(t, "OK", {FirstMatch(l, Key(t))})
    \/ op[t] = "create" /\ HasMatch(l, Key(t)) /\ Reply(t, "AlreadyExists", {})
    \/ /\ op[t] \in {"get", "update", "delete"}
       /\ ~HasMatch(l, Key(t))
       /\ Reply(t, "NotFound", {})
    \/ /\ op[t] \in Mutators
       /\ HasMatch(l, Key(t)) = (op[t] # "create")
       /\ Continue(t, "certs", Edited(t, l))
       /\ UNCHANGED before

\* ListConfigurations logs an error and answers an empty list.
LoadError(t) ==
    IF op[t] = "list" THEN Reply(t, "OK", {}) ELSE Reply(t, "Internal", {})

\* At startup an empty store ends the synchronisation; a call then looks at
\* the managed block of the file.
LoadList(t, list) ==
    /\ pc[t] = "load" /\ HoldsLock(t)
    /\ ListSucceeds
    /\ IF list # {}
         THEN Decide(t, list)
         ELSE IF op[t] = "start"
                THEN Reply(t, "OK", {})
                ELSE Continue(t, "loadFile", {}) /\ UNCHANGED before
    /\ UNCHANGED <<clientVars, serving, storeVars, hostVars, ghostVars>>

LoadsFileFirst(t) == LoadList(t, FileList)
LoadStore(t) == LoadList(t, store)

LoadStoreFails(t) ==
    /\ pc[t] = "load" /\ HoldsLock(t)
    /\ ListFails
    /\ LoadError(t)
    /\ UNCHANGED <<clientVars, serving, storeVars, hostVars, ghostVars>>

LoadFile(t) ==
    /\ pc[t] = "loadFile"
    /\ fileSet /\ ~Undecodable
    /\ IF FileList = {}
         THEN Decide(t, {})
         ELSE Continue(t, "seed", FileList) /\ UNCHANGED before
    /\ UNCHANGED <<clientVars, serving, storeVars, hostVars, ghostVars>>

LoadFileFails(t) ==
    /\ pc[t] = "loadFile"
    /\ ~fileSet \/ Undecodable \/ "disk" \in Faults
    /\ LoadError(t)
    /\ UNCHANGED <<clientVars, serving, storeVars, hostVars, ghostVars>>

\* A reader seeds the store too, holding only the read lock.
Seed(t) ==
    /\ pc[t] = "seed"
    /\ SaveSucceeds(configurations[t])
    /\ Decide(t, configurations[t])
    /\ UNCHANGED <<clientVars, serving, hostVars, ghostVars>>

SeedFails(t) ==
    /\ pc[t] = "seed"
    /\ SaveFails(configurations[t])
    /\ LoadError(t)
    /\ UNCHANGED <<clientVars, serving, hostVars, ghostVars>>

-----------------------------------------------------------------------------
(* persistAndReloadLockedWithStorePolicy *)

\* A file write that fails may have been cut, or may be complete.
Cuts == {"truncated", "torn"} \cap Faults # {}
Completes == {"torn", "close"} \cap Faults # {}

\* What a write of list behind left leaves if it is cut inside a block: any
\* part of it, and half an entry only in the place of a whole one.
CutInside(list, left) ==
    {r \in [open : {TRUE}, entries : SUBSET (left.entries \cup list),
            corrupt : BOOLEAN] :
        r.corrupt => left.corrupt \/ r.entries # left.entries \cup list}

\* An os.WriteFile of list behind left stops on its way.
WriteStops(list, left) ==
    /\ Cuts
    /\ block' = {} /\ lost' = TRUE
    /\ rest' = NoRest \/ ("torn" \in Faults /\ rest' \in CutInside(list, left))

\* It fails: nothing happened, or it stopped on its way.
FileWriteFails(list, left) ==
    \/ "disk" \in Faults /\ UNCHANGED <<fileVars, lost>>
    \/ WriteStops(list, left)

WritesCertificate(t, c) ==
    pc[t] = "certs" /\ c \in configurations[t] /\ NeedsCertificate(c)

MoveCertificate(t, c, pem) ==
    /\ WritesCertificate(t, c)
    /\ certs' = [certs EXCEPT ![CertFile[c.name]] = pem]
    /\ Continue(t, "certs", (configurations[t] \ {c}) \cup {EnsureCertificatePath(c)})
    /\ UNCHANGED <<before, restBefore, clientVars, serving, storeVars, fileVars,
                   running, ghostVars>>

LeavesCertificateEmpty(t) == \E c \in configurations[t] : MoveCertificate(t, c, "")
KeepsOldCertificate(t) ==
    \E c \in configurations[t] :
       LET old == certs[CertFile[c.name]] IN
       MoveCertificate(t, c, IF old # "" THEN old ELSE c.pem)
EnsureCertificate(t) == \E c \in configurations[t] : MoveCertificate(t, c, c.pem)

\* A certificate that was cut short cannot be read, like an empty file.
EnsureCertificateFails(t) ==
    \E c \in configurations[t] :
       /\ WritesCertificate(t, c)
       /\ \/ "disk" \in Faults /\ UNCHANGED certs
          \/ Cuts /\ certs' = [certs EXCEPT ![CertFile[c.name]] = ""]
          \/ Completes /\ certs' = [certs EXCEPT ![CertFile[c.name]] = c.pem]
       /\ Reply(t, "Internal", {})
       /\ UNCHANGED <<restBefore, clientVars, serving, storeVars, fileVars,
                      running, ghostVars>>

KeepFile(t, content) ==
    /\ pc[t] = "certs"
    /\ \A c \in configurations[t] : ~NeedsCertificate(c)
    /\ \/ /\ before' = content /\ restBefore' = rest
          /\ Continue(t, "write", configurations[t])
       \/ "disk" \in Faults /\ Reply(t, "Internal", {}) /\ UNCHANGED restBefore
    /\ UNCHANGED <<clientVars, serving, storeVars, fileVars, certs, running, ghostVars>>

KeepsNothing(t) == KeepFile(t, {})
ReadBefore(t) == KeepFile(t, block)

\* The list is written behind the given leftovers.  Only the startup
\* synchronisation leaves the store alone.
WriteBehind(t, left) ==
    /\ pc[t] = "write"
    /\ block' = configurations[t] /\ rest' = left
    /\ Continue(t, IF op[t] = "start" THEN "reload" ELSE "save", configurations[t])
    /\ UNCHANGED <<before, restBefore, clientVars, serving, storeVars, certs,
                   running, ghostVars>>

NeverHeals(t) == WriteBehind(t, KeepsRest)
WriteFile(t) == WriteBehind(t, MergedRest)

\* A list that was written may survive the failure of its call.
MayRemain(t) ==
    possible' = IF op[t] \in Mutators THEN possible \cup {configurations[t]} ELSE possible

\* The code returns here without restoring the file.
WriteFileFails(t) ==
    /\ pc[t] = "write"
    /\ \/ FileWriteFails(configurations[t], MergedRest) /\ UNCHANGED possible
       \/ /\ Completes
          /\ block' = configurations[t] /\ rest' = MergedRest /\ UNCHANGED lost
          /\ MayRemain(t)
    /\ restBefore' = NoRest
    /\ Reply(t, "Internal", {})
    /\ UNCHANGED <<clientVars, serving, storeVars, certs, running, panicked>>

SaveStore(t) ==
    /\ pc[t] = "save"
    /\ SaveSucceeds(configurations[t])
    /\ Continue(t, "reload", configurations[t])
    /\ UNCHANGED <<before, clientVars, serving, hostVars, ghostVars>>

SaveStoreFails(t) ==
    /\ pc[t] = "save"
    /\ SaveFails(configurations[t])
    /\ Continue(t, "undo", configurations[t])
    /\ UNCHANGED <<before, clientVars, serving, hostVars, ghostVars>>

\* The file is restored after a failed save; a failure of that is ignored.
UndoTo(t, list, left) ==
    /\ pc[t] = "undo"
    /\ \/ block' = list /\ rest' = left /\ UNCHANGED lost
       \/ FileWriteFails(list, left)
    /\ restBefore' = NoRest
    /\ Reply(t, "Internal", {})
    /\ MayRemain(t)
    /\ UNCHANGED <<clientVars, serving, storeVars, certs, running, panicked>>

UndoesNothing(t) == UndoTo(t, block, rest)
UndoWrite(t) == UndoTo(t, before, restBefore)

\* HAProxy reads every section of the file, whatever the markers, and so may
\* load configurations that a cut write left.
ReloadSucceeds ==
    \E left \in SUBSET rest.entries :
       /\ Accepts(block \cup left, certs)
       /\ running' = Loaded(block \cup left, certs)

\* It may refuse sections that were cut short or are there twice.
MayBeRefused == ~Accepts(block, certs) \/ rest # NoRest \/ ~DistinctNames(block)

\* A refused file leaves the old workers running; when the socket fails the
\* reload may have happened.
ReloadFails ==
    \/ MayBeRefused /\ UNCHANGED running
    \/ "haproxy" \in Faults /\ (ReloadSucceeds \/ UNCHANGED running)

Answered(t) ==
    IF op[t] \in {"create", "update"}
      THEN {c \in configurations[t] : c.name = Key(t)}
      ELSE {}

Acknowledge(t) ==
    /\ pc[t] = "reload" /\ client
    /\ Reply(t, "OK", Answered(t))
    /\ possible' = IF op[t] \in Mutators THEN {configurations[t]} ELSE possible
    /\ lost' = FALSE /\ restBefore' = NoRest
    /\ UNCHANGED <<clientVars, serving, storeVars, fileVars, certs, panicked>>

Reload(t) == ReloadSucceeds /\ Acknowledge(t)

ReloadRefused(t) ==
    /\ pc[t] = "reload" /\ client
    /\ ReloadFails
    /\ Continue(t, "restore", configurations[t])
    /\ UNCHANGED <<before, restBefore, clientVars, serving, storeVars, fileVars,
                   certs, ghostVars>>

\* The rollback restores the file, not the store nor the certificates.
RestoreFile(t) ==
    /\ pc[t] = "restore"
    /\ \/ block' = before /\ rest' = restBefore /\ UNCHANGED lost
       \/ FileWriteFails(before, restBefore)
    /\ Continue(t, "rereload", configurations[t])
    /\ UNCHANGED <<before, restBefore, clientVars, serving, storeVars, certs,
                   running, possible, panicked>>

ReloadRestored(t) ==
    /\ pc[t] = "rereload"
    /\ ReloadSucceeds \/ ReloadFails
    /\ Reply(t, "Internal", {})
    /\ MayRemain(t)
    /\ restBefore' = NoRest
    /\ UNCHANGED <<clientVars, serving, storeVars, fileVars, certs, lost, panicked>>

-----------------------------------------------------------------------------
(* The process lifecycle.  Fx starts the gRPC server before this service   *)
(* and stops it after, for its hook is appended first.                     *)

\* The process ends here, whatever it was doing.
ProcessEnds ==
    /\ pc' = [t \in Procs |-> IF t = Main THEN "down" ELSE "idle"]
    /\ op' = [t \in Procs |-> ""]
    /\ arg' = [t \in Procs |-> NameOnly("")]
    /\ configurations' = [t \in Procs |-> {}]
    /\ before' = {} /\ restBefore' = NoRest /\ reply' = NoReply
    /\ writer' = NoProc /\ readers' = {}
    /\ client' = FALSE /\ fileSet' = FALSE /\ serving' = FALSE
    /\ StoreAfterExit

\* Fx builds the services; the gRPC hook listens and serves at once, then the
\* start hook of this service begins.
Boot ==
    /\ pc[Main] = "down"
    /\ serving' = TRUE /\ panicked' = FALSE
    /\ Enter(Main, "start", NameOnly(""), "client")
    /\ UNCHANGED <<clientVars, storeVars, hostVars, lost, possible>>

\* SIGTERM: Fx runs the stop hooks in reverse order.
Shutdown ==
    /\ pc[Main] = "run"
    /\ Goto(Main, "stop")
    /\ reply' = NoReply
    /\ UNCHANGED <<op, arg, configurations, before, lockVars, clientVars,
                   serving, storeVars, hostVars, ghostVars>>

OnStop ==
    /\ pc[Main] = "stopping" /\ HoldsLock(Main)
    /\ client' = FALSE
    /\ CloseStore
    /\ Unlock(Main)
    /\ Goto(Main, "drain")
    /\ reply' = NoReply
    /\ UNCHANGED <<op, arg, configurations, before, fileSet, serving, hostVars,
                   ghostVars>>

\* GracefulStop: no new call is accepted, and Exit waits for the others.
Drain(accepts) ==
    /\ pc[Main] = "drain"
    /\ serving' = accepts
    /\ Goto(Main, "exit")
    /\ reply' = NoReply
    /\ UNCHANGED <<op, arg, configurations, before, lockVars, clientVars,
                   storeVars, hostVars, ghostVars>>

StillAccepts == Drain(TRUE)
GracefulStop == Drain(FALSE)

Exit ==
    /\ pc[Main] = "exit"
    /\ \A t \in Callers : pc[t] = "idle"
    /\ ProcessEnds
    /\ UNCHANGED <<fileVars, certs, running, ghostVars>>

Written == {"save", "undo", "reload", "restore", "rereload"}

\* Lists of calls that wrote the file and have not answered.
InFlight == {configurations[t] : t \in {p \in Procs : pc[p] \in Written}}

\* The process dies while t writes the file.
DiesWriting(t) ==
    \/ pc[t] = "write" /\ WriteStops(configurations[t], MergedRest)
    \/ pc[t] \in {"undo", "restore"} /\ WriteStops(before, restBefore)

\* The process dies between any two steps, or inside a write.
Crash ==
    /\ "crash" \in Faults /\ pc[Main] # "down"
    /\ \/ UNCHANGED <<fileVars, certs, lost>>
       \/ (\E t \in Procs : DiesWriting(t)) /\ UNCHANGED certs
       \/ /\ Cuts
          /\ \E t \in Procs, c \in UNION {configurations[p] : p \in Procs} :
                /\ WritesCertificate(t, c)
                /\ certs' = [certs EXCEPT ![CertFile[c.name]] = ""]
          /\ UNCHANGED <<fileVars, lost>>
    /\ ProcessEnds
    /\ possible' = possible \cup InFlight
    /\ UNCHANGED <<running, panicked>>

\* Reload on a nil client: the stop hook ran between the client check and the
\* lock.  Nothing recovers the panic, so the process dies.
ReloadPanics(t) ==
    /\ pc[t] = "reload" /\ ~client
    /\ ProcessEnds
    /\ panicked' = TRUE
    /\ possible' = possible \cup InFlight
    /\ UNCHANGED <<fileVars, certs, running, lost>>

\* The host comes back with fresh files and a fresh HAProxy while the service
\* is down (an ephemeral container); Redis is elsewhere and keeps its key.
ContainerReset ==
    /\ "reset" \in Faults /\ pc[Main] = "down"
    /\ block' = {} /\ rest' = NoRest /\ running' = {}
    /\ certs' = [f \in CertPaths |-> ""]
    /\ lost' = TRUE
    /\ reply' = NoReply
    /\ UNCHANGED <<pc, op, arg, configurations, before, restBefore, lockVars,
                   clientVars, serving, storeVars, possible, panicked>>

-----------------------------------------------------------------------------
Init ==
    /\ pc = [t \in Procs |-> IF t = Main THEN "down" ELSE "idle"]
    /\ op = [t \in Procs |-> ""]
    /\ arg = [t \in Procs |-> NameOnly("")]
    /\ configurations = [t \in Procs |-> {}]
    /\ before = {} /\ restBefore = NoRest /\ reply = NoReply
    /\ writer = NoProc /\ readers = {}
    /\ client = FALSE /\ fileSet = FALSE /\ serving = FALSE
    /\ store = {} /\ storeClosed = FALSE
    /\ block \in InitialBlocks /\ rest = NoRest
    /\ certs = [f \in CertPaths |-> ""]
    /\ running = Loaded(block, certs)
    /\ lost = FALSE /\ possible = {block} /\ panicked = FALSE

Call(t) ==
    \/ CreateConfiguration(t) \/ UpdateConfiguration(t) \/ DeleteConfiguration(t)
    \/ GetConfiguration(t) \/ ListConfigurations(t) \/ GetStatus(t)

Acquire(t) == Lock(t) \/ RLock(t) \/ CheckClient(t)

Step(t) ==
    \/ CreateClient(t) \/ CreateClientFails(t) \/ GetStats(t)
    \/ LoadStore(t) \/ LoadStoreFails(t) \/ LoadFile(t) \/ LoadFileFails(t)
    \/ Seed(t) \/ SeedFails(t)
    \/ EnsureCertificate(t) \/ EnsureCertificateFails(t) \/ ReadBefore(t)
    \/ WriteFile(t) \/ WriteFileFails(t)
    \/ SaveStore(t) \/ SaveStoreFails(t) \/ UndoWrite(t)
    \/ Reload(t) \/ ReloadRefused(t) \/ ReloadPanics(t)
    \/ RestoreFile(t) \/ ReloadRestored(t)

Stop == OnStop \/ GracefulStop \/ Exit

Next ==
    \/ \E t \in Procs : Call(t) \/ Acquire(t) \/ Step(t)
    \/ Boot \/ Shutdown \/ Stop \/ Crash \/ ContainerReset

Spec == Init /\ [][Next]_vars

\* Goroutines run; the mutex starves nobody.  Clients, signals and faults owe
\* nothing.
FairSpec ==
    /\ Spec
    /\ \A t \in Procs : WF_vars(Step(t)) /\ SF_vars(Acquire(t))
    /\ WF_vars(Stop)

-----------------------------------------------------------------------------
(* Correctness.  UniqueNames, Explained, SuccessMeansApplied,              *)
(* AnswersAreCurrent and ImplementsCatalogue are promises of a service     *)
(* whose writes are not cut inside a block ("torn" \notin Faults);         *)
(* SuccessHeals and StoreEditedOnce hold under every fault.                *)

\* The list a call would load next: what the clients see.
Effective == IF store # {} THEN store ELSE FileList

\* The lists that the answers given, and the calls under way, allow.
Explanations == possible \cup InFlight

Labels == {"idle", "client", "slow", "create", "stats", "lock", "rlock", "load",
           "loadFile", "seed", "certs", "write", "down", "run", "stop",
           "stopping", "drain", "exit"} \cup Written

\* Every variable has its type.
TypeOK ==
    /\ StoreTypeOK
    /\ pc \in [Procs -> Labels]
    /\ op \in [Procs -> Mutators \cup Readers \cup {"", "status", "start"}]
    /\ arg \in [Procs -> ConfigRequests \cup {NameOnly(n) : n \in RawNames}]
    /\ configurations \in [Procs -> SUBSET Config]
    /\ before \subseteq Config
    /\ reply \in [to : Procs \cup {NoProc}, code : Codes, list : SUBSET Config]
    /\ writer \in Procs \cup {NoProc} /\ readers \subseteq Procs
    /\ client \in BOOLEAN /\ fileSet \in BOOLEAN /\ serving \in BOOLEAN
    /\ block \subseteq Config /\ rest \in Rest /\ restBefore \in Rest
    /\ certs \in [CertPaths -> PEMs \cup {""}]
    /\ running \subseteq [cfg : Config, pem : PEMs \cup {""}]
    /\ lost \in BOOLEAN /\ possible \subseteq SUBSET Config
    /\ panicked \in BOOLEAN

\* However calls interleave and fail, no list that is stored, read from the
\* file, run or being persisted has two configurations of one name.
UniqueNames ==
    /\ DistinctNames(store) /\ DistinctNames(FileList) /\ DistinctNames(before)
    /\ DistinctNames(RunningList)
    /\ \A t \in Procs : DistinctNames(configurations[t])

\* The store, the file and the running HAProxy each hold a list that the
\* answers given so far explain: the last list acknowledged to a client, or
\* one of a call that failed after it wrote.  Only a file whose content was
\* lost is empty instead, and nothing but a success ends that.
Explained ==
    /\ store # {} => store \in Explanations
    /\ FileList \in Explanations \/ (lost /\ FileList = {})
    /\ RunningList \in Explanations \/ (lost /\ RunningList = {})

\* A successful call has reached the store, the file and HAProxy alike, and
\* HAProxy runs the certificate the call supplied.
IsApplied(t) ==
    /\ store' = FileList' /\ RunningList' = FileList'
    /\ op[t] = "delete" => Key(t) \notin NamesOf(FileList')
    /\ op[t] # "delete" => \E r \in running' :
          /\ r.cfg.name = Key(t) /\ r.cfg.body = arg[t].body
          /\ reply'.list = {r.cfg}
          /\ arg[t].pem # "" => r.pem = arg[t].pem
SuccessMeansApplied ==
    [][\A t \in Procs :
         reply'.to = t /\ reply'.code = "OK" /\ op[t] \in Mutators => IsApplied(t)]_vars

\* The first success after a cut write may leave remains of it in the file; a
\* success that found no open start marker leaves a file that is read back as
\* the list that store and HAProxy hold.
SuccessHeals ==
    [][\A t \in Procs :
         /\ reply'.to = t /\ reply'.code = "OK" /\ op[t] \in Mutators
         /\ ~restBefore.open
         => FileList' = store' /\ ~Undecodable' /\ RunningList' = store']_vars

\* A reader may seed the store, under the read lock and beside other readers;
\* what clients see never changes by it.
ReadersChangeNothing ==
    [][(\E t \in Procs : op[t] \in Readers /\ pc'[t] # pc[t] /\ pc'[Main] # "down")
          => Effective' = Effective]_vars

\* Answers agree with what the service holds at the moment they are given: a
\* name reported missing or existing is so, and a configuration or a non-empty
\* list that is answered is the one held.
IsCurrent(t) ==
    LET held == Matching(Effective', Key(t)) IN
    /\ reply'.code = "NotFound" => held = {}
    /\ reply'.code = "AlreadyExists" => held # {}
    /\ op[t] = "get" /\ reply'.code = "OK" => reply'.list = held
    /\ op[t] = "list" /\ reply'.list # {} => reply'.list = Effective'
AnswersAreCurrent ==
    [][\A t \in Procs : reply'.to = t /\ op[t] # "" => IsCurrent(t)]_vars

\* Inline key material never reaches the store, the file or HAProxy's view of
\* it: it is moved to a certificate file first.
KeysOnlyInFiles == \A c \in store \cup block \cup RunningList : c.pem = ""

\* The file never names a certificate file that is not there, so a reload at
\* any moment finds every certificate (unless files are torn or reset).
CertificatesInPlace ==
    \A c \in store \cup block \cup before : c.path \in CertPaths => certs[c.path] # ""

\* The stop hook never makes a call dereference a nil client.
NoPanic == ~panicked

\* Whenever no call is between its write and its answer, the file holds the
\* list that HAProxy runs: every failure path puts the file back.
FileMatchesHaproxy == InFlight = {} => block = RunningList

\* Every call is answered, or its process dies.
CallsReturn == \A t \in Callers : pc[t] # "idle" ~> pc[t] = "idle"

\* Once Fx stops, the process ends: no call keeps GracefulStop waiting.
ShutdownCompletes == pc[Main] = "stop" ~> pc[Main] = "down"

\* Documented behaviour that the code does not have (README.md of the project
\* lists the findings).

\* haproxy.go:481 speaks of a rollback: with nothing but refusals by HAProxy,
\* what clients see between two calls is what HAProxy runs.
RefusalRolledBack == InFlight = {} => Effective = RunningList

\* haproxy.go:260: DeleteConfiguration removes a configuration by name, so no
\* client is shown it any more.
DeletedIsGone ==
    [][\A t \in Procs :
         reply'.to = t /\ reply'.code = "OK" /\ op[t] = "delete"
         => Key(t) \notin NamesOf(Effective')]_vars

\* The service implements the catalogue its clients rely on: no update is lost
\* to another, and an error never makes more than its own edit uncertain.
Catalogue == INSTANCE ConfigurationCatalogue
    WITH candidates <- possible, InitialLists <- InitialBlocks
ImplementsCatalogue == Catalogue!Spec

\* Whatever fails, even a write cut in the middle of the file, a store that
\* holds a list only moves on by the edit of one call at one name: no call
\* saves a list that it loaded before another one saved, nor one of the file.
StoreEditedOnce ==
    [][store # {} /\ pc'[Main] # "down" => Catalogue!OneEdit(store, store')]_vars
=============================================================================
