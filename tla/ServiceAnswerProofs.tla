------------------------ MODULE ServiceAnswerProofs -------------------------
(***************************************************************************)
(* The answers of HaproxyService.  Whatever fails, the store moves on by   *)
(* one edit at a time, a success mends the file and a read changes nothing.*)
(* While no write is cut in the middle of a block, what the store, the file*)
(* and HAProxy hold is explained by the answers given, an answer is current*)
(* when it is given, a success has been applied everywhere, and the service*)
(* implements the catalogue that its clients rely on.                      *)
(***************************************************************************)
EXTENDS ServiceListProofs

(* Who holds the mutex, and who moves *)

\* Who is inside the persistence is alone with the mutex.
LEMMA Alone ==
    ASSUME Control, NEW t \in Procs, pc[t] \in Exclusive
    PROVE  /\ \A p \in Procs \ {t} : pc[p] \notin {"loadFile", "seed"} \cup Exclusive
           /\ pc[t] \in Written => InFlight = {configurations[t]}
           /\ pc[t] \notin Written => InFlight = {}
  <1>1. \A p \in Procs \ {t} : pc[p] \notin {"loadFile", "seed"} \cup Exclusive
    <2>1. writer = t /\ readers = {}
      BY DEF Control, Locking
    <2> QED
      BY <2>1 DEF Control, Locking, HoldsLock
  <1>2. \A p \in Procs \ {t} : pc[p] \notin Written
    BY <1>1 DEF Exclusive
  <1> QED
    BY <1>1, <1>2 DEF InFlight

\* So is, from any writer, who holds the mutex to load the list.
LEMMA NoneInFlight ==
    ASSUME Control, NEW t \in Procs, HoldsLock(t), pc[t] \notin Exclusive
    PROVE  /\ \A p \in Procs : pc[p] \notin Exclusive
           /\ InFlight = {}
  <1>1. \A p \in Procs : pc[p] \notin Exclusive
    BY DEF Control, Locking, HoldsLock
  <1> QED
    BY <1>1 DEF InFlight, Exclusive

\* Only t moves.
Moves(t) ==
    /\ pc' = [pc EXCEPT ![t] = pc'[t]] /\ op' = [op EXCEPT ![t] = op'[t]]
    /\ \A p \in Procs \ {t} : configurations'[p] = configurations[p]

\* An answer moves its call only.
LEMMA ReplyMoves ==
    ASSUME TypeInv, NEW t \in Procs, NEW code, NEW list, Reply(t, code, list)
    PROVE  Moves(t) /\ pc'[t] \in {"idle", "run", "drain"}
  BY DEF TypeInv, CallTypes, Reply, Goto, Moves

\* So does going on, with the list given.
LEMMA ContinueMoves ==
    ASSUME TypeInv, NEW t \in Procs, NEW label, NEW l, Continue(t, label, l)
    PROVE  /\ Moves(t) /\ pc'[t] = label /\ op'[t] = op[t] /\ configurations'[t] = l
  BY DEF TypeInv, CallTypes, Continue, Goto, Moves

-----------------------------------------------------------------------------
(* What a call has read is still so while it relies on it *)

\* What a call may rely on while it holds the mutex, whatever fails.
Fresh(t) ==
    /\ pc[t] \in {"loadFile", "seed"} => store = {} \/ store = FileList
    /\ pc[t] = "seed" => configurations[t] = FileList /\ FileList # {}
    /\ op[t] \in Mutators /\ pc[t] \in {"certs", "write", "save"} /\ store # {}
          => Catalogue!OneEdit(store, configurations[t])
    /\ op[t] = "start" /\ pc[t] \in Exclusive => configurations[t] = store
    /\ pc[t] = "write" => restBefore = rest
    /\ pc[t] \in {"save", "reload"} =>
          block = configurations[t] /\ (~restBefore.open => rest = NoRest)
    /\ pc[t] = "reload" => store = configurations[t]

Whole == Control /\ Lists /\ \A t \in Procs : Fresh(t)

\* An answer leaves its call with nothing to rely on.
LEMMA ReplyFresh ==
    ASSUME TypeInv, NEW t \in Procs, NEW code, NEW list, Reply(t, code, list)
    PROVE  Fresh(t)'
  <1>1. pc'[t] \in {"idle", "run", "drain"}
    BY ReplyMoves
  <1> QED
    BY <1>1 DEF Fresh, Exclusive, Written

\* Who persists is the only one to rely on anything.
LEMMA PersistOthersFresh ==
    ASSUME Control, NEW t \in Procs, pc[t] \in Exclusive, Moves(t)
    PROVE  \A p \in Procs \ {t} : Fresh(p)'
  <1>1. \A p \in Procs \ {t} : pc'[p] \notin {"loadFile", "seed"} \cup Exclusive
    BY Alone DEF Moves, Control, TypeInv, CallTypes
  <1> QED
    BY <1>1 DEF Fresh, Exclusive, Written

\* Nobody is disturbed by a step that leaves the store and the file alone, nor
\* by the seeding of the store.
LEMMA OthersFresh ==
    ASSUME Whole, NEW t \in Procs, Moves(t), UNCHANGED <<fileVars, restBefore>>,
           \/ store' = store
           \/ HoldsLock(t) /\ pc[t] \notin Exclusive /\ store' = FileList
    PROVE  \A p \in Procs \ {t} : Fresh(p)'
  <1> SUFFICES ASSUME NEW p \in Procs, p # t PROVE Fresh(p)'
    OBVIOUS
  <1>1. /\ pc'[p] = pc[p] /\ op'[p] = op[p] /\ configurations'[p] = configurations[p]
        /\ Fresh(p) /\ FileList' = FileList
    BY DEF Moves, Whole, Control, TypeInv, CallTypes, fileVars, FileList
  <1>2. CASE store' = store
    BY <1>1, <1>2 DEF Fresh, fileVars
  <1>3. CASE HoldsLock(t) /\ pc[t] \notin Exclusive /\ store' = FileList
    <2>1. pc'[p] \notin Exclusive
      BY <1>1, <1>3, NoneInFlight DEF Whole
    <2> QED
      BY <1>1, <1>3, <2>1 DEF Fresh, Exclusive, Written
  <1> QED
    BY <1>2, <1>3

\* A quiet step changes nothing that a call relies on.
LEMMA QuietFresh ==
    ASSUME Whole, NEW t \in Procs, Quiet(t)
    PROVE  \A p \in Procs : Fresh(p)'
  <1>1. Moves(t) /\ store' = store /\ UNCHANGED <<fileVars, restBefore>>
    BY DEF Quiet, Moves, Whole, Control, TypeInv, CallTypes, fileVars
  <1>2. Fresh(t)'
    BY DEF Quiet, Fresh, Exclusive, Written
  <1> QED
    BY <1>1, <1>2, OthersFresh

\* The edit of a create, update or delete changes the list at one name, even
\* if the list has a name twice.
LEMMA EditIsOne ==
    ASSUME TypeInv, NEW t \in Procs, NEW l \in SUBSET Config, op[t] \in Mutators,
           HasMatch(l, Key(t)) = (op[t] # "create")
    PROVE  Catalogue!OneEdit(l, Edited(t, l))
  <1> DEFINE r == Stored(arg[t])
             m == FirstMatch(l, Key(t))
  <1>1. op[t] \in {"create", "update"} => r.name = Key(t)
    BY StoredTypes DEF TypeInv, CallTypes, Key
  <1>2. op[t] # "create" => m \in l /\ m.name = Key(t)
    <2>1. ASSUME op[t] # "create" PROVE m \in Matching(l, Key(t))
      BY <2>1 DEF HasMatch, FirstMatch
    <2> QED
      BY <2>1, NameAssumption DEF Matching, NormalizeConfigurationName, Config
  <1> HIDE DEF r, m
  <1>3. Edited(t, l) \in {l \cup {r}, (l \ {m}) \cup {r}, l \ {m}}
    BY DEF Edited, r, m
  <1>4. CASE op[t] = "create"
    <2>1. Edited(t, l) = l \cup {r}
      BY <1>4 DEF Edited, r
    <2> QED
      BY <2>1 DEF Catalogue!OneEdit
  <1>5. CASE op[t] = "update"
    <2>1. Edited(t, l) = (l \ {m}) \cup {r}
      BY <1>5 DEF Edited, r, m
    <2> QED
      BY <1>1, <1>2, <1>5, <2>1 DEF Catalogue!OneEdit
  <1>6. CASE op[t] = "delete"
    <2>1. Edited(t, l) = l \ {m}
      BY <1>6 DEF Edited, m
    <2> QED
      BY <2>1 DEF Catalogue!OneEdit
  <1> QED
    BY <1>4, <1>5, <1>6 DEF Mutators

\* Moving the certificate of the configuration edited to its file keeps the
\* list the same edit of the same list.
LEMMA CertificateEdit ==
    ASSUME NEW k, KeyFree(k), NEW l \in SUBSET Config, Catalogue!OneEdit(k, l),
           NEW c \in l, NeedsCertificate(c)
    PROVE  Catalogue!OneEdit(k, (l \ {c}) \cup {EnsureCertificatePath(c)})
  <1>1. c \notin k
    BY DEF KeyFree, NeedsCertificate
  <1>2. EnsureCertificatePath(c).name = c.name
    BY CertificateTypes
  <1> QED
    BY <1>1, <1>2 DEF Catalogue!OneEdit

\* The decision on the list in force relies on that list.
LEMMA DecideFresh ==
    ASSUME TypeInv, NEW t \in Procs, NEW l \in SUBSET Config, Decide(t, l),
           store' = l
    PROVE  Moves(t) /\ Fresh(t)'
  <1>1. CASE \E code, list : Reply(t, code, list)
    BY <1>1, ReplyMoves, ReplyFresh
  <1>2. ASSUME NEW k, Continue(t, "certs", k), op[t] = "start" => k = l,
               op[t] \in Mutators => Catalogue!OneEdit(l, k)
        PROVE  Moves(t) /\ Fresh(t)'
    <2>1. /\ Moves(t) /\ pc'[t] = "certs" /\ op'[t] = op[t] /\ configurations'[t] = k
      BY <1>2, ContinueMoves
    <2> QED
      BY <1>2, <2>1 DEF Fresh
  <1>3. CASE op[t] = "start" /\ Continue(t, "certs", l)
    BY <1>2, <1>3 DEF Mutators
  <1>4. CASE /\ op[t] \in Mutators
             /\ HasMatch(l, Key(t)) = (op[t] # "create")
             /\ Continue(t, "certs", Edited(t, l))
    BY <1>2, <1>4, EditIsOne DEF Mutators
  <1> QED
    BY <1>1, <1>3, <1>4 DEF Decide

\* Loading the list, with the seeding of the store by a reader.
LEMMA LoadStepFresh ==
    ASSUME Whole, NEW t \in Procs,
           LoadStore(t) \/ LoadFile(t) \/ Seed(t) \/ SeedFails(t)
    PROVE  \A p \in Procs : Fresh(p)'
  <1>0. /\ TypeInv /\ Fresh(t) /\ store \in SUBSET Config /\ FileList \in SUBSET Config
        /\ "loadFile" \notin Exclusive /\ "seed" \notin Exclusive /\ {} \in SUBSET Config
    BY FileTypes DEF Whole, Control, TypeInv, HostTypes, StoreTypeOK, Written, Exclusive
  <1>1. UNCHANGED <<fileVars, restBefore>> /\ FileList' = FileList
    BY DEF LoadStore, LoadList, LoadFile, Seed, SeedFails, fileVars, hostVars, FileList
  <1>2. CASE LoadStore(t)
    <2>1. store' = store
      BY <1>2 DEF LoadStore, LoadList, storeVars
    <2>2. CASE Decide(t, store)
      BY <1>0, <1>1, <2>1, <2>2, DecideFresh, OthersFresh
    <2>3. CASE Reply(t, "OK", {})
      BY <1>0, <1>1, <2>1, <2>3, ReplyMoves, ReplyFresh, OthersFresh
    <2>4. CASE store = {} /\ Continue(t, "loadFile", {})
      <3>1. Moves(t) /\ pc'[t] = "loadFile"
        BY <1>0, <2>4, ContinueMoves
      <3>2. Fresh(t)'
        BY <1>0, <2>1, <2>4, <3>1 DEF Fresh
      <3> QED
        BY <1>1, <2>1, <3>1, <3>2, OthersFresh
    <2> QED
      BY <1>2, <2>2, <2>3, <2>4 DEF LoadStore, LoadList
  <1>3. CASE LoadFile(t)
    <2>1. store' = store /\ pc[t] = "loadFile" /\ (store = {} \/ store = FileList)
      BY <1>0, <1>3 DEF LoadFile, storeVars, Fresh
    <2>2. CASE FileList = {} /\ Decide(t, {})
      BY <1>0, <1>1, <2>1, <2>2, DecideFresh, OthersFresh
    <2>3. CASE FileList # {} /\ Continue(t, "seed", FileList)
      <3>1. Moves(t) /\ pc'[t] = "seed" /\ configurations'[t] = FileList
        BY <1>0, <2>3, ContinueMoves
      <3>2. Fresh(t)'
        BY <1>0, <1>1, <2>1, <2>3, <3>1 DEF Fresh
      <3> QED
        BY <1>1, <2>1, <3>1, <3>2, OthersFresh
    <2> QED
      BY <1>3, <2>2, <2>3 DEF LoadFile
  <1>4. CASE Seed(t) \/ SeedFails(t)
    <2>1. /\ pc[t] = "seed" /\ configurations[t] = FileList
          /\ store' \in {store, FileList}
      BY <1>0, <1>4 DEF Seed, SeedFails, SaveSucceeds, SaveFails, Fresh
    <2>2. HoldsLock(t) /\ pc[t] \notin Exclusive
      BY <1>0, <2>1 DEF Whole, Control, Locking
    <2>3. Moves(t) /\ Fresh(t)'
      <3>1. CASE \E code, list : Reply(t, code, list)
        BY <1>0, <3>1, ReplyMoves, ReplyFresh
      <3>2. CASE Seed(t)
        <4>1. store' = FileList /\ Decide(t, FileList)
          BY <2>1, <3>2 DEF Seed, SaveSucceeds
        <4> QED
          BY <1>0, <4>1, DecideFresh
      <3> QED
        BY <1>4, <3>1, <3>2 DEF SeedFails, LoadError
    <2> QED
      BY <1>1, <2>1, <2>2, <2>3, OthersFresh
  <1> QED
    BY <1>2, <1>3, <1>4

\* The persistence relies on what it alone has changed.
LEMMA PersistStepFresh ==
    ASSUME Whole, NEW t \in Procs,
           \/ EnsureCertificate(t) \/ EnsureCertificateFails(t) \/ ReadBefore(t)
           \/ WriteFile(t) \/ WriteFileFails(t)
           \/ SaveStore(t) \/ SaveStoreFails(t) \/ UndoWrite(t)
           \/ Reload(t) \/ ReloadRefused(t) \/ RestoreFile(t) \/ ReloadRestored(t)
    PROVE  \A p \in Procs : Fresh(p)'
  <1>0. /\ TypeInv /\ Control /\ Fresh(t) /\ pc[t] \in Exclusive
        /\ configurations[t] \in SUBSET Config /\ KeyFree(store)
        /\ op[t] \in Mutators \/ op[t] = "start"
    BY DEF EnsureCertificate, MoveCertificate, EnsureCertificateFails, WritesCertificate,
       ReadBefore, KeepFile, WriteFile, WriteBehind, WriteFileFails, SaveStore, SaveStoreFails,
       UndoWrite, UndoTo, Reload, Acknowledge, ReloadRefused, RestoreFile, ReloadRestored,
       Exclusive, Written, Whole, Control, TypeInv, CallTypes, Order, Lists, Clean
  <1>1. CASE \E code, list : Reply(t, code, list)
    BY <1>0, <1>1, ReplyMoves, ReplyFresh, PersistOthersFresh
  <1>2. ASSUME NEW label, NEW l, Continue(t, label, l), Fresh(t)' PROVE \A p \in Procs : Fresh(p)'
    BY <1>0, <1>2, ContinueMoves, PersistOthersFresh
  <1>3. CASE EnsureCertificate(t)
    <2>1. PICK c \in configurations[t] :
             /\ NeedsCertificate(c) /\ pc[t] = "certs" /\ store' = store
             /\ Continue(t, "certs", (configurations[t] \ {c}) \cup {EnsureCertificatePath(c)})
      BY <1>3 DEF EnsureCertificate, MoveCertificate, WritesCertificate, storeVars
    <2>2. PICK l : l = (configurations[t] \ {c}) \cup {EnsureCertificatePath(c)}
      OBVIOUS
    <2>3. pc'[t] = "certs" /\ op'[t] = op[t] /\ configurations'[t] = l
      BY <1>0, <2>1, <2>2, ContinueMoves
    <2>4. op[t] # "start"
      <3>1. op[t] = "start" => c \in store
        BY <1>0, <2>1 DEF Fresh
      <3> QED
        BY <1>0, <2>1, <3>1 DEF KeyFree, NeedsCertificate
    <2>5. op[t] \in Mutators /\ store # {} => Catalogue!OneEdit(store, l)
      BY <1>0, <2>1, <2>2, CertificateEdit DEF Fresh
    <2>6. Fresh(t)'
      BY <2>1, <2>3, <2>4, <2>5 DEF Fresh
    <2> QED
      BY <1>2, <2>1, <2>2, <2>6
  <1>4. CASE ReadBefore(t) /\ restBefore' = rest /\ Continue(t, "write", configurations[t])
    <2>1. /\ pc'[t] = "write" /\ op'[t] = op[t] /\ configurations'[t] = configurations[t]
          /\ pc[t] = "certs" /\ store' = store /\ rest' = rest
      BY <1>0, <1>4, ContinueMoves DEF ReadBefore, KeepFile, storeVars, fileVars
    <2>2. Fresh(t)'
      BY <1>0, <1>4, <2>1 DEF Fresh
    <2> QED
      BY <1>2, <1>4, <2>2
  <1>5. CASE WriteFile(t)
    <2>1. PICK label \in {"reload", "save"} :
             /\ Continue(t, label, configurations[t])
             /\ label = "reload" <=> op[t] = "start"
      BY <1>5 DEF WriteFile, WriteBehind
    <2>2. /\ pc'[t] = label /\ op'[t] = op[t] /\ configurations'[t] = configurations[t]
      BY <1>0, <2>1, ContinueMoves
    <2>3. /\ pc[t] = "write" /\ block' = configurations[t] /\ rest' = MergedRest
          /\ UNCHANGED <<store, restBefore>>
      BY <1>5 DEF WriteFile, WriteBehind, storeVars
    <2>4. ~restBefore.open => rest' = NoRest
      BY <1>0, <2>3 DEF Fresh, MergedRest
    <2>5. Fresh(t)'
      BY <1>0, <2>1, <2>2, <2>3, <2>4 DEF Fresh
    <2> QED
      BY <1>2, <2>1, <2>5
  <1>6. CASE SaveStore(t) \/ SaveStoreFails(t)
    <2>1. PICK label \in {"reload", "undo"} :
             /\ Continue(t, label, configurations[t])
             /\ label = "reload" => store' = configurations[t]
      BY <1>6 DEF SaveStore, SaveStoreFails, SaveSucceeds
    <2>2. /\ pc'[t] = label /\ op'[t] = op[t] /\ configurations'[t] = configurations[t]
          /\ pc[t] = "save" /\ UNCHANGED <<block, rest, restBefore>>
      BY <1>0, <1>6, <2>1, ContinueMoves DEF SaveStore, SaveStoreFails, fileVars, hostVars
    <2>3. op[t] # "start"
      BY <1>0, <2>2 DEF Control, Order, Mutators
    <2>4. Fresh(t)'
      BY <1>0, <2>1, <2>2, <2>3 DEF Fresh
    <2> QED
      BY <1>2, <2>1, <2>4
  <1>7. CASE ReloadRefused(t) \/ RestoreFile(t)
    <2>1. PICK label \in {"restore", "rereload"} : Continue(t, label, configurations[t])
      BY <1>7 DEF ReloadRefused, RestoreFile
    <2>2. /\ pc'[t] = label /\ op'[t] = op[t] /\ configurations'[t] = configurations[t]
          /\ store' = store
      BY <1>0, <1>7, <2>1, ContinueMoves DEF ReloadRefused, RestoreFile, storeVars
    <2>3. Fresh(t)'
      BY <1>0, <2>1, <2>2 DEF Fresh
    <2> QED
      BY <1>2, <2>1, <2>3
  <1>8. CASE \/ EnsureCertificateFails(t) \/ WriteFileFails(t) \/ UndoWrite(t)
             \/ Reload(t) \/ ReloadRestored(t)
    BY <1>1, <1>8 DEF EnsureCertificateFails, WriteFileFails, UndoWrite, UndoTo, Reload,
       Acknowledge, ReloadRestored
  <1> QED
    BY <1>1, <1>3, <1>4, <1>5, <1>6, <1>7, <1>8 DEF ReadBefore, KeepFile

\* No process relies on anything once the process has ended or is down.
LEMMA LifecycleFresh ==
    ASSUME Whole,
           \/ Boot \/ Shutdown \/ Stop \/ Crash \/ ContainerReset
           \/ \E t \in Procs : ReloadPanics(t)
    PROVE  \A p \in Procs : Fresh(p)'
  <1>0. Main \in Procs /\ TypeInv
    BY DEF Procs, Whole, Control
  <1>1. CASE Boot \/ Shutdown \/ OnStop \/ GracefulStop
    BY <1>0, <1>1, LifecycleIsQuiet, QuietFresh
  <1>2. CASE Exit \/ Crash \/ \E t \in Procs : ReloadPanics(t)
    <2>1. ProcessEnds
      BY <1>2 DEF Exit, Crash, ReloadPanics
    <2>2. \A p \in Procs : pc'[p] \in {"down", "idle"}
      BY <2>1 DEF ProcessEnds
    <2> QED
      BY <2>2 DEF Fresh, Exclusive, Written
  <1>3. CASE ContainerReset
    <2>1. pc' = pc /\ pc[Main] = "down"
      BY <1>3 DEF ContainerReset
    <2>2. \A p \in Procs : pc[p] \in {"idle", "down"}
      BY <2>1 DEF Whole, Control, Order
    <2> QED
      BY <2>1, <2>2 DEF Fresh, Exclusive, Written
  <1> QED
    BY <1>1, <1>2, <1>3 DEF Stop

\* Nothing is relied on at first.
LEMMA WholeInit == Init => Whole
  <1>1. Init => \A t \in Procs : Fresh(t)
    BY DEF Init, Fresh, Exclusive, Written
  <1> QED
    BY <1>1, ControlInit, ListsInit DEF Whole

\* And every step of the system keeps Whole.
LEMMA WholeNext == Whole /\ [Next]_vars => Whole'
  <1> SUFFICES ASSUME Whole, [Next]_vars PROVE \A p \in Procs : Fresh(p)'
    BY ControlNext, ListsNext DEF Whole
  <1>1. CASE UNCHANGED vars
    BY <1>1 DEF vars, callVars, storeVars, fileVars, hostVars, Whole, Fresh, FileList,
       Catalogue!OneEdit
  <1>2. ASSUME NEW t \in Procs, Call(t) \/ Acquire(t) \/ Step(t)
        PROVE  \A p \in Procs : Fresh(p)'
    <2>1. CASE Quiet(t)
      BY <2>1, QuietFresh
    <2> QED
      BY <1>2, <2>1, CallsAreQuiet, MovesAreQuiet, LoadStepFresh, PersistStepFresh,
         LifecycleFresh DEF Step, Whole, Control
  <1>3. CASE Boot \/ Shutdown \/ Stop \/ Crash \/ ContainerReset
    BY <1>3, LifecycleFresh
  <1> QED
    BY <1>1, <1>2, <1>3 DEF Next

\* So it holds in every reachable state.
LEMMA AlwaysWhole == Spec => []Whole
  BY WholeInit, WholeNext, PTL DEF Spec

-----------------------------------------------------------------------------
(* The store moves on by one edit at a time *)

\* A store that holds a list is saved by seeding, which changes nothing, or by
\* the persistence of one edit of it.
LEMMA StoreStep ==
    ASSUME Whole, NEW t \in Procs, Call(t) \/ Acquire(t) \/ Step(t), ~ReloadPanics(t),
           store # {}
    PROVE  Catalogue!OneEdit(store, store')
  <1>1. store' = store => Catalogue!OneEdit(store, store')
    BY DEF Catalogue!OneEdit
  <1>2. Fresh(t)
    BY DEF Whole
  <1>3. CASE Seed(t) \/ SeedFails(t)
    <2>1. pc[t] = "seed" /\ store' \in {store, configurations[t]}
      BY <1>3 DEF Seed, SeedFails, SaveSucceeds, SaveFails
    <2> QED
      BY <1>1, <1>2, <2>1 DEF Fresh
  <1>4. CASE SaveStore(t) \/ SaveStoreFails(t)
    <2>1. pc[t] = "save" /\ store' \in {store, configurations[t]}
      BY <1>4 DEF SaveStore, SaveStoreFails, SaveSucceeds, SaveFails
    <2>2. op[t] \in Mutators
      BY <2>1 DEF Whole, Control, Order
    <2> QED
      BY <1>1, <1>2, <2>1, <2>2 DEF Fresh
  <1>5. CASE \/ Call(t) \/ Acquire(t)
             \/ CreateClient(t) \/ CreateClientFails(t) \/ GetStats(t)
             \/ LoadStoreFails(t) \/ LoadFileFails(t)
    <2>1. Quiet(t)
      BY <1>5, CallsAreQuiet, MovesAreQuiet DEF Whole, Control
    <2> QED
      BY <1>1, <2>1 DEF Quiet
  <1>6. CASE \/ LoadStore(t) \/ LoadFile(t)
             \/ EnsureCertificate(t) \/ EnsureCertificateFails(t) \/ ReadBefore(t)
             \/ WriteFile(t) \/ WriteFileFails(t) \/ UndoWrite(t)
             \/ Reload(t) \/ ReloadRefused(t) \/ RestoreFile(t) \/ ReloadRestored(t)
    <2>1. store' = store
      BY <1>6 DEF LoadStore, LoadList, LoadFile, EnsureCertificate, MoveCertificate,
         EnsureCertificateFails, ReadBefore, KeepFile, WriteFile, WriteBehind, WriteFileFails,
         UndoWrite, UndoTo, Reload, Acknowledge, ReloadRefused, RestoreFile, ReloadRestored,
         storeVars
    <2> QED
      BY <1>1, <2>1
  <1> QED
    BY <1>3, <1>4, <1>5, <1>6 DEF Step

\* Under any faults, even a write cut in the middle of the file, every save of
\* persistAndReload and of a seeding changes a list in the store at one name at
\* most: it never saves what was loaded before the save of another call, and
\* never a list of the file over another list.
THEOREM StoreMovesByOneEdit == Spec => StoreEditedOnce
  <1> DEFINE A == store # {} /\ pc'[Main] # "down" => Catalogue!OneEdit(store, store')
  <1>1. Whole /\ [Next]_vars => [A]_vars
    <2> SUFFICES ASSUME Whole, Next, store # {}, pc'[Main] # "down"
                 PROVE  Catalogue!OneEdit(store, store')
      OBVIOUS
    <2>1. ~ProcessEnds
      BY DEF ProcessEnds, Procs
    <2>2. ASSUME NEW t \in Procs, Call(t) \/ Acquire(t) \/ Step(t)
          PROVE  Catalogue!OneEdit(store, store')
      BY <2>1, <2>2, StoreStep DEF ReloadPanics
    <2>3. CASE Boot \/ Shutdown \/ OnStop \/ GracefulStop
      <3>1. store' = store
        BY <2>3 DEF Boot, Shutdown, OnStop, CloseStore, GracefulStop, Drain, storeVars
      <3> QED
        BY <3>1 DEF Catalogue!OneEdit
    <2>4. ~(Exit \/ Crash \/ ContainerReset)
      BY <2>1 DEF Exit, Crash, ContainerReset
    <2> QED
      BY <2>2, <2>3, <2>4 DEF Next, Stop
  <1>2. []Whole /\ [][Next]_vars => [][A]_vars
    BY <1>1, PTL
  <1> QED
    BY <1>2, AlwaysWhole, PTL DEF Spec, StoreEditedOnce

-----------------------------------------------------------------------------
(* A read changes nothing that clients see *)

\* A step of a reader keeps the list that clients see.
LEMMA ReadStep ==
    ASSUME Whole, NEW t \in Procs, Call(t) \/ Acquire(t) \/ Step(t), ~ReloadPanics(t),
           NEW r \in Procs, op[r] \in Readers, pc'[r] # pc[r]
    PROVE  Effective' = Effective
  <1>0. TypeInv /\ (UNCHANGED fileVars => FileList' = FileList)
    BY DEF Whole, Control, fileVars, FileList
  <1>1. CASE Quiet(t)
    BY <1>0, <1>1 DEF Quiet, fileVars, Effective
  <1>2. CASE \/ Call(t) \/ Acquire(t)
             \/ CreateClient(t) \/ CreateClientFails(t) \/ GetStats(t)
             \/ LoadStoreFails(t) \/ LoadFileFails(t)
    BY <1>0, <1>1, <1>2, CallsAreQuiet, MovesAreQuiet
  <1>3. CASE LoadStore(t) \/ LoadFile(t)
    BY <1>0, <1>3 DEF LoadStore, LoadList, LoadFile, storeVars, hostVars, Effective
  <1>4. CASE Seed(t) \/ SeedFails(t)
    <2>1. pc[t] = "seed" /\ store' \in {store, configurations[t]} /\ FileList' = FileList
      BY <1>0, <1>4 DEF Seed, SeedFails, SaveSucceeds, SaveFails, hostVars
    <2>2. configurations[t] = FileList /\ (store = {} \/ store = FileList)
      BY <2>1 DEF Whole, Fresh
    <2> QED
      BY <2>1, <2>2 DEF Effective
  <1>5. CASE \/ EnsureCertificate(t) \/ EnsureCertificateFails(t) \/ ReadBefore(t)
             \/ WriteFile(t) \/ WriteFileFails(t)
             \/ SaveStore(t) \/ SaveStoreFails(t) \/ UndoWrite(t)
             \/ Reload(t) \/ ReloadRefused(t) \/ RestoreFile(t) \/ ReloadRestored(t)
    <2>1. pc[t] \in Exclusive
      BY <1>5 DEF EnsureCertificate, MoveCertificate, EnsureCertificateFails,
         WritesCertificate, ReadBefore, KeepFile, WriteFile, WriteBehind, WriteFileFails,
         SaveStore, SaveStoreFails, UndoWrite, UndoTo, Reload, Acknowledge, ReloadRefused,
         RestoreFile, ReloadRestored, Exclusive, Written
    <2>2. op[t] \notin Readers
      BY <2>1 DEF Whole, Control, Order, Mutators, Readers
    <2>3. \/ \E code, list : Reply(t, code, list)
          \/ \E label, l : Continue(t, label, l)
      BY <1>5 DEF EnsureCertificate, MoveCertificate, EnsureCertificateFails, ReadBefore,
         KeepFile, WriteFile, WriteBehind, WriteFileFails, SaveStore, SaveStoreFails, UndoWrite,
         UndoTo, Reload, Acknowledge, ReloadRefused, RestoreFile, ReloadRestored
    <2>4. Moves(t)
      BY <1>0, <2>3, ReplyMoves, ContinueMoves
    <2>5. pc'[r] = pc[r] \/ r = t
      BY <1>0, <2>4 DEF Moves, TypeInv, CallTypes
    <2> QED
      BY <2>2, <2>5
  <1> QED
    BY <1>2, <1>3, <1>4, <1>5 DEF Step

\* ListConfigurations and GetConfiguration may save the managed block of the
\* file to the store, under the read lock and beside other readers: what
\* clients see is the same before and after.
THEOREM ReadsAreInvisible == Spec => ReadersChangeNothing
  <1> DEFINE A == (\E t \in Procs : op[t] \in Readers /\ pc'[t] # pc[t] /\ pc'[Main] # "down")
                     => Effective' = Effective
  <1>1. Whole /\ [Next]_vars => [A]_vars
    <2> SUFFICES ASSUME Whole, Next,
                        NEW r \in Procs, op[r] \in Readers, pc'[r] # pc[r], pc'[Main] # "down"
                 PROVE  Effective' = Effective
      OBVIOUS
    <2>0. Main \in Procs
      BY DEF Procs
    <2>1. ~ProcessEnds
      BY <2>0 DEF ProcessEnds
    <2>2. ASSUME NEW t \in Procs, Call(t) \/ Acquire(t) \/ Step(t) PROVE Effective' = Effective
      BY <2>1, <2>2, ReadStep DEF ReloadPanics
    <2>3. CASE Boot \/ Shutdown \/ OnStop \/ GracefulStop
      BY <2>3 DEF Boot, Shutdown, OnStop, CloseStore, GracefulStop, Drain, storeVars, fileVars,
         hostVars, FileList, Effective
    <2>4. CASE Exit \/ Crash \/ ContainerReset
      BY <2>1, <2>4 DEF Exit, Crash, ContainerReset
    <2> QED
      BY <2>2, <2>3, <2>4 DEF Next, Stop
  <1>2. []Whole /\ [][Next]_vars => [][A]_vars
    BY <1>1, PTL
  <1> QED
    BY <1>2, AlwaysWhole, PTL DEF Spec, ReadersChangeNothing

-----------------------------------------------------------------------------
(* Who answers, and which answers claim nothing about a list *)

\* What an answer says, and that going on says nothing.
LEMMA ReplyFields ==
    ASSUME NEW t, NEW code, NEW list, Reply(t, code, list)
    PROVE  reply'.to = t /\ reply'.code = code /\ reply'.list = list
  <1>1. reply' = [to |-> t, code |-> code, list |-> list]
    BY DEF Reply
  <1> QED
    BY <1>1

\* Going on to another label is no answer.
LEMMA SaysNothing ==
    ASSUME NEW t \in Procs, reply'.to = t
    PROVE  reply' # NoReply /\ \A label, l : ~Continue(t, label, l)
  <1>0. NoReply.to \notin Procs
    BY ProcAssumption DEF NoReply
  <1>1. reply' # NoReply
    BY <1>0
  <1>2. ASSUME NEW label, NEW l, Continue(t, label, l) PROVE reply' = NoReply
    BY <1>2 DEF Continue
  <1> QED
    BY <1>1, <1>2

\* Only the process that takes a step is answered by it, and the lifecycle
\* answers nobody.
LEMMA OneAnswer ==
    ASSUME NEW p \in Procs, reply'.to = p, Next
    PROVE  Call(p) \/ Acquire(p) \/ Step(p)
  <1>0. NoReply.to \notin Procs
    BY ProcAssumption DEF NoReply
  <1>1. ASSUME Boot \/ Shutdown \/ Stop \/ Crash \/ ContainerReset PROVE FALSE
    BY <1>0, <1>1 DEF Boot, Enter, Shutdown, Stop, OnStop, GracefulStop, Drain, Exit, Crash,
       ProcessEnds, ContainerReset
  <1>2. PICK t \in Procs : Call(t) \/ Acquire(t) \/ Step(t)
    BY <1>1 DEF Next
  <1>3. reply' = NoReply \/ reply'.to = t
    <2>1. ASSUME NEW code, NEW list, Reply(t, code, list) PROVE reply'.to = t
      BY <2>1 DEF Reply
    <2>2. ASSUME NEW label, NEW l, Continue(t, label, l) PROVE reply' = NoReply
      BY <2>2 DEF Continue
    <2>3. WithClient(t) => reply' = NoReply \/ reply'.to = t
      BY <2>1 DEF WithClient
    <2>4. ASSUME NEW l, Decide(t, l) PROVE reply' = NoReply \/ reply'.to = t
      <3>1. \/ \E code, list : Reply(t, code, list)
            \/ \E label, k : Continue(t, label, k)
        BY <2>4 DEF Decide
      <3> QED
        BY <2>1, <2>2, <3>1
    <2>5. LoadError(t) => reply'.to = t
      BY <2>1 DEF LoadError
    <2>6. CASE Call(t)
      <3>1. Refuse(t) \/ \E o, a, label : Enter(t, o, a, label)
        BY <2>6 DEF Call, CreateConfiguration, UpdateConfiguration, DeleteConfiguration,
           GetConfiguration, ListConfigurations, GetStatus, Submit
      <3> QED
        BY <3>1 DEF Refuse, Enter
    <2>7. CASE Acquire(t)
      BY <2>3, <2>7 DEF Acquire, Lock, LockWhen, RLock, RLockWhen, CheckClient
    <2>8. CASE CreateClient(t) \/ CreateClientFails(t) \/ GetStats(t)
      BY <2>1, <2>3, <2>8 DEF CreateClient, CreateClientFails, GetStats
    <2>9. CASE \/ LoadStore(t) \/ LoadStoreFails(t) \/ LoadFile(t) \/ LoadFileFails(t)
               \/ Seed(t) \/ SeedFails(t)
      BY <2>1, <2>2, <2>4, <2>5, <2>9 DEF LoadStore, LoadList, LoadStoreFails, LoadFile,
         LoadFileFails, Seed, SeedFails
    <2>10. CASE ReloadPanics(t)
      BY <2>10 DEF ReloadPanics, ProcessEnds
    <2>11. CASE \/ EnsureCertificate(t) \/ EnsureCertificateFails(t) \/ ReadBefore(t)
                \/ WriteFile(t) \/ WriteFileFails(t)
                \/ SaveStore(t) \/ SaveStoreFails(t) \/ UndoWrite(t)
                \/ Reload(t) \/ ReloadRefused(t) \/ RestoreFile(t) \/ ReloadRestored(t)
      <3>1. \/ \E code, list : Reply(t, code, list)
            \/ \E label, k : Continue(t, label, k)
        BY <2>11 DEF EnsureCertificate, MoveCertificate, EnsureCertificateFails, ReadBefore,
           KeepFile, WriteFile, WriteBehind, WriteFileFails, SaveStore, SaveStoreFails, UndoWrite,
           UndoTo, Reload, Acknowledge, ReloadRefused, RestoreFile, ReloadRestored
      <3> QED
        BY <2>1, <2>2, <3>1
    <2> QED
      BY <1>2, <2>6, <2>7, <2>8, <2>9, <2>10, <2>11 DEF Step
  <1>4. p = t
    BY <1>0, <1>3
  <1> QED
    BY <1>2, <1>4

\* An answer that claims nothing of the list in force.
Unassuming(t) ==
    /\ reply'.code \notin {"NotFound", "AlreadyExists"}
    /\ reply'.code = "OK" => op[t] \notin Mutators \cup {"get"}
    /\ op[t] = "list" => reply'.list = {}

\* Refusals, failures, the status and failed loads are such answers.
LEMMA OtherAnswers ==
    ASSUME Control, NEW t \in Procs, Call(t) \/ Acquire(t) \/ Step(t), reply'.to = t,
           ~LoadStore(t), ~LoadFile(t), ~Seed(t), ~Reload(t)
    PROVE  Unassuming(t)
  <1>0. reply' # NoReply /\ \A label, l : ~Continue(t, label, l)
    BY SaysNothing
  <1>1. ASSUME NEW code \in {"InvalidArgument", "Internal", "Unknown"}, Reply(t, code, {})
        PROVE  Unassuming(t)
    BY <1>1, ReplyFields DEF Unassuming
  <1>3. WithClient(t) => Unassuming(t)
    BY <1>0, <1>1 DEF WithClient
  <1>4. LoadError(t) => Unassuming(t)
    <2>1. CASE op[t] = "list" /\ Reply(t, "OK", {})
      BY <2>1, ReplyFields DEF Unassuming, Mutators
    <2> QED
      BY <1>1, <2>1 DEF LoadError
  <1>5. CASE Call(t)
    <2>1. Refuse(t) \/ \E o, a, label : Enter(t, o, a, label)
      BY <1>5 DEF Call, CreateConfiguration, UpdateConfiguration, DeleteConfiguration,
         GetConfiguration, ListConfigurations, GetStatus, Submit
    <2>2. Refuse(t)
      BY <1>0, <2>1 DEF Enter
    <2>3. reply' = [to |-> t, code |-> "InvalidArgument", list |-> {}]
      BY <2>2 DEF Refuse
    <2> QED
      BY <2>3 DEF Unassuming
  <1>6. CASE Acquire(t)
    BY <1>0, <1>3, <1>6 DEF Acquire, Lock, LockWhen, RLock, RLockWhen, CheckClient
  <1>7. CASE CreateClient(t) \/ CreateClientFails(t)
    BY <1>1, <1>3, <1>7 DEF CreateClient, CreateClientFails, FailCode
  <1>8. CASE GetStats(t)
    <2>1. op[t] = "status"
      BY <1>8 DEF GetStats, Control, Order
    <2>2. Reply(t, "OK", {}) \/ Reply(t, "Unknown", {})
      BY <1>8, <2>1 DEF GetStats, FailCode
    <2> QED
      BY <1>1, <2>1, <2>2, ReplyFields DEF Unassuming, Mutators
  <1>9. CASE LoadStoreFails(t) \/ LoadFileFails(t) \/ SeedFails(t)
    BY <1>4, <1>9 DEF LoadStoreFails, LoadFileFails, SeedFails
  <1>10. CASE ReloadPanics(t)
    BY <1>0, <1>10 DEF ReloadPanics, ProcessEnds
  <1>11. CASE \/ EnsureCertificate(t) \/ EnsureCertificateFails(t) \/ ReadBefore(t)
              \/ WriteFile(t) \/ WriteFileFails(t)
              \/ SaveStore(t) \/ SaveStoreFails(t) \/ UndoWrite(t)
              \/ ReloadRefused(t) \/ RestoreFile(t) \/ ReloadRestored(t)
    <2>1. Reply(t, "Internal", {}) \/ \E label, l : Continue(t, label, l)
      BY <1>11 DEF EnsureCertificate, MoveCertificate, EnsureCertificateFails, ReadBefore,
         KeepFile, WriteFile, WriteBehind, WriteFileFails, SaveStore, SaveStoreFails, UndoWrite,
         UndoTo, ReloadRefused, RestoreFile, ReloadRestored
    <2> QED
      BY <1>0, <1>1, <2>1
  <1> QED
    BY <1>5, <1>6, <1>7, <1>8, <1>9, <1>10, <1>11 DEF Step

\* Nor is the answer to what was loaded a success of a create, update or delete.
LEMMA LoadAnswersNoSuccess ==
    ASSUME NEW t \in Procs, LoadStore(t) \/ LoadFile(t) \/ Seed(t), reply'.to = t,
           reply'.code = "OK"
    PROVE  op[t] \notin Mutators
  <1>0. \A label, l : ~Continue(t, label, l)
    BY SaysNothing
  <1>1. ASSUME NEW l, Decide(t, l) PROVE op[t] \notin Mutators
    <2>1. CASE op[t] \in {"list", "get"}
      BY <2>1 DEF Mutators
    <2>2. ASSUME NEW code \in {"NotFound", "AlreadyExists"}, Reply(t, code, {}) PROVE FALSE
      BY <2>2, ReplyFields
    <2> QED
      BY <1>0, <1>1, <2>1, <2>2 DEF Decide
  <1>2. op[t] = "start" => op[t] \notin Mutators
    BY DEF Mutators
  <1> QED
    BY <1>0, <1>1, <1>2 DEF LoadStore, LoadList, LoadFile, Seed

\* So it is a reload that answers one.
LEMMA SuccessIsReload ==
    ASSUME Control, Next, NEW t \in Procs, reply'.to = t, reply'.code = "OK", op[t] \in Mutators
    PROVE  Reload(t)
  <1>1. Call(t) \/ Acquire(t) \/ Step(t)
    BY OneAnswer
  <1>2. ~Unassuming(t)
    BY DEF Unassuming
  <1> QED
    BY <1>1, <1>2, LoadAnswersNoSuccess, OtherAnswers

-----------------------------------------------------------------------------
(* A success mends the file *)

\* Whatever writes were cut before, the merge closes an open start marker with
\* the first write that goes through, and the next success leaves a file that
\* is read back as the list that the store and HAProxy hold.
THEOREM SuccessMendsFile == Spec => SuccessHeals
  <1> DEFINE B(t) == /\ reply'.to = t /\ reply'.code = "OK" /\ op[t] \in Mutators
                     /\ ~restBefore.open
                     => FileList' = store' /\ ~Undecodable' /\ RunningList' = store'
             A == \A t \in Procs : B(t)
  <1>1. Whole /\ [Next]_vars => [A]_vars
    <2> SUFFICES ASSUME Whole, Next,
                        NEW t \in Procs, reply'.to = t, reply'.code = "OK", op[t] \in Mutators,
                        ~restBefore.open
                 PROVE  FileList' = store' /\ ~Undecodable' /\ RunningList' = store'
      OBVIOUS
    <2>1. Reload(t)
      BY SuccessIsReload DEF Whole
    <2>2. pc[t] = "reload" /\ ReloadSucceeds /\ UNCHANGED <<store, block, rest>>
      BY <2>1 DEF Reload, Acknowledge, storeVars, fileVars
    <2>3. store = block /\ rest = NoRest
      BY <2>2 DEF Whole, Fresh
    <2>4. NoRest.entries = {} /\ NoRest.open = FALSE /\ NoRest.corrupt = FALSE
      BY DEF NoRest
    <2>5. RunningList' = block
      <3>1. \E left \in SUBSET rest.entries : RunningList' = block \cup left
        BY <2>2, ReloadRuns DEF Whole, Control
      <3> QED
        BY <2>3, <2>4, <3>1
    <2> QED
      BY <2>2, <2>3, <2>4, <2>5 DEF FileList, Undecodable
  <1>2. []Whole /\ [][Next]_vars => [][A]_vars
    BY <1>1, PTL
  <1> QED
    BY <1>2, AlwaysWhole, PTL DEF Spec, SuccessHeals

-----------------------------------------------------------------------------
(* While no write is cut in the middle of a block, the store, the file and *)
(* HAProxy are explained by the answers given                              *)

\* What a call knows of the lists that the answers given allow.
Knows(t) ==
    /\ op[t] = "start" /\ pc[t] \in Exclusive => configurations[t] \in possible
    /\ pc[t] \in {"write"} \cup Written => before \in possible \/ (lost /\ before = {})

Known == \A t \in Procs : Knows(t)

\* Explained, of the block that was written.
Accounted ==
    /\ store # {} => store \in Explanations
    /\ block \in Explanations \/ (lost /\ block = {})
    /\ RunningList \in Explanations \/ (lost /\ RunningList = {})

Durable ==
    /\ "torn" \notin Faults
    /\ Control /\ Lists /\ (\A t \in Procs : Fresh(t)) /\ Known /\ Accounted

\* Nothing is left in the file beside the block that was written.
LEMMA Uncut ==
    ASSUME Durable
    PROVE  /\ Whole /\ rest = NoRest /\ FileList = block
           /\ ReloadSucceeds => RunningList' = block
           /\ ReloadFails => RunningList' \in {RunningList, block}
           /\ \A l, left : FileWriteFails(l, left) =>
                 \/ UNCHANGED <<block, lost>>
                 \/ block' = {} /\ lost'
  <1>1. Whole /\ rest = NoRest /\ FileList = block
    BY CleanFacts, HeldFacts DEF Durable, Whole, Lists
  <1>2. ReloadSucceeds => RunningList' = block
    <2>1. rest.entries = {}
      BY <1>1 DEF NoRest
    <2>2. ReloadSucceeds => \E left \in SUBSET rest.entries : RunningList' = block \cup left
      BY ReloadRuns DEF Durable, Control
    <2> QED
      BY <2>1, <2>2
  <1>3. ReloadFails => RunningList' = RunningList \/ ReloadSucceeds
    BY ReloadRuns DEF Durable, Control
  <1> QED
    BY <1>1, <1>2, <1>3 DEF FileWriteFails, WriteStops, fileVars

\* A step outside the persistence leaves the lists in flight alone.
LEMMA SameInFlight ==
    ASSUME TypeInv, NEW t \in Procs, pc[t] \notin Written, pc' = [pc EXCEPT ![t] = pc'[t]],
           pc'[t] \notin Written,
           \A p \in Procs \ {t} : configurations'[p] = configurations[p]
    PROVE  InFlight' = InFlight
  <1>1. \A p \in Procs : pc'[p] \in Written <=> pc[p] \in Written
    BY DEF TypeInv, CallTypes
  <1>2. \A p \in Procs : pc[p] \in Written => configurations'[p] = configurations[p]
    OBVIOUS
  <1>3. ASSUME NEW x PROVE x \in InFlight' <=> x \in InFlight
    BY <1>1, <1>2 DEF InFlight
  <1> QED
    BY <1>3

\* A quiet step changes nothing that is to be explained.
LEMMA QuietDurable ==
    ASSUME Durable, NEW t \in Procs, Quiet(t)
    PROVE  Known' /\ Accounted'
  <1>1. /\ pc[t] \notin Written /\ pc'[t] \notin Written
        /\ \A p \in Procs \ {t} : configurations'[p] = configurations[p] /\ pc'[p] = pc[p]
                                     /\ op'[p] = op[p]
    BY DEF Quiet, Exclusive, Durable, Control, TypeInv, CallTypes
  <1>2. InFlight' = InFlight
    BY <1>1, SameInFlight DEF Quiet, Durable, Control
  <1>3. Accounted'
    BY <1>2 DEF Quiet, Durable, Accounted, Explanations, RunningList
  <1>4. ASSUME NEW p \in Procs, p # t PROVE Knows(p)'
    <2>1. pc[p] \in {"write"} \cup Written => before' = before
      BY <1>4 DEF Quiet, Durable, Control, Locking, Exclusive
    <2> QED
      BY <1>1, <1>4, <2>1 DEF Quiet, Durable, Known, Knows
  <1>5. Knows(t)'
    BY DEF Quiet, Knows, Exclusive, Written
  <1> QED
    BY <1>3, <1>4, <1>5 DEF Known

\* An answer leaves its call with nothing to know.
LEMMA ReplyKnows ==
    ASSUME TypeInv, NEW t \in Procs, NEW code, NEW list, Reply(t, code, list)
    PROVE  Moves(t) /\ pc'[t] \in {"idle", "run", "drain"} /\ Knows(t)'
  <1>1. Moves(t) /\ pc'[t] \in {"idle", "run", "drain"}
    BY ReplyMoves
  <1> QED
    BY <1>1 DEF Knows, Exclusive, Written

\* A call that holds the mutex to load the list may only seed the store.
LEMMA LoadFrame ==
    ASSUME Durable, NEW t \in Procs, HoldsLock(t), pc[t] \in {"load", "loadFile", "seed"},
           Moves(t), pc'[t] \notin Written, UNCHANGED <<block, running, lost, possible>>,
           store' \in {store, block}, Knows(t)'
    PROVE  Known' /\ Accounted'
  <1>0. pc[t] \notin Exclusive /\ pc[t] \notin Written
    BY DEF Exclusive, Written
  <1>1. InFlight = {} /\ \A p \in Procs : pc[p] \notin Exclusive
    BY <1>0, NoneInFlight DEF Durable
  <1>2. InFlight' = InFlight
    BY <1>0, SameInFlight DEF Moves, Durable, Control
  <1>3. Accounted'
    BY <1>1, <1>2 DEF Durable, Accounted, Explanations, RunningList
  <1>4. ASSUME NEW p \in Procs, p # t PROVE Knows(p)'
    <2>1. pc'[p] = pc[p] /\ configurations'[p] = configurations[p]
      BY <1>4 DEF Moves, Durable, Control, TypeInv, CallTypes
    <2>2. pc'[p] \notin {"write"} \cup Written /\ pc'[p] \notin Exclusive
      BY <1>1, <2>1 DEF Exclusive
    <2>3. Knows(p)
      BY DEF Durable, Known
    <2> QED
      BY <2>1, <2>2, <2>3 DEF Knows, Written
  <1> QED
    BY <1>3, <1>4 DEF Known

\* Only the start synchronisation relies on the list it decided on.
LEMMA DecideKnows ==
    ASSUME TypeInv, NEW t \in Procs, NEW l, Decide(t, l),
           op[t] = "start" => l \in possible'
    PROVE  Moves(t) /\ pc'[t] \notin Written /\ Knows(t)'
  <1>1. CASE \E code, list : Reply(t, code, list)
    BY <1>1, ReplyKnows DEF Written
  <1>2. ASSUME NEW k, Continue(t, "certs", k), op[t] = "start" => k = l
        PROVE  Moves(t) /\ pc'[t] \notin Written /\ Knows(t)'
    <2>1. /\ Moves(t) /\ pc'[t] = "certs" /\ op'[t] = op[t] /\ configurations'[t] = k
      BY <1>2, ContinueMoves
    <2> QED
      BY <1>2, <2>1 DEF Knows, Written
  <1>3. "start" \notin Mutators
    BY DEF Mutators
  <1> QED
    BY <1>1, <1>2, <1>3 DEF Decide

\* Loading the list, with the seeding of the store by a reader.
LEMMA LoadStepDurable ==
    ASSUME Durable, NEW t \in Procs,
           LoadStore(t) \/ LoadFile(t) \/ Seed(t) \/ SeedFails(t)
    PROVE  Known' /\ Accounted'
  <1>0. /\ TypeInv /\ Knows(t) /\ FileList = block
        /\ "loadFile" \notin Written /\ "seed" \notin Written
        /\ "loadFile" \notin Exclusive /\ "seed" \notin Exclusive /\ "load" \notin Exclusive
    BY Uncut DEF Durable, Control, Known, Written, Exclusive
  <1>1. pc[t] \in {"load", "loadFile", "seed"} /\ HoldsLock(t)
          /\ UNCHANGED <<block, running, lost, possible>>
    BY DEF LoadStore, LoadList, LoadFile, Seed, SeedFails, Durable, Control, Locking, fileVars,
       hostVars, ghostVars
  <1>2. InFlight = {}
    BY <1>0, <1>1, NoneInFlight DEF Durable
  <1>3. pc[t] \in {"loadFile", "seed"} => op[t] # "start"
    BY DEF Durable, Control, Order, Mutators, Readers
  <1>4. CASE LoadStore(t)
    <2>1. store' = store /\ (store # {} => store \in possible)
      BY <1>2, <1>4 DEF LoadStore, LoadList, storeVars, Durable, Accounted, Explanations
    <2>2. CASE store # {}
      <3>1. Decide(t, store)
        BY <1>4, <2>2 DEF LoadStore, LoadList
      <3>2. Moves(t) /\ pc'[t] \notin Written /\ Knows(t)'
        BY <1>0, <1>1, <2>1, <2>2, <3>1, DecideKnows
      <3> QED
        BY <1>1, <2>1, <3>2, LoadFrame
    <2>3. CASE store = {} /\ Reply(t, "OK", {})
      BY <1>0, <1>1, <2>1, <2>3, ReplyKnows, LoadFrame DEF Written
    <2>4. CASE store = {} /\ Continue(t, "loadFile", {})
      <3>1. Moves(t) /\ pc'[t] = "loadFile"
        BY <1>0, <2>4, ContinueMoves
      <3>2. Knows(t)'
        BY <2>1, <2>4, <3>1 DEF Knows, Exclusive, Written
      <3> QED
        BY <1>0, <1>1, <2>1, <3>1, <3>2, LoadFrame
    <2> QED
      BY <1>4, <2>2, <2>3, <2>4 DEF LoadStore, LoadList
  <1>5. CASE LoadFile(t)
    <2>1. store' = store /\ pc[t] = "loadFile"
      BY <1>5 DEF LoadFile, storeVars
    <2>2. CASE Decide(t, {})
      <3>1. Moves(t) /\ pc'[t] \notin Written /\ Knows(t)'
        BY <1>0, <1>3, <2>1, <2>2, DecideKnows
      <3> QED
        BY <1>1, <2>1, <3>1, LoadFrame
    <2>3. CASE Continue(t, "seed", block)
      <3>1. Moves(t) /\ pc'[t] = "seed" /\ configurations'[t] = block
        BY <1>0, <2>3, ContinueMoves
      <3>2. Knows(t)'
        BY <1>0, <1>1, <2>1, <2>3, <3>1 DEF Knows, Exclusive, Written
      <3> QED
        BY <1>0, <1>1, <2>1, <3>1, <3>2, LoadFrame
    <2> QED
      BY <1>0, <1>5, <2>2, <2>3 DEF LoadFile
  <1>6. CASE Seed(t) \/ SeedFails(t)
    <2>1. /\ pc[t] = "seed"
          /\ store' \in {store, configurations[t]}
          /\ Decide(t, configurations[t]) \/ \E code, list : Reply(t, code, list)
      BY <1>6 DEF Seed, SeedFails, SaveSucceeds, SaveFails, LoadError
    <2>2. configurations[t] = block
      BY <1>0, <2>1 DEF Durable, Fresh
    <2>3. Moves(t) /\ pc'[t] \notin Written /\ Knows(t)'
      <3>1. ASSUME NEW code, NEW list, Reply(t, code, list)
            PROVE  Moves(t) /\ pc'[t] \notin Written /\ Knows(t)'
        BY <1>0, <3>1, ReplyKnows DEF Written
      <3> QED
        BY <1>0, <1>3, <2>1, <3>1, DecideKnows
    <2> QED
      BY <1>1, <2>1, <2>2, <2>3, LoadFrame
  <1> QED
    BY <1>4, <1>5, <1>6

\* Who persists a list is the only one with anything in flight, and nobody
\* else relies on what it changes.
LEMMA PersistFrame ==
    ASSUME Durable, NEW t \in Procs, pc[t] \in Exclusive, Moves(t)
    PROVE  /\ \A p \in Procs \ {t} : Knows(p)'
           /\ InFlight = IF pc[t] \in Written THEN {configurations[t]} ELSE {}
           /\ InFlight' = IF pc'[t] \in Written THEN {configurations'[t]} ELSE {}
  <1>1. /\ \A p \in Procs \ {t} : pc[p] \notin {"loadFile", "seed"} \cup Exclusive
        /\ InFlight = IF pc[t] \in Written THEN {configurations[t]} ELSE {}
    BY Alone DEF Durable
  <1>2. \A p \in Procs \ {t} : pc'[p] \notin {"loadFile", "seed"} \cup Exclusive
    BY <1>1 DEF Moves, Durable, Control, TypeInv, CallTypes
  <1>3. \A p \in Procs \ {t} : Knows(p)'
    BY <1>2 DEF Knows, Exclusive, Written
  <1>4. \A p \in Procs \ {t} : pc'[p] \notin Written
    BY <1>2 DEF Exclusive
  <1> QED
    BY <1>1, <1>3, <1>4 DEF InFlight

\* The steps before the file is written.
LEMMA PrepareDurable ==
    ASSUME Durable, NEW t \in Procs,
           EnsureCertificate(t) \/ EnsureCertificateFails(t) \/ ReadBefore(t)
    PROVE  Known' /\ Accounted'
  <1>0. /\ TypeInv /\ Knows(t) /\ pc[t] = "certs" /\ pc[t] \in Exclusive /\ pc[t] \notin Written
        /\ UNCHANGED <<store, block, running, lost, possible>>
        /\ "write" \notin Written
    BY DEF Durable, Control, Known, EnsureCertificate, MoveCertificate, EnsureCertificateFails,
       WritesCertificate, ReadBefore, KeepFile, storeVars, fileVars, ghostVars, Exclusive,
       Written
  <1>1. ASSUME Moves(t), pc'[t] \notin Written, Knows(t)' PROVE Known' /\ Accounted'
    <2>1. InFlight' = InFlight /\ \A p \in Procs \ {t} : Knows(p)'
      BY <1>0, <1>1, PersistFrame
    <2>2. Accounted'
      BY <1>0, <2>1 DEF Durable, Accounted, Explanations, RunningList
    <2> QED
      BY <1>1, <2>1, <2>2 DEF Known
  <1>2. CASE \E code, list : Reply(t, code, list)
    BY <1>0, <1>1, <1>2, ReplyKnows DEF Written
  <1>3. CASE EnsureCertificate(t)
    <2>1. PICK c \in configurations[t] :
             NeedsCertificate(c) /\ \E l : Continue(t, "certs", l)
      BY <1>3 DEF EnsureCertificate, MoveCertificate, WritesCertificate
    <2>2. op[t] # "start"
      <3>1. op[t] = "start" => c \in store
        BY <1>0, <2>1 DEF Durable, Fresh
      <3> QED
        BY <2>1, <3>1 DEF Durable, Lists, Clean, KeyFree, NeedsCertificate
    <2>3. Moves(t) /\ pc'[t] = "certs" /\ op'[t] = op[t]
      BY <1>0, <2>1, ContinueMoves
    <2>4. Knows(t)'
      BY <2>2, <2>3 DEF Knows, Exclusive, Written
    <2> QED
      BY <1>0, <1>1, <2>3, <2>4
  <1>4. CASE ReadBefore(t) /\ before' = block /\ Continue(t, "write", configurations[t])
    <2>1. Moves(t) /\ pc'[t] = "write" /\ op'[t] = op[t]
             /\ configurations'[t] = configurations[t]
      BY <1>0, <1>4, ContinueMoves
    <2>2. InFlight = {}
      BY <1>0, Alone DEF Durable
    <2>3. block \in possible \/ (lost /\ block = {})
      BY <2>2 DEF Durable, Accounted, Explanations
    <2>4. Knows(t)'
      BY <1>0, <1>4, <2>1, <2>3 DEF Knows, Written
    <2> QED
      BY <1>0, <1>1, <2>1, <2>4
  <1> QED
    BY <1>2, <1>3, <1>4 DEF ReadBefore, KeepFile, EnsureCertificateFails

\* The write of the file and of the store, and their failures.
LEMMA WriteDurable ==
    ASSUME Durable, NEW t \in Procs,
           \/ WriteFile(t) \/ WriteFileFails(t)
           \/ SaveStore(t) \/ SaveStoreFails(t) \/ UndoWrite(t)
    PROVE  Known' /\ Accounted'
  <1>0. /\ TypeInv /\ Knows(t) /\ pc[t] \in {"write", "save", "undo"}
        /\ UNCHANGED running /\ RunningList' = RunningList
        /\ {"save", "undo", "reload", "restore", "rereload"} \subseteq Written
        /\ "write" \notin Written
    BY DEF Durable, Control, Known, WriteFile, WriteBehind, WriteFileFails, SaveStore,
       SaveStoreFails, UndoWrite, UndoTo, hostVars, Written, RunningList
  <1>1. pc[t] \in Exclusive
    BY <1>0 DEF Exclusive, Written
  <1>2. pc[t] \in {"save", "undo"} => op[t] \in Mutators /\ op[t] # "start"
    BY DEF Durable, Control, Order, Mutators
  <1>3. /\ store # {} => store \in possible \cup InFlight
        /\ block \in possible \cup InFlight \/ (lost /\ block = {})
        /\ RunningList \in possible \cup InFlight \/ (lost /\ RunningList = {})
    BY DEF Durable, Accounted, Explanations
  <1>4. CASE WriteFile(t)
    <2>1. PICK label \in {"reload", "save"} :
             /\ Continue(t, label, configurations[t])
             /\ label = "reload" <=> op[t] = "start"
      BY <1>4 DEF WriteFile, WriteBehind
    <2>2. /\ Moves(t) /\ pc'[t] = label /\ op'[t] = op[t]
          /\ configurations'[t] = configurations[t]
      BY <1>0, <2>1, ContinueMoves
    <2>3. /\ pc[t] = "write" /\ block' = configurations[t]
          /\ UNCHANGED <<store, before, lost, possible>>
      BY <1>4 DEF WriteFile, WriteBehind, storeVars, ghostVars
    <2>4. /\ \A p \in Procs \ {t} : Knows(p)'
          /\ InFlight = {} /\ InFlight' = {configurations[t]}
      BY <1>0, <1>1, <2>2, <2>3, PersistFrame
    <2>5. Knows(t)'
      BY <1>0, <1>1, <2>1, <2>2, <2>3 DEF Knows, Written
    <2>6. Accounted'
      BY <1>0, <1>3, <2>3, <2>4 DEF Accounted, Explanations
    <2> QED
      BY <2>4, <2>5, <2>6 DEF Known
  <1>5. CASE WriteFileFails(t)
    <2>1. /\ Moves(t) /\ pc'[t] \in {"idle", "run", "drain"} /\ Knows(t)'
      BY <1>0, <1>5, ReplyKnows DEF WriteFileFails
    <2>2. /\ pc[t] = "write" /\ UNCHANGED store
          /\ \/ UNCHANGED possible /\ (UNCHANGED <<block, lost>> \/ (block' = {} /\ lost'))
             \/ block' = configurations[t] /\ UNCHANGED lost /\ MayRemain(t)
      BY <1>5, Uncut DEF WriteFileFails, storeVars
    <2>3. /\ \A p \in Procs \ {t} : Knows(p)'
          /\ InFlight = {} /\ InFlight' = {}
      BY <1>0, <1>1, <2>1, <2>2, PersistFrame DEF Written
    <2>4. ASSUME UNCHANGED possible, UNCHANGED <<block, lost>> \/ (block' = {} /\ lost')
          PROVE  Accounted'
      BY <1>0, <1>3, <2>2, <2>3, <2>4 DEF Accounted, Explanations
    <2>5. ASSUME block' = configurations[t], UNCHANGED lost, MayRemain(t) PROVE Accounted'
      <3>1. op[t] \in Mutators \/ configurations[t] \in possible
        BY <1>0, <1>1 DEF Knows, Durable, Control, Order
      <3>2. configurations[t] \in possible' /\ possible \subseteq possible'
        BY <2>5, <3>1 DEF MayRemain
      <3>3. lost' = lost /\ store' = store /\ block' \in possible'
        BY <2>2, <2>5, <3>2
      <3> QED
        BY ONLY <1>0, <1>3, <2>3, <3>2, <3>3 DEF Accounted, Explanations
    <2> QED
      BY <2>1, <2>2, <2>3, <2>4, <2>5 DEF Known
  <1>6. CASE SaveStore(t) \/ SaveStoreFails(t)
    <2>1. PICK label \in {"reload", "undo"} :
             /\ Continue(t, label, configurations[t])
             /\ label = "reload" => store' = configurations[t]
      BY <1>6 DEF SaveStore, SaveStoreFails, SaveSucceeds
    <2>2. /\ Moves(t) /\ pc'[t] = label /\ op'[t] = op[t]
          /\ configurations'[t] = configurations[t]
      BY <1>0, <2>1, ContinueMoves
    <2>3. /\ pc[t] = "save" /\ store' \in {store, configurations[t]}
          /\ UNCHANGED <<block, before, lost, possible>>
      BY <1>6 DEF SaveStore, SaveStoreFails, SaveSucceeds, SaveFails, fileVars, hostVars,
         ghostVars
    <2>4. /\ \A p \in Procs \ {t} : Knows(p)'
          /\ InFlight = {configurations[t]} /\ InFlight' = {configurations[t]}
      BY <1>0, <1>1, <2>2, <2>3, PersistFrame
    <2>5. Knows(t)'
      BY <1>0, <1>2, <2>1, <2>2, <2>3 DEF Knows, Written
    <2>6. Accounted'
      BY <1>0, <1>3, <2>3, <2>4 DEF Accounted, Explanations
    <2> QED
      BY <2>4, <2>5, <2>6 DEF Known
  <1>7. CASE UndoWrite(t)
    <2>1. /\ Moves(t) /\ pc'[t] \in {"idle", "run", "drain"} /\ Knows(t)'
      BY <1>0, <1>7, ReplyKnows DEF UndoWrite, UndoTo
    <2>2. /\ pc[t] = "undo" /\ UNCHANGED store
          /\ \/ UNCHANGED lost /\ block' \in {before, block}
             \/ block' = {} /\ lost'
      BY <1>7, Uncut DEF UndoWrite, UndoTo, storeVars
    <2>3. possible' = possible \cup {configurations[t]}
      BY <1>2, <1>7, <2>2 DEF UndoWrite, UndoTo, MayRemain
    <2>4. /\ \A p \in Procs \ {t} : Knows(p)'
          /\ InFlight = {configurations[t]} /\ InFlight' = {}
      BY <1>0, <1>1, <2>1, <2>2, PersistFrame DEF Written
    <2>5. before \in possible \/ (lost /\ before = {})
      BY <1>0, <2>2 DEF Knows
    <2>6. (UNCHANGED lost \/ lost') /\ (lost => lost')
      BY <2>2
    <2>7. Accounted'
      BY <1>0, <1>3, <2>2, <2>3, <2>4, <2>5, <2>6 DEF Accounted, Explanations
    <2> QED
      BY <2>1, <2>4, <2>7 DEF Known
  <1> QED
    BY <1>4, <1>5, <1>6, <1>7

\* The reload, the rollback of the file and the reload after it.
LEMMA ReloadDurable ==
    ASSUME Durable, NEW t \in Procs,
           Reload(t) \/ ReloadRefused(t) \/ RestoreFile(t) \/ ReloadRestored(t)
    PROVE  Known' /\ Accounted'
  <1>0. /\ TypeInv /\ Knows(t) /\ pc[t] \in {"reload", "restore", "rereload"}
        /\ {"restore", "rereload"} \subseteq Written /\ pc[t] \in Written
        /\ UNCHANGED store
    BY DEF Durable, Control, Known, Reload, Acknowledge, ReloadRefused, RestoreFile,
       ReloadRestored, storeVars, Written
  <1>1. pc[t] \in Exclusive /\ (op[t] \in Mutators \/ op[t] = "start") /\ "start" \notin Mutators
    BY <1>0 DEF Exclusive, Durable, Control, Order, Mutators
  <1>2. /\ store # {} => store \in possible \cup InFlight
        /\ block \in possible \cup InFlight \/ (lost /\ block = {})
        /\ RunningList \in possible \cup InFlight \/ (lost /\ RunningList = {})
        /\ InFlight = {configurations[t]}
    BY <1>0, <1>1, Alone DEF Durable, Accounted, Explanations
  <1>3. /\ op[t] = "start" => configurations[t] \in possible
        /\ before \in possible \/ (lost /\ before = {})
    BY <1>0, <1>1 DEF Knows
  <1>4. CASE Reload(t)
    <2>1. Moves(t) /\ pc'[t] \in {"idle", "run", "drain"} /\ Knows(t)'
      BY <1>0, <1>4, ReplyKnows DEF Reload, Acknowledge
    <2>2. /\ pc[t] = "reload" /\ UNCHANGED block /\ RunningList' = block
          /\ possible' = IF op[t] \in Mutators THEN {configurations[t]} ELSE possible
      BY <1>4, Uncut DEF Reload, Acknowledge, fileVars
    <2>3. block = configurations[t] /\ store = configurations[t]
      BY <1>0, <2>2 DEF Durable, Fresh
    <2>4. InFlight' = {} /\ \A p \in Procs \ {t} : Knows(p)'
      BY <1>1, <2>1, PersistFrame DEF Written
    <2>5. configurations[t] \in possible'
      BY <1>1, <1>3, <2>2
    <2>6. Accounted'
      BY <1>0, <2>2, <2>3, <2>4, <2>5 DEF Accounted, Explanations
    <2> QED
      BY <2>1, <2>4, <2>6 DEF Known
  <1>5. CASE ReloadRefused(t)
    <2>1. /\ Moves(t) /\ pc'[t] = "restore" /\ op'[t] = op[t]
          /\ configurations'[t] = configurations[t]
      BY <1>0, <1>5, ContinueMoves DEF ReloadRefused
    <2>2. /\ RunningList' \in {RunningList, block}
          /\ UNCHANGED <<block, before, lost, possible>>
      BY <1>5, Uncut DEF ReloadRefused, fileVars, ghostVars
    <2>3. InFlight' = InFlight /\ \A p \in Procs \ {t} : Knows(p)'
      BY <1>0, <1>1, <2>1, PersistFrame
    <2>4. Knows(t)'
      BY <1>0, <1>3, <2>1, <2>2 DEF Knows
    <2>5. Accounted'
      BY <1>0, <1>2, <2>2, <2>3 DEF Accounted, Explanations
    <2> QED
      BY <2>3, <2>4, <2>5 DEF Known
  <1>6. CASE RestoreFile(t)
    <2>1. /\ Moves(t) /\ pc'[t] = "rereload" /\ op'[t] = op[t]
          /\ configurations'[t] = configurations[t]
      BY <1>0, <1>6, ContinueMoves DEF RestoreFile
    <2>2. /\ RunningList' = RunningList /\ UNCHANGED <<before, possible>>
          /\ \/ UNCHANGED lost /\ block' \in {before, block}
             \/ block' = {} /\ lost'
      BY <1>6, Uncut DEF RestoreFile, RunningList
    <2>3. InFlight' = InFlight /\ \A p \in Procs \ {t} : Knows(p)'
      BY <1>0, <1>1, <2>1, PersistFrame
    <2>4. lost => lost'
      BY <2>2
    <2>5. Knows(t)'
      BY <1>0, <1>3, <2>1, <2>2, <2>4 DEF Knows
    <2>6. Accounted'
      BY <1>0, <1>2, <1>3, <2>2, <2>3, <2>4 DEF Accounted, Explanations
    <2> QED
      BY <2>3, <2>5, <2>6 DEF Known
  <1>7. CASE ReloadRestored(t)
    <2>1. Moves(t) /\ pc'[t] \in {"idle", "run", "drain"} /\ Knows(t)'
      BY <1>0, <1>7, ReplyKnows DEF ReloadRestored
    <2>2. /\ RunningList' \in {RunningList, block} /\ UNCHANGED <<block, lost>>
          /\ possible' = IF op[t] \in Mutators THEN possible \cup {configurations[t]}
                                               ELSE possible
      BY <1>7, Uncut DEF ReloadRestored, MayRemain, fileVars
    <2>3. InFlight' = {} /\ \A p \in Procs \ {t} : Knows(p)'
      BY <1>1, <2>1, PersistFrame DEF Written
    <2>4. possible' = possible \cup InFlight
      BY <1>1, <1>2, <1>3, <2>2
    <2>5. Accounted'
      BY <1>0, <1>2, <2>2, <2>3, <2>4 DEF Accounted, Explanations
    <2> QED
      BY <2>1, <2>3, <2>5 DEF Known
  <1> QED
    BY <1>4, <1>5, <1>6, <1>7

\* A process that ends leaves what it had in flight as possible.
LEMMA LifecycleDurable ==
    ASSUME Durable,
           \/ Boot \/ Shutdown \/ Stop \/ Crash \/ ContainerReset
           \/ \E t \in Procs : ReloadPanics(t)
    PROVE  Known' /\ Accounted'
  <1>0. Main \in Procs /\ TypeInv
    BY DEF Procs, Durable, Control
  <1>1. /\ store # {} => store \in possible \cup InFlight
        /\ block \in possible \cup InFlight \/ (lost /\ block = {})
        /\ RunningList \in possible \cup InFlight \/ (lost /\ RunningList = {})
    BY DEF Durable, Accounted, Explanations
  <1>2. ASSUME ProcessEnds, possible' = possible \cup InFlight, UNCHANGED running,
               UNCHANGED <<block, lost>> \/ (block' = {} /\ lost')
        PROVE  Known' /\ Accounted'
    <2>1. \A p \in Procs : pc'[p] \in {"down", "idle"}
      BY <1>2 DEF ProcessEnds
    <2>2. Known'
      BY <2>1 DEF Known, Knows, Exclusive, Written
    <2>3. InFlight' = {}
      BY <2>1 DEF InFlight, Written
    <2>4. store' \in {store, {}}
      BY <1>2 DEF ProcessEnds, StoreAfterExit
    <2>5. RunningList' = RunningList
      BY <1>2 DEF RunningList
    <2>6. Accounted'
      BY <1>1, <1>2, <2>3, <2>4, <2>5 DEF Accounted, Explanations
    <2> QED
      BY <2>2, <2>6
  <1>3. CASE Exit
    <2>1. InFlight = {}
      BY <1>3 DEF Exit, InFlight, Procs, Written
    <2> QED
      BY <1>2, <1>3, <2>1 DEF Exit, fileVars, ghostVars
  <1>4. CASE Crash \/ \E t \in Procs : ReloadPanics(t)
    BY <1>2, <1>4 DEF Crash, DiesWriting, WriteStops, ReloadPanics, fileVars
  <1>5. CASE Boot \/ Shutdown \/ OnStop \/ GracefulStop
    BY <1>0, <1>5, LifecycleIsQuiet, QuietDurable
  <1>6. CASE ContainerReset
    <2>1. /\ pc' = pc /\ UNCHANGED <<store, possible>> /\ block' = {} /\ lost' /\ running' = {}
          /\ pc[Main] = "down"
      BY <1>6 DEF ContainerReset, storeVars
    <2>2. \A p \in Procs : pc[p] \in {"idle", "down"}
      BY <2>1 DEF Durable, Control, Order
    <2>3. Known'
      BY <2>1, <2>2 DEF Known, Knows, Exclusive, Written
    <2>4. InFlight = {} /\ InFlight' = {}
      BY <2>1, <2>2 DEF InFlight, Written
    <2>5. RunningList' = {}
      BY <2>1 DEF RunningList
    <2>6. Accounted'
      BY <1>1, <2>1, <2>4, <2>5 DEF Accounted, Explanations
    <2> QED
      BY <2>3, <2>6
  <1> QED
    BY <1>3, <1>4, <1>5, <1>6 DEF Stop

\* The file of a new host is the list in force.
LEMMA DurableInit == Init /\ "torn" \notin Faults => Durable
  <1> SUFFICES ASSUME Init, "torn" \notin Faults PROVE Durable
    OBVIOUS
  <1>1. RunningList = block
    BY TypeInit, LoadedTypes DEF Init, RunningList, TypeInv, HostTypes
  <1>2. Known
    BY DEF Init, Known, Knows, Exclusive, Written
  <1>3. Accounted
    BY <1>1 DEF Init, Accounted, Explanations
  <1> QED
    BY <1>2, <1>3, WholeInit DEF Whole, Durable

\* And every step of the system keeps Durable.
LEMMA DurableNext == Durable /\ [Next]_vars => Durable'
  <1> SUFFICES ASSUME Durable, [Next]_vars PROVE Known' /\ Accounted'
    BY Uncut, WholeNext DEF Whole, Durable
  <1>1. CASE UNCHANGED vars
    BY <1>1 DEF vars, callVars, storeVars, fileVars, hostVars, ghostVars, Durable, Known, Knows,
       Accounted, Explanations, InFlight, RunningList
  <1>2. ASSUME NEW t \in Procs, Call(t) \/ Acquire(t) \/ Step(t) PROVE Known' /\ Accounted'
    <2>1. Call(t) \/ Acquire(t) => Quiet(t)
      BY CallsAreQuiet, MovesAreQuiet DEF Durable, Control
    <2>2. CASE Quiet(t)
      BY <2>2, QuietDurable
    <2>3. CASE \/ CreateClient(t) \/ CreateClientFails(t) \/ GetStats(t)
               \/ LoadStoreFails(t) \/ LoadFileFails(t)
      BY <2>3, MovesAreQuiet, QuietDurable DEF Durable, Control
    <2> QED
      BY <1>2, <2>1, <2>2, <2>3, LoadStepDurable, PrepareDurable, WriteDurable, ReloadDurable,
         LifecycleDurable DEF Step
  <1>3. CASE Boot \/ Shutdown \/ Stop \/ Crash \/ ContainerReset
    BY <1>3, LifecycleDurable
  <1> QED
    BY <1>1, <1>2, <1>3 DEF Next

\* So it holds in every reachable state.
LEMMA StaysDurable == ASSUME "torn" \notin Faults PROVE Spec => []Durable
  <1>1. Init => Durable
    BY DurableInit
  <1> QED
    BY <1>1, DurableNext, PTL DEF Spec

\* Through any interleaving of calls with failures of the store, the disk and
\* HAProxy, crashes and resets, the store, the file and the running HAProxy
\* each hold the last acknowledged list or one of a call that failed after it
\* wrote; only a file whose content was lost is empty instead.  A write of the
\* file may be cut, but not in the middle of a block.
THEOREM AlwaysExplained == Spec => []("torn" \notin Faults => Explained)
  <1>1. Durable => Explained
    BY Uncut DEF Durable, Accounted, Explained
  <1>2. CASE "torn" \notin Faults
    <2>1. Spec => []Explained
      BY <1>1, <1>2, StaysDurable, PTL
    <2>2. Explained => ("torn" \notin Faults => Explained)
      OBVIOUS
    <2> QED
      BY <2>1, <2>2, PTL
  <1>3. CASE "torn" \in Faults
    <2>1. "torn" \notin Faults => Explained
      BY <1>3
    <2> QED
      BY <2>1, PTL
  <1> QED
    BY <1>2, <1>3

-----------------------------------------------------------------------------
(* Between two calls the file is what HAProxy runs *)

\* The faults that keep a file from being put back, or leave it unknown what
\* HAProxy loaded.
Untidy == {"truncated", "torn", "close", "disk", "haproxy", "crash"}

\* The content kept for the rollback is what HAProxy runs, and is in the file
\* again before HAProxy is asked to reload it.
Matched ==
    /\ InFlight = {} => block = RunningList
    /\ \A t \in Procs :
          /\ pc[t] \in {"write"} \cup Written => before = RunningList
          /\ pc[t] = "rereload" => block = before

\* A step outside the persistence changes neither the file nor HAProxy.
LEMMA OutsideMatched ==
    ASSUME Control, Matched, NEW t \in Procs, pc[t] \notin Exclusive, Moves(t),
           pc'[t] \notin {"write"} \cup Written, UNCHANGED <<block, running>>,
           writer # t => before' = before
    PROVE  Matched'
  <1>1. InFlight' = InFlight /\ RunningList' = RunningList
    <2>1. pc[t] \notin Written /\ pc'[t] \notin Written
      BY DEF Exclusive
    <2> QED
      BY <2>1, SameInFlight DEF Moves, Control, RunningList
  <1>2. ASSUME NEW p \in Procs, pc'[p] \in {"write"} \cup Written
        PROVE  pc'[p] = pc[p] /\ before' = before
    <2>1. p # t /\ pc'[p] = pc[p]
      BY <1>2 DEF Moves, Control, TypeInv, CallTypes
    <2>2. writer = p
      BY <1>2, <2>1 DEF Control, Locking, Exclusive
    <2> QED
      BY <2>1, <2>2
  <1>3. ASSUME NEW p \in Procs
        PROVE  /\ pc'[p] \in {"write"} \cup Written => before' = RunningList'
               /\ pc'[p] = "rereload" => block' = before'
    BY <1>1, <1>2, <1>3 DEF Matched, Written
  <1> QED
    BY <1>1, <1>3 DEF Matched

\* Inside it, only the process that persists is to be looked at.
LEMMA PersistMatched ==
    ASSUME Control, Matched, NEW t \in Procs, pc[t] \in Exclusive, Moves(t),
           pc'[t] \notin Written => block' = RunningList',
           pc'[t] \in {"write"} \cup Written => before' = RunningList',
           pc'[t] = "rereload" => block' = before'
    PROVE  Matched'
  <1>1. \A p \in Procs \ {t} : pc'[p] \notin {"write"} \cup Written
    <2>1. \A p \in Procs \ {t} : pc[p] \notin Exclusive /\ pc'[p] = pc[p]
      BY Alone DEF Moves, Control, TypeInv, CallTypes
    <2> QED
      BY <2>1 DEF Exclusive
  <1>2. InFlight' = {} => pc'[t] \notin Written
    BY DEF InFlight
  <1> QED
    BY <1>1, <1>2 DEF Matched, Written

\* Without those faults every failure path puts the file back.
LEMMA PersistStepMatched ==
    ASSUME Control, Lists, Matched, Untidy \cap Faults = {}, NEW t \in Procs,
           \/ EnsureCertificate(t) \/ EnsureCertificateFails(t) \/ ReadBefore(t)
           \/ WriteFile(t) \/ WriteFileFails(t)
           \/ SaveStore(t) \/ SaveStoreFails(t) \/ UndoWrite(t)
           \/ Reload(t) \/ ReloadRefused(t) \/ RestoreFile(t) \/ ReloadRestored(t)
    PROVE  Matched'
  <1>0. /\ TypeInv /\ ~Completes /\ \A l, left : ~FileWriteFails(l, left)
        /\ pc[t] \in {"write"} \cup Written => before = RunningList
        /\ pc[t] = "rereload" => block = before
        /\ UNCHANGED running => RunningList' = RunningList
        /\ ReloadSucceeds => RunningList' = block
        /\ ReloadFails => UNCHANGED running
    <2>1. ~Cuts /\ ~Completes /\ {"disk", "haproxy", "torn"} \cap Faults = {}
      BY DEF Untidy, Cuts, Completes
    <2>2. rest.entries = {}
      BY <2>1 DEF Lists, Held, NoRest
    <2>3. ReloadSucceeds => RunningList' = block
      <3>1. ReloadSucceeds => \E left \in SUBSET rest.entries : RunningList' = block \cup left
        BY ReloadRuns DEF Control
      <3> QED
        BY <2>2, <3>1
    <2> QED
      BY <2>1, <2>3 DEF Control, FileWriteFails, WriteStops, Matched, RunningList, ReloadFails
  <1>1. pc[t] \in {"certs", "write"} => block = RunningList
    BY Alone DEF Matched, Exclusive, Written
  <1>2. ASSUME NEW code, NEW list, Reply(t, code, list), pc[t] \in Exclusive,
               block' = RunningList'
        PROVE  Matched'
    <2>1. Moves(t) /\ pc'[t] \notin {"write"} \cup Written
      BY <1>0, <1>2, ReplyMoves DEF Written
    <2> QED
      BY <1>2, <2>1, PersistMatched DEF Written
  <1>3. ASSUME NEW label, NEW l, Continue(t, label, l), pc[t] \in Exclusive,
               label \notin Written => block' = RunningList',
               label \in {"write"} \cup Written => before' = RunningList',
               label = "rereload" => block' = before'
        PROVE  Matched'
    BY <1>0, <1>3, ContinueMoves, PersistMatched
  <1>4. CASE EnsureCertificate(t) \/ EnsureCertificateFails(t) \/ ReadBefore(t)
    <2>1. pc[t] = "certs" /\ UNCHANGED <<block, running>>
      BY <1>4 DEF EnsureCertificate, MoveCertificate, EnsureCertificateFails, WritesCertificate,
         ReadBefore, KeepFile, fileVars
    <2>2. pc[t] \in Exclusive /\ block' = RunningList'
      BY <1>0, <1>1, <2>1 DEF Exclusive
    <2>3. \/ \E code, list : Reply(t, code, list)
          \/ \E l : Continue(t, "certs", l)
          \/ Continue(t, "write", configurations[t]) /\ before' = block
      BY <1>4 DEF EnsureCertificate, MoveCertificate, EnsureCertificateFails, ReadBefore,
         KeepFile
    <2> QED
      BY <1>2, <1>3, <2>1, <2>2, <2>3 DEF Written
  <1>5. CASE WriteFile(t) \/ SaveStore(t) \/ SaveStoreFails(t) \/ ReloadRefused(t)
    <2>1. /\ pc[t] \in {"write"} \cup Written /\ UNCHANGED <<before, running>>
          /\ \E label \in {"save", "reload", "undo", "restore"} :
                Continue(t, label, configurations[t])
      BY <1>0, <1>5 DEF WriteFile, WriteBehind, SaveStore, SaveStoreFails, ReloadRefused,
         hostVars, Written
    <2> QED
      BY <1>0, <1>3, <2>1 DEF Written, Exclusive
  <1>6. CASE UndoWrite(t)
    BY <1>0, <1>2, <1>6 DEF UndoWrite, UndoTo, Written, Exclusive
  <1>7. CASE Reload(t)
    BY <1>0, <1>2, <1>7 DEF Reload, Acknowledge, fileVars, Written, Exclusive
  <1>8. CASE RestoreFile(t)
    BY <1>0, <1>3, <1>8 DEF RestoreFile, Written, Exclusive
  <1>9. CASE ReloadRestored(t)
    BY <1>0, <1>2, <1>9 DEF ReloadRestored, fileVars, Written, Exclusive
  <1>10. ~WriteFileFails(t)
    BY <1>0 DEF WriteFileFails
  <1> QED
    BY <1>4, <1>5, <1>6, <1>7, <1>8, <1>9, <1>10

\* Loading a list moves its call only.
LEMMA LoadStepMatched ==
    ASSUME Control, Matched, NEW t \in Procs,
           LoadStore(t) \/ LoadFile(t) \/ Seed(t) \/ SeedFails(t)
    PROVE  Matched'
  <1>0. TypeInv /\ pc[t] \notin Exclusive /\ UNCHANGED <<block, running>>
    BY DEF Control, LoadStore, LoadList, LoadFile, Seed, SeedFails, fileVars, hostVars,
       Exclusive, Written
  <1>1. ASSUME NEW code, NEW list, Reply(t, code, list) PROVE Matched'
    <2>1. Moves(t) /\ pc'[t] \notin {"write"} \cup Written
      BY <1>0, <1>1, ReplyMoves DEF Written
    <2> QED
      BY <1>0, <1>1, <2>1, OutsideMatched DEF Reply
  <1>2. ASSUME NEW label \in {"loadFile", "seed", "certs"}, NEW l, Continue(t, label, l),
               UNCHANGED before
        PROVE  Matched'
    <2>1. Moves(t) /\ pc'[t] \notin {"write"} \cup Written
      BY <1>0, <1>2, ContinueMoves DEF Written
    <2> QED
      BY <1>0, <1>2, <2>1, OutsideMatched
  <1>3. ASSUME NEW l, Decide(t, l) PROVE Matched'
    BY <1>1, <1>2, <1>3 DEF Decide
  <1> QED
    BY <1>1, <1>2, <1>3 DEF LoadStore, LoadList, LoadFile, Seed, SeedFails, LoadError

\* Starting, stopping and resetting the host change the file and HAProxy alike.
LEMMA LifecycleMatched ==
    ASSUME Control, Matched, "crash" \notin Faults,
           Boot \/ Shutdown \/ Stop \/ Crash \/ ContainerReset
    PROVE  Matched'
  <1>0. Main \in Procs /\ TypeInv
    BY DEF Procs, Control
  <1>1. CASE Boot \/ Shutdown \/ OnStop \/ GracefulStop
    <2>1. Quiet(Main)
      BY <1>0, <1>1, LifecycleIsQuiet
    <2>2. \A p \in Procs \ {Main} : configurations'[p] = configurations[p]
      BY <1>0, <2>1 DEF Quiet, TypeInv, CallTypes
    <2> QED
      BY <1>0, <2>1, <2>2, OutsideMatched DEF Quiet, Moves, Exclusive
  <1>2. CASE Exit
    <2>1. \A p \in Procs : pc[p] \notin Written /\ pc'[p] \notin {"write"} \cup Written
      BY <1>2 DEF Exit, ProcessEnds, Written, Procs
    <2>2. InFlight = {} /\ InFlight' = {} /\ UNCHANGED <<block, running>>
      BY <1>2, <2>1 DEF InFlight, Exit, fileVars
    <2> QED
      BY <2>1, <2>2 DEF Matched, RunningList, Written
  <1>3. CASE ContainerReset
    <2>1. pc' = pc /\ pc[Main] = "down" /\ block' = {} /\ running' = {}
      BY <1>3 DEF ContainerReset
    <2>2. \A p \in Procs : pc'[p] \notin {"write"} \cup Written
      BY <2>1 DEF Control, Order, Written
    <2> QED
      BY <2>1, <2>2 DEF Matched, RunningList, Written
  <1> QED
    BY <1>1, <1>2, <1>3 DEF Stop, Crash

\* With Redis nothing panics, so Matched is kept by every step.
LEMMA MatchedNext ==
    Control /\ Lists /\ Clients /\ Matched /\ Backend = "redis" /\ Untidy \cap Faults = {}
      /\ [Next]_vars => Matched'
  <1> SUFFICES ASSUME Control, Lists, Clients, Matched, Backend = "redis", Untidy \cap Faults = {},
                      [Next]_vars
               PROVE  Matched'
    OBVIOUS
  <1>1. CASE UNCHANGED vars
    BY <1>1 DEF vars, callVars, fileVars, hostVars, Matched, InFlight, RunningList
  <1>2. ASSUME NEW t \in Procs, Call(t) \/ Acquire(t) \/ Step(t) PROVE Matched'
    <2>1. CASE Quiet(t)
      <3>1. \A p \in Procs \ {t} : configurations'[p] = configurations[p]
        BY <2>1 DEF Quiet, Control, TypeInv, CallTypes
      <3> QED
        BY <2>1, <3>1, OutsideMatched DEF Quiet, Moves, Exclusive
    <2>2. CASE \/ Call(t) \/ Acquire(t)
               \/ CreateClient(t) \/ CreateClientFails(t) \/ GetStats(t)
               \/ LoadStoreFails(t) \/ LoadFileFails(t)
      BY <2>1, <2>2, CallsAreQuiet, MovesAreQuiet DEF Control
    <2>3. ~ReloadPanics(t)
      BY DEF ReloadPanics, Clients, Control, Order, Exclusive, Written
    <2> QED
      BY <1>2, <2>2, <2>3, LoadStepMatched, PersistStepMatched DEF Step
  <1>3. CASE Boot \/ Shutdown \/ Stop \/ Crash \/ ContainerReset
    <2>1. "crash" \notin Faults
      BY DEF Untidy
    <2> QED
      BY <1>3, <2>1, LifecycleMatched
  <1> QED
    BY <1>1, <1>2, <1>3 DEF Next

\* Whenever no call is between its write and its answer, the file holds what
\* HAProxy runs: failed saves and refused reloads put the file back.  It takes
\* the Redis store, for with the other a stop may kill a call in its reload,
\* and a disk, a socket and a process that work.
THEOREM FileStaysMatched ==
    Spec => [](Backend = "redis" /\ Untidy \cap Faults = {} => FileMatchesHaproxy)
  <1> DEFINE P == Backend = "redis" /\ Untidy \cap Faults = {} => Matched
  <1>1. Init => P
    <2> SUFFICES ASSUME Init PROVE Matched
      OBVIOUS
    <2>1. RunningList = block
      BY TypeInit, LoadedTypes DEF Init, RunningList, TypeInv, HostTypes
    <2> QED
      BY <2>1 DEF Init, Matched, Written
  <1>2. Control /\ Lists /\ Clients /\ P /\ [Next]_vars => P'
    BY MatchedNext
  <1>3. P => (Backend = "redis" /\ Untidy \cap Faults = {} => FileMatchesHaproxy)
    BY DEF Matched, FileMatchesHaproxy
  <1>4. Init => Clients
    BY DEF Init, Clients, Mutators
  <1> HIDE DEF P
  <1> QED
    BY <1>1, <1>2, <1>3, <1>4, ControlInit, ControlNext, AlwaysLists, ClientsNext, PTL DEF Spec

-----------------------------------------------------------------------------
(* Answers are current *)

\* In a list of unique names, what a key matches is its first match.
LEMMA MatchIsFirst ==
    ASSUME NEW list \in SUBSET Config, DistinctNames(list), NEW key, HasMatch(list, key)
    PROVE  Matching(list, key) = {FirstMatch(list, key)}
  <1>1. /\ FirstMatch(list, key) \in Matching(list, key)
        /\ \A c \in list : c.name = key => c = FirstMatch(list, key)
    BY FirstMatchUnique DEF HasMatch, FirstMatch
  <1>2. \A c \in Matching(list, key) : c \in list /\ c.name = key
    BY NameAssumption DEF Matching, NormalizeConfigurationName, Config
  <1> QED
    BY <1>1, <1>2

\* What a call answers of the list it loaded is true of that list.
LEMMA DecideIsCurrent ==
    ASSUME NEW t \in Procs, NEW l \in SUBSET Config, DistinctNames(l), Decide(t, l),
           reply'.to = t, Effective' = l
    PROVE  IsCurrent(t)
  <1>0. \A label, k : ~Continue(t, label, k)
    BY SaysNothing
  <1>1. CASE op[t] = "list" /\ Reply(t, "OK", l)
    BY <1>1, ReplyFields DEF IsCurrent, Mutators
  <1>2. CASE op[t] = "get" /\ HasMatch(l, Key(t)) /\ Reply(t, "OK", {FirstMatch(l, Key(t))})
    BY <1>2, MatchIsFirst, ReplyFields DEF IsCurrent, Mutators
  <1>3. CASE op[t] = "create" /\ HasMatch(l, Key(t)) /\ Reply(t, "AlreadyExists", {})
    BY <1>3, ReplyFields DEF IsCurrent, HasMatch
  <1>4. CASE /\ op[t] \in {"get", "update", "delete"} /\ ~HasMatch(l, Key(t))
             /\ Reply(t, "NotFound", {})
    BY <1>4, ReplyFields DEF IsCurrent, HasMatch
  <1> QED
    BY <1>0, <1>1, <1>2, <1>3, <1>4 DEF Decide

\* A step of the process that answers, except a reload, gives a current answer.
LEMMA LoadAnswers ==
    ASSUME Durable, NEW t \in Procs, LoadStore(t) \/ LoadFile(t) \/ Seed(t), reply'.to = t
    PROVE  IsCurrent(t)
  <1>0. /\ \A label, l : ~Continue(t, label, l)
        /\ store \in SUBSET Config /\ block \in SUBSET Config
        /\ DistinctNames(store) /\ DistinctNames(block)
        /\ Fresh(t) /\ FileList = block
    BY SaysNothing, Uncut DEF Durable, Control, TypeInv, HostTypes, StoreTypeOK, Lists, Held,
       Clean, Distinct
  <1>1. CASE LoadStore(t)
    <2>1. UNCHANGED <<store, block>>
      BY <1>1 DEF LoadStore, LoadList, storeVars, fileVars, hostVars
    <2>2. CASE store # {} /\ Decide(t, store)
      BY <1>0, <2>1, <2>2, DecideIsCurrent DEF Effective
    <2>3. CASE op[t] = "start" /\ Reply(t, "OK", {})
      BY <2>3, ReplyFields DEF IsCurrent, Mutators
    <2> QED
      BY <1>0, <1>1, <2>2, <2>3 DEF LoadStore, LoadList
  <1>2. CASE LoadFile(t)
    <2>1. UNCHANGED <<store, FileList>> /\ block = {} /\ Decide(t, {})
      BY <1>0, <1>2 DEF LoadFile, storeVars, fileVars, hostVars, FileList
    <2>2. store = {}
      BY <1>0, <1>2, <2>1 DEF LoadFile, Fresh
    <2> QED
      BY <1>0, <2>1, <2>2, DecideIsCurrent DEF Effective
  <1>3. CASE Seed(t)
    <2>1. /\ pc[t] = "seed" /\ Decide(t, configurations[t])
          /\ store' = configurations[t] /\ UNCHANGED block
      BY <1>3 DEF Seed, SaveSucceeds, fileVars, hostVars
    <2>2. configurations[t] = block /\ block # {}
      BY <1>0, <2>1 DEF Fresh
    <2> QED
      BY <1>0, <2>1, <2>2, DecideIsCurrent DEF Effective
  <1> QED
    BY <1>1, <1>2, <1>3

\* Whatever other callers do between the lock and the answer, an answer that
\* a name is missing or exists, and the configuration or the list answered,
\* are true of the list in force at the step that gives them, while no write
\* of the file is cut in the middle of a block.
THEOREM AnswersStayCurrent == "torn" \notin Faults => (Spec => AnswersAreCurrent)
  <1> SUFFICES ASSUME "torn" \notin Faults PROVE Spec => AnswersAreCurrent
    OBVIOUS
  <1> DEFINE A == \A t \in Procs : reply'.to = t /\ op[t] # "" => IsCurrent(t)
  <1>1. Durable /\ [Next]_vars => [A]_vars
    <2> SUFFICES ASSUME Durable, Next, NEW t \in Procs, reply'.to = t, op[t] # ""
                 PROVE  IsCurrent(t)
      OBVIOUS
    <2>1. Call(t) \/ Acquire(t) \/ Step(t)
      BY OneAnswer
    <2>2. CASE Unassuming(t)
      BY <2>2 DEF Unassuming, IsCurrent
    <2>3. CASE Reload(t)
      <3>1. /\ op[t] \in Mutators \cup {"start"}
            /\ Reply(t, "OK", Answered(t))
        BY <2>3 DEF Reload, Acknowledge, Durable, Control, Order, Exclusive, Written
      <3>2. reply'.code = "OK" /\ op[t] \notin {"get", "list"}
        BY <3>1, ReplyFields DEF Mutators
      <3> QED
        BY <3>2 DEF IsCurrent
    <2> QED
      BY <2>1, <2>2, <2>3, LoadAnswers, OtherAnswers DEF Durable
  <1>2. []Durable /\ [][Next]_vars => [][A]_vars
    BY <1>1, PTL
  <1> QED
    BY <1>2, StaysDurable, PTL DEF Spec, AnswersAreCurrent

-----------------------------------------------------------------------------
(* What a call persists: one edit of a list that the answers allow, which  *)
(* does what the call was asked for                                        *)

\* l is one edit away from a list that may be in force.
EditsKnown(l) == \E k \in Catalogue!Known : KeyFree(k) /\ Catalogue!OneEdit(k, l)

\* The list l is what t was asked for.  Its inline certificate is in l or, when
\* it has been moved, in its file; only the configuration edited has one.
Serves(t, l) ==
    IF op[t] = "delete"
      THEN Key(t) \notin NamesOf(l)
      ELSE /\ \A c \in l : c.pem # "" => c.name = Key(t)
           /\ \E c \in l :
                 /\ c.name = Key(t) /\ c.body = arg[t].body
                 /\ arg[t].pem # "" =>
                       c.pem = arg[t].pem \/ (c.path \in CertPaths /\ certs[c.path] = arg[t].pem)

Prepared(t) ==
    pc[t] \in Exclusive /\ op[t] \in Mutators =>
        EditsKnown(configurations[t]) /\ Serves(t, configurations[t])

Worthy == Durable /\ \A t \in Procs : Prepared(t)

\* The edit of a create, update or delete does what the call was asked for.
LEMMA EditServes ==
    ASSUME TypeInv, NEW t \in Procs, NEW l \in SUBSET Config, DistinctNames(l), KeyFree(l),
           op[t] \in Mutators, HasMatch(l, Key(t)) = (op[t] # "create")
    PROVE  Serves(t, Edited(t, l))
  <1>0. \A c \in l : NormalizeConfigurationName(c.name) = c.name /\ c.pem = ""
    BY NameAssumption DEF KeyFree, NormalizeConfigurationName, Config
  <1> DEFINE r == Stored(arg[t])
             m == FirstMatch(l, Key(t))
  <1>1. op[t] \in {"create", "update"} =>
           r.name = Key(t) /\ r.body = arg[t].body /\ r.pem = arg[t].pem
    BY StoredTypes DEF TypeInv, CallTypes, Key
  <1>2. op[t] # "create" => \A c \in l : c.name = Key(t) => c = m
    BY FirstMatchUnique
  <1> HIDE DEF r, m
  <1>3. CASE op[t] \in {"create", "update"}
    <2>1. \E k \in SUBSET l : Edited(t, l) = k \cup {r}
      BY <1>3 DEF Edited, r, m
    <2>2. op[t] # "delete"
      BY <1>3
    <2> QED
      BY <1>0, <1>1, <1>3, <2>1, <2>2 DEF Serves
  <1>4. CASE op[t] = "delete"
    <2>1. Edited(t, l) = l \ {m}
      BY <1>4 DEF Edited, m
    <2> QED
      BY <1>2, <1>4, <2>1 DEF Serves, NamesOf
  <1> QED
    BY <1>3, <1>4 DEF Mutators

\* A step of t leaves the lists of the others prepared, for they are not at
\* work while t changes what they rely on.
LEMMA OthersPrepared ==
    ASSUME Worthy, NEW t \in Procs, Moves(t), \A p \in Procs \ {t} : arg'[p] = arg[p],
           \/ pc[t] \in Exclusive
           \/ UNCHANGED <<certs, lost, possible>>
    PROVE  \A p \in Procs \ {t} : Prepared(p)'
  <1> SUFFICES ASSUME NEW p \in Procs, p # t PROVE Prepared(p)'
    OBVIOUS
  <1>1. /\ pc'[p] = pc[p] /\ op'[p] = op[p] /\ arg'[p] = arg[p]
        /\ configurations'[p] = configurations[p]
    BY DEF Moves, Worthy, Durable, Control, TypeInv, CallTypes
  <1>2. CASE pc[t] \in Exclusive
    <2>1. pc'[p] \notin Exclusive
      BY <1>1, <1>2, Alone DEF Worthy, Durable
    <2> QED
      BY <2>1 DEF Prepared
  <1>3. CASE UNCHANGED <<certs, lost, possible>>
    <2>1. Prepared(p)
      BY DEF Worthy
    <2>2. EditsKnown(configurations[p]) => EditsKnown(configurations[p])'
      BY <1>1, <1>3 DEF EditsKnown, Catalogue!Known
    <2>3. Serves(p, configurations[p]) => Serves(p, configurations[p])'
      BY <1>1, <1>3 DEF Serves, Key
    <2> QED
      BY <1>1, <2>1, <2>2, <2>3 DEF Prepared
  <1> QED
    BY <1>2, <1>3

\* An answer leaves nothing to be persisted by its call.
LEMMA ReplyPrepared ==
    ASSUME Worthy, NEW t \in Procs, NEW code, NEW list, Reply(t, code, list),
           pc[t] \in Exclusive \/ UNCHANGED <<certs, lost, possible>>
    PROVE  \A p \in Procs : Prepared(p)'
  <1>1. Moves(t) /\ pc'[t] \notin Exclusive
    BY ReplyMoves DEF Worthy, Durable, Control, Exclusive, Written
  <1>2. \A p \in Procs \ {t} : arg'[p] = arg[p]
    BY DEF Worthy, Durable, Control, TypeInv, CallTypes, Reply
  <1>3. Prepared(t)'
    BY <1>1 DEF Prepared
  <1> QED
    BY <1>1, <1>2, <1>3, OthersPrepared

\* A call goes on with a list that is what it was asked for.
LEMMA ContinuePrepared ==
    ASSUME Worthy, NEW t \in Procs, NEW label, NEW l, Continue(t, label, l),
           pc[t] \in Exclusive \/ UNCHANGED <<certs, lost, possible>>,
           label \in Exclusive /\ op[t] \in Mutators => EditsKnown(l)' /\ Serves(t, l)'
    PROVE  \A p \in Procs : Prepared(p)'
  <1>1. Moves(t) /\ pc'[t] = label /\ op'[t] = op[t] /\ configurations'[t] = l /\ arg' = arg
    BY ContinueMoves DEF Worthy, Durable, Control, Continue
  <1>2. Prepared(t)'
    BY <1>1 DEF Prepared, EditsKnown, Serves, Key
  <1> QED
    BY <1>1, <1>2, OthersPrepared

\* A quiet step persists nothing and changes no list that is persisted.
LEMMA QuietPrepared ==
    ASSUME Worthy, NEW t \in Procs, Quiet(t)
    PROVE  \A p \in Procs : Prepared(p)'
  <1>0. /\ configurations \in [Procs -> SUBSET Config]
        /\ arg \in [Procs -> Requests]
    BY DEF Worthy, Durable, Control, TypeInv, CallTypes
  <1>1. \A p \in Procs \ {t} : configurations'[p] = configurations[p]
    BY <1>0 DEF Quiet
  <1>2. Moves(t)
    BY <1>1 DEF Quiet, Moves
  <1>3. \A p \in Procs \ {t} : arg'[p] = arg[p]
    <2>1. arg' = [arg EXCEPT ![t] = arg'[t]]
      BY DEF Quiet
    <2> QED
      BY <1>0, <2>1
  <1>4. pc'[t] \notin Exclusive /\ UNCHANGED <<certs, lost, possible>>
    BY DEF Quiet
  <1>5. Prepared(t)'
    BY <1>4 DEF Prepared
  <1> QED
    BY <1>2, <1>3, <1>4, <1>5, OthersPrepared

\* The decision on a list that may be in force is one edit of it.
LEMMA DecidePrepared ==
    ASSUME Worthy, NEW t \in Procs, NEW l \in SUBSET Config, Clean(l), l \in Catalogue!Known,
           Decide(t, l), UNCHANGED <<certs, lost, possible>>
    PROVE  \A p \in Procs : Prepared(p)'
  <1>1. CASE \E code, list : Reply(t, code, list)
    BY <1>1, ReplyPrepared
  <1>2. CASE op[t] = "start" /\ Continue(t, "certs", l)
    BY <1>2, ContinuePrepared DEF Mutators
  <1>3. CASE /\ op[t] \in Mutators
             /\ HasMatch(l, Key(t)) = (op[t] # "create")
             /\ Continue(t, "certs", Edited(t, l))
    <2>1. KeyFree(l) /\ Catalogue!OneEdit(l, Edited(t, l)) /\ Serves(t, Edited(t, l))
      BY <1>3, EditIsOne, EditServes DEF Worthy, Durable, Control, Clean, Distinct
    <2>2. PICK m : m = Edited(t, l)
      OBVIOUS
    <2>3. Continue(t, "certs", m) /\ UNCHANGED <<op, arg>>
      BY <1>3, <2>2 DEF Continue
    <2>4. EditsKnown(m)'
      BY <2>1, <2>2 DEF EditsKnown, Catalogue!Known
    <2>5. Serves(t, m)'
      BY <2>1, <2>2, <2>3 DEF Serves, Key
    <2> QED
      BY <2>3, <2>4, <2>5, ContinuePrepared
  <1> QED
    BY <1>1, <1>2, <1>3 DEF Decide

\* Whatever list a call loads may be in force.
LEMMA LoadStepPrepared ==
    ASSUME Worthy, NEW t \in Procs,
           LoadStore(t) \/ LoadFile(t) \/ Seed(t) \/ SeedFails(t)
    PROVE  \A p \in Procs : Prepared(p)'
  <1>0. /\ store \in SUBSET Config /\ block \in SUBSET Config
        /\ Clean(store) /\ Clean(block) /\ Fresh(t) /\ FileList = block
        /\ "loadFile" \notin Exclusive /\ "seed" \notin Exclusive /\ "load" \notin Exclusive
    BY Uncut DEF Worthy, Durable, Control, TypeInv, HostTypes, StoreTypeOK, Lists, Held,
       Exclusive, Written
  <1>1. /\ pc[t] \in {"load", "loadFile", "seed"} /\ HoldsLock(t)
        /\ UNCHANGED <<certs, lost, possible>>
    BY DEF LoadStore, LoadList, LoadFile, Seed, SeedFails, Worthy, Durable, Control, Locking,
       hostVars, ghostVars
  <1>2. InFlight = {}
    BY <1>0, <1>1, NoneInFlight DEF Worthy, Durable
  <1>3. /\ store # {} => store \in Catalogue!Known
        /\ block \in Catalogue!Known
    BY <1>2 DEF Worthy, Durable, Accounted, Explanations, Catalogue!Known
  <1>4. CASE LoadStore(t)
    <2>1. \/ store # {} /\ Decide(t, store)
          \/ Reply(t, "OK", {})
          \/ Continue(t, "loadFile", {})
      BY <1>4 DEF LoadStore, LoadList
    <2> QED
      BY <1>0, <1>1, <1>3, <2>1, DecidePrepared, ReplyPrepared, ContinuePrepared
  <1>5. CASE LoadFile(t)
    <2>1. \/ block = {} /\ Decide(t, block)
          \/ Continue(t, "seed", block)
      BY <1>0, <1>5 DEF LoadFile
    <2> QED
      BY <1>0, <1>1, <1>3, <2>1, DecidePrepared, ContinuePrepared
  <1>6. CASE Seed(t)
    <2>1. configurations[t] = block /\ Decide(t, block)
      BY <1>0, <1>6 DEF Seed, Fresh
    <2> QED
      BY <1>0, <1>1, <1>3, <2>1, DecidePrepared
  <1>7. CASE SeedFails(t)
    <2>1. \E code, list : Reply(t, code, list)
      BY <1>7 DEF SeedFails, LoadError
    <2> QED
      BY <1>1, <2>1, ReplyPrepared
  <1> QED
    BY <1>4, <1>5, <1>6, <1>7

\* Persisting the list keeps it what it is, but for the certificate that moves
\* to its file.
LEMMA PersistStepPrepared ==
    ASSUME Worthy, NEW t \in Procs,
           \/ EnsureCertificate(t) \/ EnsureCertificateFails(t) \/ ReadBefore(t)
           \/ WriteFile(t) \/ WriteFileFails(t)
           \/ SaveStore(t) \/ SaveStoreFails(t) \/ UndoWrite(t)
           \/ Reload(t) \/ ReloadRefused(t) \/ RestoreFile(t) \/ ReloadRestored(t)
    PROVE  \A p \in Procs : Prepared(p)'
  <1>1. pc[t] \in Exclusive
    BY DEF EnsureCertificate, MoveCertificate, EnsureCertificateFails, WritesCertificate,
       ReadBefore, KeepFile, WriteFile, WriteBehind, WriteFileFails, SaveStore, SaveStoreFails,
       UndoWrite, UndoTo, Reload, Acknowledge, ReloadRefused, RestoreFile, ReloadRestored,
       Exclusive, Written
  <1>2. op[t] \in Mutators => EditsKnown(configurations[t]) /\ Serves(t, configurations[t])
    BY <1>1 DEF Worthy, Prepared
  <1>3. CASE EnsureCertificate(t)
    <2>1. PICK c \in configurations[t] :
             /\ NeedsCertificate(c)
             /\ certs' = [certs EXCEPT ![CertFile[c.name]] = c.pem]
             /\ Continue(t, "certs", (configurations[t] \ {c}) \cup {EnsureCertificatePath(c)})
             /\ UNCHANGED ghostVars
      BY <1>3 DEF EnsureCertificate, MoveCertificate, WritesCertificate
    <2> DEFINE e == EnsureCertificatePath(c)
    <2> PICK l : l = (configurations[t] \ {c}) \cup {e}
      OBVIOUS
    <2>2. /\ configurations[t] \in SUBSET Config /\ c \in Config
          /\ certs \in [CertPaths -> PEMs \cup {""}]
          /\ DistinctNames(configurations[t])
      BY DEF Worthy, Durable, Control, TypeInv, CallTypes, HostTypes, Lists, Editable, Distinct
    <2>3. /\ e.name = c.name /\ e.body = c.body /\ e.path = CertFile[c.name] /\ e.pem = ""
          /\ c.path = "" /\ c.pem # ""
      BY <2>1, <2>2 DEF EnsureCertificatePath, NeedsCertificate, Config
    <2>7. CertFile[c.name] \in CertPaths /\ certs'[CertFile[c.name]] = c.pem
             /\ "" \notin CertPaths
      <3>1. CertFile[c.name] \in CertPaths /\ "" \notin CertPaths
        BY <2>2, CertAssumption DEF Config
      <3> QED
        BY <2>1, <2>2, <3>1
    <2> HIDE DEF e
    <2>4. ASSUME op[t] \in Mutators PROVE EditsKnown(l)'
      <3>1. PICK k \in Catalogue!Known : KeyFree(k) /\ Catalogue!OneEdit(k, configurations[t])
        BY <1>2, <2>4 DEF EditsKnown
      <3>2. Catalogue!OneEdit(k, l)
        BY <2>1, <2>2, <3>1, CertificateEdit DEF e
      <3>3. k \in Catalogue!Known'
        BY <2>1, <3>1 DEF Catalogue!Known, ghostVars
      <3> QED
        BY <3>1, <3>2, <3>3 DEF EditsKnown
    <2>5. ASSUME op[t] \in Mutators PROVE Serves(t, l)'
      <3>1. UNCHANGED <<op, arg>> /\ Serves(t, configurations[t]) /\ Key(t)' = Key(t)
        BY <1>2, <2>1, <2>5 DEF Continue, Key
      <3>2. CASE op[t] = "delete"
        <4>1. Key(t) \notin NamesOf(l)
          BY <2>1, <2>3, <3>1, <3>2 DEF Serves, NamesOf
        <4> QED
          BY <3>1, <3>2, <4>1 DEF Serves, NamesOf
      <3>3. CASE op[t] # "delete"
        <4>1. c.name = Key(t)
          BY <2>1, <2>3, <3>1, <3>3 DEF Serves
        <4>2. PICK d \in configurations[t] :
                 /\ d.name = Key(t) /\ d.body = arg[t].body
                 /\ arg[t].pem # "" =>
                       d.pem = arg[t].pem \/ (d.path \in CertPaths /\ certs[d.path] = arg[t].pem)
          BY <3>1, <3>3 DEF Serves
        <4>3. c = d
          BY <2>1, <2>2, <4>1, <4>2 DEF DistinctNames
        <4>4. e.body = arg[t].body /\ (arg[t].pem # "" => c.pem = arg[t].pem)
          BY <2>3, <2>7, <4>2, <4>3
        <4>5. \A f \in l : f.pem # "" => f.name = Key(t)
          BY <2>3, <3>1, <3>3 DEF Serves
        <4> QED
          BY <2>3, <2>7, <3>1, <3>3, <4>1, <4>4, <4>5 DEF Serves
      <3> QED
        BY <3>2, <3>3
    <2> QED
      BY <1>1, <2>1, <2>4, <2>5, ContinuePrepared DEF e
  <1>4. CASE \E code, list : Reply(t, code, list)
    BY <1>1, <1>4, ReplyPrepared
  <1>5. CASE \E label : Continue(t, label, configurations[t])
                           /\ UNCHANGED <<certs, possible>> /\ (lost => lost')
    <2>1. PICK label : Continue(t, label, configurations[t])
                          /\ UNCHANGED <<certs, possible>> /\ (lost => lost')
      BY <1>5
    <2>2. PICK l : l = configurations[t]
      OBVIOUS
    <2>3. Continue(t, label, l) /\ UNCHANGED <<op, arg>>
      BY <2>1, <2>2 DEF Continue
    <2>4. ASSUME op[t] \in Mutators PROVE EditsKnown(l)' /\ Serves(t, l)'
      <3>1. EditsKnown(l) /\ Serves(t, l)
        BY <1>2, <2>2, <2>4
      <3>2. Catalogue!Known \subseteq Catalogue!Known'
        BY <2>1 DEF Catalogue!Known
      <3>3. EditsKnown(l)'
        BY <3>1, <3>2 DEF EditsKnown
      <3>4. Serves(t, l)'
        BY <2>1, <2>3, <3>1 DEF Serves, Key
      <3> QED
        BY <3>3, <3>4
    <2> QED
      BY <1>1, <2>3, <2>4, ContinuePrepared
  <1>6. CASE \/ EnsureCertificateFails(t) \/ WriteFileFails(t) \/ UndoWrite(t)
             \/ Reload(t) \/ ReloadRestored(t)
    BY <1>4, <1>6 DEF EnsureCertificateFails, WriteFileFails, UndoWrite, UndoTo, Reload,
       Acknowledge, ReloadRestored
  <1>7. CASE WriteFile(t) \/ SaveStore(t) \/ SaveStoreFails(t) \/ ReloadRefused(t)
    BY <1>5, <1>7 DEF WriteFile, WriteBehind, SaveStore, SaveStoreFails, ReloadRefused, hostVars,
       ghostVars
  <1>8. CASE ReadBefore(t)
    BY <1>4, <1>5, <1>8 DEF ReadBefore, KeepFile, hostVars, ghostVars
  <1>9. CASE RestoreFile(t)
    BY <1>5, <1>9, Uncut DEF RestoreFile, Worthy
  <1> QED
    BY <1>3, <1>6, <1>7, <1>8, <1>9

\* No process is at work once the process has ended or is down.
LEMMA LifecyclePrepared ==
    ASSUME Worthy,
           \/ Boot \/ Shutdown \/ Stop \/ Crash \/ ContainerReset
           \/ \E t \in Procs : ReloadPanics(t)
    PROVE  \A p \in Procs : Prepared(p)'
  <1>0. Main \in Procs /\ TypeInv
    BY DEF Procs, Worthy, Durable, Control
  <1>1. CASE Boot \/ Shutdown \/ OnStop \/ GracefulStop
    BY <1>0, <1>1, LifecycleIsQuiet, QuietPrepared
  <1>2. CASE Exit \/ Crash \/ \E t \in Procs : ReloadPanics(t)
    <2>1. ProcessEnds
      BY <1>2 DEF Exit, Crash, ReloadPanics
    <2> QED
      BY <2>1 DEF ProcessEnds, Prepared, Exclusive, Written
  <1>3. CASE ContainerReset
    <2>1. pc' = pc /\ pc[Main] = "down"
      BY <1>3 DEF ContainerReset
    <2>2. \A p \in Procs : pc[p] \in {"idle", "down"}
      BY <2>1 DEF Worthy, Durable, Control, Order
    <2> QED
      BY <2>1, <2>2 DEF Prepared, Exclusive, Written
  <1> QED
    BY <1>1, <1>2, <1>3 DEF Stop

\* Nothing is persisted at first.
LEMMA WorthyInit == Init /\ "torn" \notin Faults => Worthy
  <1>1. Init => \A t \in Procs : Prepared(t)
    BY DEF Init, Prepared, Mutators
  <1> QED
    BY <1>1, DurableInit DEF Worthy

\* And every step of the system keeps Worthy.
LEMMA WorthyNext == Worthy /\ [Next]_vars => Worthy'
  <1> SUFFICES ASSUME Worthy, [Next]_vars PROVE \A p \in Procs : Prepared(p)'
    BY DurableNext DEF Worthy
  <1>1. CASE UNCHANGED vars
    BY <1>1 DEF vars, callVars, hostVars, ghostVars, Worthy, Prepared, EditsKnown,
       Catalogue!Known, Serves, Key
  <1>2. ASSUME NEW t \in Procs, Call(t) \/ Acquire(t) \/ Step(t)
        PROVE  \A p \in Procs : Prepared(p)'
    <2>1. Call(t) \/ Acquire(t) => Quiet(t)
      BY CallsAreQuiet, MovesAreQuiet DEF Worthy, Durable, Control
    <2>2. CASE Quiet(t)
      BY <2>2, QuietPrepared
    <2>3. CASE \/ CreateClient(t) \/ CreateClientFails(t) \/ GetStats(t)
               \/ LoadStoreFails(t) \/ LoadFileFails(t)
      BY <2>3, MovesAreQuiet, QuietPrepared DEF Worthy, Durable, Control
    <2> QED
      BY <1>2, <2>1, <2>2, <2>3, LoadStepPrepared, PersistStepPrepared, LifecyclePrepared
         DEF Step
  <1>3. CASE Boot \/ Shutdown \/ Stop \/ Crash \/ ContainerReset
    BY <1>3, LifecyclePrepared
  <1> QED
    BY <1>1, <1>2, <1>3 DEF Next

\* So it holds in every reachable state.
LEMMA StaysWorthy == ASSUME "torn" \notin Faults PROVE Spec => []Worthy
  <1>1. Init => Worthy
    BY WorthyInit
  <1> QED
    BY <1>1, WorthyNext, PTL DEF Spec

-----------------------------------------------------------------------------
(* A success has been applied *)

\* HAProxy loads the block that was written.
LEMMA ReloadsBlock ==
    ASSUME Durable, ReloadSucceeds
    PROVE  running' = Loaded(block, certs)
  <1>1. rest.entries = {}
    BY Uncut DEF NoRest
  <1>2. \A left \in SUBSET rest.entries : block \cup left = block
    BY <1>1
  <1> QED
    BY <1>2 DEF ReloadSucceeds

\* The reload that ends a create, update or delete finds the list persisted,
\* and HAProxy then runs the configuration with the certificate supplied.
LEMMA ReloadApplies ==
    ASSUME Worthy, NEW t \in Procs, Reload(t), op[t] \in Mutators
    PROVE  IsApplied(t)
  <1>1. /\ pc[t] = "reload" /\ ReloadSucceeds /\ running' = Loaded(block, certs)
        /\ Reply(t, "OK", Answered(t)) /\ UNCHANGED <<store, block, rest>>
    BY ReloadsBlock DEF Reload, Acknowledge, storeVars, fileVars, Worthy
  <1>2. block = configurations[t] /\ store = configurations[t]
    BY <1>1 DEF Worthy, Durable, Fresh
  <1>3. Serves(t, block) /\ Clean(block) /\ DistinctNames(block)
    BY <1>1, <1>2 DEF Worthy, Prepared, Durable, Lists, Held, Clean, Distinct, Exclusive,
       Written
  <1>4. RunningList' = block
    BY <1>1, Uncut DEF Worthy
  <1>7. FileList' = block
    BY <1>1, Uncut DEF Worthy, FileList
  <1>5. op[t] = "delete" => Key(t) \notin NamesOf(block')
    BY <1>1, <1>3 DEF Serves
  <1>6. ASSUME op[t] # "delete"
        PROVE  \E r \in running' :
                  /\ r.cfg.name = Key(t) /\ r.cfg.body = arg[t].body
                  /\ reply'.list = {r.cfg}
                  /\ arg[t].pem # "" => r.pem = arg[t].pem
    <2>1. PICK c \in block :
             /\ c.name = Key(t) /\ c.body = arg[t].body
             /\ arg[t].pem # "" => c.path \in CertPaths /\ certs[c.path] = arg[t].pem
      BY <1>3, <1>6 DEF Serves, Clean, KeyFree
    <2>2. PICK r : r = Entry(c, certs)
      OBVIOUS
    <2>3. r \in running'
      BY <1>1, <2>2 DEF Loaded
    <2>4. r.cfg = c /\ (arg[t].pem # "" => r.pem = arg[t].pem)
      BY <2>1, <2>2 DEF Entry
    <2>5. Answered(t) = {c}
      <3>1. op[t] \in {"create", "update"}
        BY <1>6 DEF Mutators
      <3> QED
        BY <1>2, <1>3, <2>1, <3>1 DEF Answered, DistinctNames
    <2>6. reply'.list = {c}
      BY <1>1, <2>5, ReplyFields
    <2> QED
      BY <2>1, <2>3, <2>4, <2>6
  <1> QED
    BY <1>1, <1>2, <1>4, <1>5, <1>6, <1>7 DEF IsApplied

\* Whatever other calls, failures and restarts came before, a create, update
\* or delete that answers OK has reached the store, the file and HAProxy, which
\* runs the configuration of the request with the certificate it supplied,
\* while no write of the file is cut in the middle of a block.
THEOREM SuccessIsApplied == "torn" \notin Faults => (Spec => SuccessMeansApplied)
  <1> SUFFICES ASSUME "torn" \notin Faults PROVE Spec => SuccessMeansApplied
    OBVIOUS
  <1> DEFINE A == \A t \in Procs :
                     reply'.to = t /\ reply'.code = "OK" /\ op[t] \in Mutators => IsApplied(t)
  <1>1. Worthy /\ [Next]_vars => [A]_vars
    <2> SUFFICES ASSUME Worthy, Next,
                        NEW t \in Procs, reply'.to = t, reply'.code = "OK", op[t] \in Mutators
                 PROVE  IsApplied(t)
      OBVIOUS
    <2>1. Reload(t)
      BY SuccessIsReload DEF Worthy, Durable
    <2> QED
      BY <2>1, ReloadApplies
  <1>2. []Worthy /\ [][Next]_vars => [][A]_vars
    BY <1>1, PTL
  <1> QED
    BY <1>2, StaysWorthy, PTL DEF Spec, SuccessMeansApplied

-----------------------------------------------------------------------------
(* The service implements the catalogue *)

\* A step of the service as the clients see it.
CatalogueStep == [Catalogue!Next]_<<possible, lost>>

\* A step that answers no list and loses no content is invisible.
LEMMA InvisibleStep ==
    ASSUME UNCHANGED <<possible, lost>>
    PROVE  CatalogueStep
  BY DEF CatalogueStep

\* Losing the content of the file is all that a failed write does by itself.
LEMMA LoseStep ==
    ASSUME possible' = possible, lost' = lost \/ lost' = TRUE
    PROVE  CatalogueStep
  BY DEF CatalogueStep, Catalogue!Next, Catalogue!Lose

\* A call that fails, or whose process dies, after it wrote leaves its edit in
\* doubt; the synchronisation at startup has none to leave.
LEMMA DoubtStep ==
    ASSUME Worthy, possible' = possible \cup InFlight, lost' = lost \/ lost' = TRUE
    PROVE  CatalogueStep
  <1>1. CASE InFlight = {}
    BY <1>1, LoseStep
  <1>2. ASSUME NEW t \in Procs, pc[t] \in Written PROVE CatalogueStep
    <2>1. /\ InFlight = {configurations[t]} /\ pc[t] \in Exclusive
          /\ op[t] \in Mutators \cup {"start"}
      BY <1>2, Alone DEF Exclusive, Worthy, Durable, Control, Order
    <2>2. CASE op[t] = "start"
      <3>1. configurations[t] \in possible
        BY <2>1, <2>2 DEF Worthy, Durable, Known, Knows
      <3> QED
        BY <2>1, <3>1, LoseStep
    <2>3. CASE op[t] \in Mutators
      <3>1. PICK k \in Catalogue!Known : Catalogue!OneEdit(k, configurations[t])
        BY <2>1, <2>3 DEF Worthy, Prepared, EditsKnown
      <3>2. Catalogue!Doubt
        BY <2>1, <3>1 DEF Catalogue!Doubt
      <3> QED
        BY <3>2 DEF CatalogueStep, Catalogue!Next
    <2> QED
      BY <2>1, <2>2, <2>3
  <1> QED
    BY <1>1, <1>2 DEF InFlight

\* A failure after the write, without a crash, is the same to the client.
LEMMA FailureStep ==
    ASSUME Worthy, NEW t \in Procs, pc[t] \in Exclusive, MayRemain(t),
           lost' = lost \/ lost' = TRUE
    PROVE  CatalogueStep
  <1>1. op[t] \in Mutators \cup {"start"}
    BY DEF Worthy, Durable, Control, Order
  <1>2. CASE op[t] \notin Mutators
    BY <1>2, LoseStep DEF MayRemain
  <1>3. CASE op[t] \in Mutators
    <2>1. possible' = possible \cup {configurations[t]}
      BY <1>3 DEF MayRemain
    <2>2. PICK k \in Catalogue!Known : Catalogue!OneEdit(k, configurations[t])
      BY <1>3 DEF Worthy, Prepared, EditsKnown
    <2>3. Catalogue!Doubt
      BY <2>1, <2>2 DEF Catalogue!Doubt
    <2> QED
      BY <2>3 DEF CatalogueStep, Catalogue!Next
  <1> QED
    BY <1>2, <1>3

\* A successful reload acknowledges the edit of its call, or ends a recovery.
LEMMA SuccessStep ==
    ASSUME Worthy, NEW t \in Procs, Reload(t)
    PROVE  CatalogueStep
  <1>1. /\ pc[t] = "reload" /\ lost' = FALSE
        /\ possible' = IF op[t] \in Mutators THEN {configurations[t]} ELSE possible
    BY DEF Reload, Acknowledge
  <1>2. CASE op[t] \in Mutators
    <2>1. PICK k \in Catalogue!Known : Catalogue!OneEdit(k, configurations[t])
      BY <1>1, <1>2 DEF Worthy, Prepared, EditsKnown, Exclusive, Written
    <2>2. Catalogue!Acknowledge
      BY <1>1, <1>2, <2>1 DEF Catalogue!Acknowledge
    <2> QED
      BY <2>2 DEF CatalogueStep, Catalogue!Next
  <1>3. CASE op[t] \notin Mutators
    <2>1. Catalogue!Recover
      BY <1>1, <1>3 DEF Catalogue!Recover
    <2> QED
      BY <2>1 DEF CatalogueStep, Catalogue!Next
  <1> QED
    BY <1>2, <1>3

\* Every step of a process is a step of the catalogue or invisible to it.
LEMMA ProcessStep ==
    ASSUME Worthy, NEW t \in Procs, Call(t) \/ Acquire(t) \/ Step(t)
    PROVE  CatalogueStep
  <1>1. CASE \/ Call(t) \/ Acquire(t)
             \/ CreateClient(t) \/ CreateClientFails(t) \/ GetStats(t)
             \/ LoadStoreFails(t) \/ LoadFileFails(t)
    <2>1. Quiet(t)
      BY <1>1, CallsAreQuiet, MovesAreQuiet DEF Worthy, Durable, Control
    <2> QED
      BY <2>1, InvisibleStep DEF Quiet
  <1>2. CASE \/ LoadStore(t) \/ LoadFile(t) \/ Seed(t) \/ SeedFails(t)
             \/ EnsureCertificate(t) \/ EnsureCertificateFails(t) \/ ReadBefore(t)
             \/ WriteFile(t) \/ SaveStore(t) \/ SaveStoreFails(t) \/ ReloadRefused(t)
    BY <1>2, InvisibleStep DEF LoadStore, LoadList, LoadFile, Seed, SeedFails,
       EnsureCertificate, MoveCertificate, EnsureCertificateFails, ReadBefore, KeepFile,
       WriteFile, WriteBehind, SaveStore, SaveStoreFails, ReloadRefused, ghostVars
  <1>3. \A l, left : FileWriteFails(l, left) => lost' = lost \/ lost' = TRUE
    BY DEF FileWriteFails, WriteStops
  <1>4. CASE WriteFileFails(t) \/ RestoreFile(t) \/ UndoWrite(t) \/ ReloadRestored(t)
    <2>1. /\ pc[t] \in Exclusive /\ (lost' = lost \/ lost' = TRUE)
          /\ possible' = possible \/ MayRemain(t)
      BY <1>3, <1>4 DEF WriteFileFails, RestoreFile, UndoWrite, UndoTo, ReloadRestored, Exclusive,
         Written
    <2> QED
      BY <2>1, LoseStep, FailureStep
  <1>5. CASE ReloadPanics(t)
    BY <1>5, DoubtStep DEF ReloadPanics
  <1> QED
    BY <1>1, <1>2, <1>4, <1>5, SuccessStep DEF Step

\* So is every step of the lifecycle.
LEMMA LifecycleStep ==
    ASSUME Worthy, Boot \/ Shutdown \/ Stop \/ Crash \/ ContainerReset
    PROVE  CatalogueStep
  <1>1. CASE Boot \/ Shutdown \/ Stop
    BY <1>1, InvisibleStep DEF Boot, Shutdown, Stop, OnStop, GracefulStop, Drain, Exit, ghostVars
  <1>2. CASE Crash
    <2>1. possible' = possible \cup InFlight /\ (lost' = lost \/ lost' = TRUE)
      BY <1>2 DEF Crash, DiesWriting, WriteStops
    <2> QED
      BY <2>1, DoubtStep
  <1>3. CASE ContainerReset
    BY <1>3, LoseStep DEF ContainerReset
  <1> QED
    BY <1>1, <1>2, <1>3

\* The service implements the catalogue of its clients for any number of them
\* and any faults but a write cut in the middle of a block: a success makes its
\* one edit of a list in force the list in force, so no update is lost to
\* another, and a failure leaves at most its own edit in doubt.
THEOREM CatalogueImplemented == "torn" \notin Faults => (Spec => ImplementsCatalogue)
  <1> SUFFICES ASSUME "torn" \notin Faults PROVE Spec => ImplementsCatalogue
    OBVIOUS
  <1>1. Init => Catalogue!Init
    BY DEF Init, Catalogue!Init
  <1>2. Worthy /\ [Next]_vars => [Catalogue!Next]_<<possible, lost>>
    <2> SUFFICES ASSUME Worthy, [Next]_vars PROVE CatalogueStep
      BY DEF CatalogueStep
    <2>1. CASE UNCHANGED vars
      BY <2>1, InvisibleStep DEF vars, ghostVars
    <2>2. CASE Next
      BY <2>2, ProcessStep, LifecycleStep DEF Next
    <2> QED
      BY <2>1, <2>2
  <1> QED
    BY <1>1, <1>2, StaysWorthy, PTL DEF Spec, ImplementsCatalogue, Catalogue!Spec
=============================================================================
