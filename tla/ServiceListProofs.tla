------------------------- MODULE ServiceListProofs --------------------------
(***************************************************************************)
(* The lists of HaproxyService: their names are unique, key material stays *)
(* out of the store, the file and HAProxy, and every certificate that a    *)
(* list names has its file.                                                *)
(***************************************************************************)
EXTENDS ServiceControlProofs

(* Steps that touch neither the host nor the store *)

\* t only moves outside the persistence, keeping or dropping its list.
Quiet(t) ==
    /\ store' = store /\ block' = block /\ certs' = certs /\ running' = running
    /\ rest' = rest /\ restBefore' = restBefore
    /\ lost' = lost /\ possible' = possible
    /\ pc[t] \notin Exclusive
    /\ pc' = [pc EXCEPT ![t] = pc'[t]]
    /\ pc'[t] \notin {"loadFile", "seed"} \cup Exclusive
    /\ op' = [op EXCEPT ![t] = op'[t]] /\ arg' = [arg EXCEPT ![t] = arg'[t]]
    /\ configurations' \in {configurations, [configurations EXCEPT ![t] = {}]}
    /\ before' \in {before, {}}
    /\ writer # t => before' = before

\* An answer given before anything was written is quiet.
LEMMA ReplyIsQuiet ==
    ASSUME TypeInv, NEW t \in Procs, NEW code, NEW list, Reply(t, code, list),
           UNCHANGED <<storeVars, hostVars, ghostVars>>, pc[t] \notin Exclusive
    PROVE  Quiet(t)
  BY DEF TypeInv, CallTypes, Reply, Goto, Quiet, storeVars, fileVars, hostVars, ghostVars,
     Exclusive, Written

\* So is a move to a label outside the persistence.
LEMMA MoveIsQuiet ==
    ASSUME TypeInv, NEW t \in Procs, NEW label, label \notin {"loadFile", "seed"} \cup Exclusive,
           Goto(t, label), op' = [op EXCEPT ![t] = op'[t]], arg' = [arg EXCEPT ![t] = arg'[t]],
           UNCHANGED <<configurations, before, storeVars, hostVars, ghostVars>>,
           pc[t] \notin Exclusive
    PROVE  Quiet(t)
  BY DEF TypeInv, CallTypes, Goto, Quiet, storeVars, fileVars, hostVars, ghostVars

\* So is the return from getOrCreateClient.
LEMMA WithClientIsQuiet ==
    ASSUME TypeInv, NEW t \in Procs, WithClient(t),
           UNCHANGED <<storeVars, hostVars, ghostVars>>, pc[t] \notin Exclusive
    PROVE  Quiet(t)
  <1>1. {"stats", "lock"} \cap ({"loadFile", "seed"} \cup Exclusive) = {}
    BY DEF Exclusive, Written
  <1>2. CASE op[t] = "delete" /\ Key(t) = ""
    BY <1>2, ReplyIsQuiet DEF WithClient
  <1>3. CASE ~(op[t] = "delete" /\ Key(t) = "")
    <2>1. PICK label \in {"stats", "lock"} : Goto(t, label)
      BY <1>3 DEF WithClient
    <2>2. op' = [op EXCEPT ![t] = op'[t]] /\ arg' = [arg EXCEPT ![t] = arg'[t]]
             /\ UNCHANGED <<configurations, before>>
      BY <1>3 DEF WithClient, TypeInv, CallTypes
    <2> QED
      BY <1>1, <2>1, <2>2, MoveIsQuiet
  <1> QED
    BY <1>2, <1>3

\* So is the entry of a call.
LEMMA CallsAreQuiet ==
    ASSUME TypeInv, NEW t \in Procs, Call(t)
    PROVE  Quiet(t)
  <1>1. /\ pc[t] = "idle" /\ UNCHANGED <<storeVars, hostVars, ghostVars>>
        /\ {"idle", "client", "rlock"} \cap ({"loadFile", "seed"} \cup Exclusive) = {}
    BY DEF Call, CreateConfiguration, UpdateConfiguration, DeleteConfiguration,
       GetConfiguration, ListConfigurations, GetStatus, Submit, Accepting, Exclusive, Written
  <1>2. ASSUME Refuse(t) PROVE Quiet(t)
    BY <1>1, <1>2 DEF Refuse, Quiet, TypeInv, CallTypes, storeVars, fileVars, hostVars, ghostVars
  <1>3. ASSUME NEW o, NEW a, NEW label \in {"client", "rlock"}, Enter(t, o, a, label)
        PROVE  Quiet(t)
    <2>1. Goto(t, label) /\ op' = [op EXCEPT ![t] = op'[t]]
            /\ arg' = [arg EXCEPT ![t] = arg'[t]] /\ UNCHANGED <<configurations, before>>
      BY <1>3 DEF Enter, TypeInv, CallTypes
    <2> QED
      BY <1>1, <2>1, MoveIsQuiet
  <1>4. \/ Refuse(t)
        \/ \E o, a : Enter(t, o, a, "client") \/ Enter(t, o, a, "rlock")
    BY DEF Call, CreateConfiguration, UpdateConfiguration, DeleteConfiguration,
       GetConfiguration, ListConfigurations, GetStatus, Submit
  <1> QED
    BY <1>2, <1>3, <1>4

\* The mutex, the client, the status and the failed loads.
LEMMA MovesAreQuiet ==
    ASSUME TypeInv, NEW t \in Procs,
           \/ Acquire(t) \/ CreateClient(t) \/ CreateClientFails(t) \/ GetStats(t)
           \/ LoadStoreFails(t) \/ LoadFileFails(t)
    PROVE  Quiet(t)
  <1>0. {"slow", "create", "load", "stopping", "client", "lock", "stop", "rlock", "stats"}
          \cap Exclusive = {} /\ "loadFile" \notin Exclusive
    BY DEF Exclusive, Written
  <1>1. CASE Lock(t)
    <2>1. /\ pc[t] \in {"lock", "slow", "stop"} /\ Goto(t, Blocking[pc[t]])
          /\ Blocking["lock"] = "load" /\ Blocking["slow"] = "create"
          /\ Blocking["stop"] = "stopping"
      BY <1>1 DEF Lock, LockWhen, Blocking
    <2>2. PICK label \in {"load", "create", "stopping"} : Goto(t, label)
      BY <2>1
    <2>3. op' = [op EXCEPT ![t] = op'[t]] /\ arg' = [arg EXCEPT ![t] = arg'[t]]
      BY <1>1 DEF Lock, LockWhen, TypeInv, CallTypes
    <2> QED
      BY <1>0, <1>1, <2>1, <2>2, <2>3, MoveIsQuiet DEF Lock, LockWhen
  <1>2. CASE RLock(t)
    <2>1. op' = [op EXCEPT ![t] = op'[t]] /\ arg' = [arg EXCEPT ![t] = arg'[t]]
      BY <1>2 DEF RLock, RLockWhen, TypeInv, CallTypes
    <2> QED
      BY <1>0, <1>2, <2>1, MoveIsQuiet DEF RLock, RLockWhen
  <1>3. CASE CheckClient(t)
    <2>1. CASE client
      BY <1>0, <1>3, <2>1, WithClientIsQuiet DEF CheckClient
    <2>2. CASE ~client
      <3>1. op' = [op EXCEPT ![t] = op'[t]] /\ arg' = [arg EXCEPT ![t] = arg'[t]]
        BY <1>3, <2>2 DEF CheckClient, TypeInv, CallTypes
      <3> QED
        BY <1>0, <1>3, <2>2, <3>1, MoveIsQuiet DEF CheckClient
    <2> QED
      BY <2>1, <2>2
  <1>4. CASE CreateClient(t)
    BY <1>0, <1>4, WithClientIsQuiet DEF CreateClient
  <1>5. CASE CreateClientFails(t) \/ GetStats(t)
    BY <1>0, <1>5, ReplyIsQuiet DEF CreateClientFails, GetStats
  <1>6. CASE LoadStoreFails(t) \/ LoadFileFails(t)
    BY <1>0, <1>6, ReplyIsQuiet DEF LoadStoreFails, LoadFileFails, LoadError
  <1> QED
    BY <1>1, <1>2, <1>3, <1>4, <1>5, <1>6 DEF Acquire

\* So are the hooks that start and stop the process.
LEMMA LifecycleIsQuiet ==
    ASSUME TypeInv, Boot \/ Shutdown \/ OnStop \/ GracefulStop
    PROVE  Quiet(Main)
  <1>0. Main \in Procs
    BY DEF Procs
  <1>1. /\ pc[Main] \notin Exclusive
        /\ pc' = [pc EXCEPT ![Main] = pc'[Main]] /\ op' = [op EXCEPT ![Main] = op'[Main]]
        /\ arg' = [arg EXCEPT ![Main] = arg'[Main]]
        /\ pc'[Main] \notin {"loadFile", "seed"} \cup Exclusive
    BY <1>0 DEF Boot, Enter, Shutdown, OnStop, GracefulStop, Drain, Goto, TypeInv, CallTypes,
       Exclusive, Written
  <1>2. UNCHANGED <<store, block, rest, restBefore, certs, running, lost, possible,
                   configurations, before>>
    BY DEF Boot, Enter, Shutdown, OnStop, CloseStore, GracefulStop, Drain, storeVars,
       fileVars, hostVars, ghostVars
  <1> QED
    BY <1>1, <1>2 DEF Quiet

-----------------------------------------------------------------------------
(* Every list is well formed: names are unique, and key material is only   *)
(* in a list that is still being edited.                                   *)

Distinct(list) == "torn" \notin Faults => DistinctNames(list)
KeyFree(list) == \A c \in list : c.pem = ""
Clean(list) == Distinct(list) /\ KeyFree(list)
Editable(list) == Distinct(list) /\ \A c \in list : c.pem # "" => c.path = ""

\* A file that no write was cut inside holds nothing but its block.
Held(list, left) ==
    Clean(list) /\ KeyFree(left.entries) /\ ("torn" \notin Faults => left = NoRest)

Lists ==
    /\ Clean(store) /\ Held(block, rest) /\ Held(before, restBefore) /\ Clean(RunningList)
    /\ \A t \in Procs : Editable(configurations[t])
    /\ \A t \in Procs :
          pc[t] \in {"seed", "write"} \cup Written => Clean(configurations[t])

\* The empty list is clean, and a clean list can be edited.
LEMMA CleanFacts ==
    /\ Clean({})
    /\ \A list : Clean(list) => Editable(list)
  BY DEF Clean, Editable, Distinct, KeyFree, DistinctNames

\* What is read from a well-formed file is clean, and a clean list written to
\* it leaves a well-formed file.
LEMMA HeldFacts ==
    ASSUME Held(block, rest), NEW l, Clean(l)
    PROVE  /\ Clean(FileList) /\ Clean(block) /\ Held(l, MergedRest) /\ Held(l, NoRest)
           /\ \A left \in SUBSET rest.entries : Clean(block \cup left)
           /\ "torn" \notin Faults => rest = NoRest /\ MergedRest = NoRest /\ FileList = block
  <1>1. NoRest.entries = {} /\ NoRest.open = FALSE /\ NoRest.corrupt = FALSE
    BY DEF NoRest
  <1>2. KeyFree(block) /\ KeyFree(rest.entries) /\ KeyFree(l) /\ Clean({})
    BY CleanFacts DEF Held, Clean
  <1>3. CASE "torn" \in Faults
    <2>1. MergedRest.entries \in {rest.entries, {}}
      <3>1. KeepsRest.entries = rest.entries
        BY DEF KeepsRest
      <3> QED
        BY <1>1, <3>1 DEF MergedRest
    <2> QED
      BY <1>1, <1>2, <1>3, <2>1 DEF Held, Clean, Distinct, KeyFree, FileList
  <1>4. CASE "torn" \notin Faults
    <2>1. rest = NoRest /\ Clean(block)
      BY <1>4 DEF Held
    <2>2. MergedRest = NoRest /\ FileList = block
      BY <1>1, <2>1 DEF MergedRest, FileList
    <2>3. \A left \in SUBSET rest.entries : block \cup left = block
      BY <1>1, <2>1
    <2>4. Held(l, NoRest)
      BY <1>1 DEF Held, KeyFree
    <2> QED
      BY <2>1, <2>2, <2>3, <2>4
  <1> QED
    BY <1>3, <1>4

\* So does a write that fails.
LEMMA FailedWriteHeld ==
    ASSUME Held(block, rest), NEW l, NEW left, Held(l, left), FileWriteFails(l, left)
    PROVE  Held(block', rest')
  <1>1. CASE UNCHANGED fileVars
    BY <1>1 DEF fileVars
  <1>2. CASE WriteStops(l, left)
    <2>1. Held({}, NoRest) /\ block' = {}
      BY <1>2, CleanFacts, HeldFacts DEF WriteStops
    <2>2. ASSUME "torn" \in Faults, rest' \in CutInside(l, left)
          PROVE  Held({}, rest')
      <3>1. rest'.entries \subseteq left.entries \cup l
        BY <2>2 DEF CutInside
      <3> QED
        BY <2>2, <3>1, CleanFacts DEF Held, Clean, KeyFree
    <2> QED
      BY <1>2, <2>1, <2>2 DEF WriteStops
  <1> QED
    BY <1>1, <1>2 DEF FileWriteFails

\* In a list of unique names, a key matches one configuration at most.
LEMMA FirstMatchUnique ==
    ASSUME NEW list \in SUBSET Config, DistinctNames(list), NEW key, HasMatch(list, key)
    PROVE  /\ FirstMatch(list, key) \in list
           /\ \A c \in list : c.name = key => c = FirstMatch(list, key)
  <1>1. \A c \in list : NormalizeConfigurationName(c.name) = c.name
    BY NameAssumption DEF NormalizeConfigurationName, Config
  <1>2. FirstMatch(list, key) \in Matching(list, key)
    BY DEF HasMatch, FirstMatch
  <1> QED
    BY <1>1, <1>2 DEF Matching, DistinctNames

\* The edit of a create, update or delete keeps names unique.
LEMMA EditedDistinct ==
    ASSUME NEW t \in Procs, NEW l \in SUBSET Config, DistinctNames(l), op[t] \in Mutators,
           op[t] \in {"create", "update"} => Stored(arg[t]).name = Key(t),
           HasMatch(l, Key(t)) = (op[t] # "create")
    PROVE  DistinctNames(Edited(t, l))
  <1>1. CASE op[t] = "create"
    <2>1. \A c \in l : c.name # Key(t)
      <3>1. \A c \in l : NormalizeConfigurationName(c.name) = c.name
        BY NameAssumption DEF NormalizeConfigurationName, Config
      <3> QED
        BY <1>1, <3>1 DEF HasMatch, Matching
    <2>2. Edited(t, l) = l \cup {Stored(arg[t])}
      BY <1>1 DEF Edited
    <2> QED
      BY <1>1, <2>1, <2>2 DEF DistinctNames
  <1>2. CASE op[t] # "create"
    <2>1. /\ FirstMatch(l, Key(t)) \in l
          /\ \A c \in l : c.name = Key(t) => c = FirstMatch(l, Key(t))
      BY <1>2, FirstMatchUnique
    <2>2. CASE op[t] = "update"
      <3>1. Edited(t, l) = (l \ {FirstMatch(l, Key(t))}) \cup {Stored(arg[t])}
        BY <2>2 DEF Edited
      <3> QED
        BY <2>1, <2>2, <3>1 DEF DistinctNames
    <2>3. CASE op[t] = "delete"
      <3>1. Edited(t, l) = l \ {FirstMatch(l, Key(t))}
        BY <2>3 DEF Edited
      <3> QED
        BY <3>1 DEF DistinctNames
    <2> QED
      BY <1>2, <2>2, <2>3 DEF Mutators
  <1> QED
    BY <1>1, <1>2

\* It leaves a list that can be persisted once its keys are moved.
LEMMA EditedEditable ==
    ASSUME TypeInv, NEW t \in Procs, NEW l \in SUBSET Config, Clean(l), op[t] \in Mutators,
           HasMatch(l, Key(t)) = (op[t] # "create")
    PROVE  Editable(Edited(t, l))
  <1>0. op[t] \in {"create", "update"} =>
           /\ Stored(arg[t]).name = Key(t)
           /\ Stored(arg[t]).pem # "" => Stored(arg[t]).path = ""
    BY StoredTypes DEF TypeInv, CallTypes, Key
  <1>1. (\A c \in l : c.pem = "") /\ (HasMatch(l, Key(t)) => FirstMatch(l, Key(t)) \in l)
    BY FirstMatchIn DEF Clean, KeyFree
  <1>2. \A c \in Edited(t, l) : c.pem # "" => c.path = ""
    BY <1>0, <1>1 DEF Edited, Mutators
  <1>3. ASSUME DistinctNames(l) PROVE DistinctNames(Edited(t, l))
    BY <1>0, <1>3, EditedDistinct
  <1> QED
    BY <1>2, <1>3 DEF Clean, Editable, Distinct


\* Moving the key of one configuration to its file keeps the list editable.
LEMMA CertificateEditable ==
    ASSUME NEW l \in SUBSET Config, Editable(l), NEW c \in l, NeedsCertificate(c)
    PROVE  Editable((l \ {c}) \cup {EnsureCertificatePath(c)})
  <1>1. /\ EnsureCertificatePath(c).name = c.name
        /\ EnsureCertificatePath(c).pem = ""
    BY CertificateTypes
  <1> QED
    BY <1>1 DEF Editable, Distinct, DistinctNames

\* A list without keys left to move is clean.
LEMMA HandledIsClean ==
    ASSUME NEW l, Editable(l), \A c \in l : ~NeedsCertificate(c)
    PROVE  Clean(l)
  BY DEF Editable, Clean, KeyFree, NeedsCertificate

\* What HAProxy runs after a reload, successful or not.
LEMMA ReloadRuns ==
    ASSUME TypeInv
    PROVE  /\ ReloadSucceeds => \E left \in SUBSET rest.entries : RunningList' = block \cup left
           /\ ReloadFails => RunningList' = RunningList \/ ReloadSucceeds
  <1>1. ASSUME NEW left \in SUBSET rest.entries, running' = Loaded(block \cup left, certs)
        PROVE  RunningList' = block \cup left
    <2>1. /\ block \cup left \in SUBSET Config
          /\ certs \in [CertPaths -> PEMs \cup {""}]
      BY DEF TypeInv, HostTypes, Rest
    <2> QED
      BY <1>1, <2>1, LoadedTypes DEF RunningList
  <1>2. UNCHANGED running => RunningList' = RunningList
    BY DEF RunningList
  <1> QED
    BY <1>1, <1>2 DEF ReloadFails, ReloadSucceeds

\* It runs a clean list if it did before.
LEMMA ReloadClean ==
    ASSUME TypeInv, Held(block, rest), Clean(RunningList), ReloadSucceeds \/ ReloadFails
    PROVE  Clean(RunningList')
  <1>1. \A left \in SUBSET rest.entries : Clean(block \cup left)
    BY CleanFacts, HeldFacts
  <1>2. RunningList' = RunningList \/ \E left \in SUBSET rest.entries :
           RunningList' = block \cup left
    BY ReloadRuns
  <1> QED
    BY <1>1, <1>2

\* The host and the store after a step.
HostLists == Clean(store) /\ Held(block, rest) /\ Clean(RunningList)

\* An answer drops the list of its call.
LEMMA ReplyLists ==
    ASSUME Control, Lists, NEW t \in Procs, NEW code, NEW list, Reply(t, code, list),
           HostLists', restBefore' \in {restBefore, NoRest}
    PROVE  Lists'
  <1>1. /\ pc' = [pc EXCEPT ![t] = pc'[t]]
        /\ pc'[t] \notin {"seed", "write"} \cup Written
        /\ configurations' = [configurations EXCEPT ![t] = {}]
        /\ before' \in {before, {}}
    BY DEF Control, TypeInv, CallTypes, Reply, Goto, Written
  <1>2. Held(before', restBefore')
    <2>1. NoRest.entries = {}
      BY DEF NoRest
    <2>2. Clean(before') /\ KeyFree(restBefore'.entries)
      BY <1>1, <2>1, CleanFacts DEF Lists, Held, KeyFree
    <2> QED
      BY <2>2 DEF Lists, Held
  <1> QED
    BY <1>1, <1>2, CleanFacts DEF Lists, HostLists, Control, TypeInv, CallTypes

\* A call goes on with a list that is as good as its label asks.
LEMMA ContinueLists ==
    ASSUME Control, Lists, NEW t \in Procs, NEW label, NEW l, Continue(t, label, l),
           Editable(l), label \in {"seed", "write"} \cup Written => Clean(l),
           Held(before, restBefore)', HostLists'
    PROVE  Lists'
  BY DEF Lists, HostLists, Control, TypeInv, CallTypes, Continue, Goto

\* Quiet steps keep every list or drop one.
LEMMA QuietLists ==
    ASSUME Control, Lists, NEW t \in Procs, Quiet(t)
    PROVE  Lists'
  <1>1. Held(before', restBefore')
    BY CleanFacts DEF Lists, Held, Quiet
  <1> QED
    BY <1>1, CleanFacts DEF Lists, Control, TypeInv, CallTypes, Quiet, Exclusive, RunningList

\* A decision on a clean list leaves an editable one.
LEMMA DecideLists ==
    ASSUME Control, Lists, NEW t \in Procs, NEW l \in SUBSET Config, Clean(l), Decide(t, l),
           HostLists', restBefore' = restBefore
    PROVE  Lists'
  <1>1. CASE \E code, list : Reply(t, code, list)
    BY <1>1, ReplyLists
  <1>2. ASSUME NEW k, Editable(k), Continue(t, "certs", k), UNCHANGED before
        PROVE  Lists'
    <2>1. "certs" \notin {"seed", "write"} \cup Written /\ Held(before, restBefore)'
      BY <1>2 DEF Written, Lists
    <2> QED
      BY <1>2, <2>1, ContinueLists
  <1>3. CASE /\ op[t] \in Mutators
             /\ HasMatch(l, Key(t)) = (op[t] # "create")
             /\ Continue(t, "certs", Edited(t, l))
             /\ UNCHANGED before
    BY <1>2, <1>3, EditedEditable DEF Control
  <1>4. CASE op[t] = "start" /\ Continue(t, "certs", l) /\ UNCHANGED before
    BY <1>2, <1>4, CleanFacts
  <1> QED
    BY <1>1, <1>3, <1>4 DEF Decide

\* Loading and seeding copy clean lists.
LEMMA LoadStepLists ==
    ASSUME Control, Lists, NEW t \in Procs,
           LoadStore(t) \/ LoadFile(t) \/ Seed(t) \/ SeedFails(t)
    PROVE  Lists'
  <1>0. /\ store \in SUBSET Config /\ FileList \in SUBSET Config /\ {} \in SUBSET Config
        /\ configurations[t] \in SUBSET Config
        /\ Clean({}) /\ Clean(store) /\ Clean(FileList)
        /\ "loadFile" \notin {"seed", "write"} \cup Written
    BY CleanFacts, HeldFacts, FileTypes
       DEF Control, TypeInv, HostTypes, StoreTypeOK, CallTypes, Lists, Written
  <1>1. CASE LoadStore(t) \/ LoadFile(t)
    <2>1. /\ HostLists' /\ restBefore' = restBefore
          /\ UNCHANGED before => Held(before, restBefore)'
      BY <1>1 DEF LoadStore, LoadList, LoadFile, storeVars, fileVars, hostVars, Lists,
         HostLists, RunningList
    <2>2. \/ Decide(t, store) \/ Decide(t, {}) \/ Reply(t, "OK", {})
          \/ Continue(t, "loadFile", {}) /\ UNCHANGED before
          \/ Continue(t, "seed", FileList) /\ UNCHANGED before
      BY <1>1 DEF LoadStore, LoadList, LoadFile
    <2>3. Editable({}) /\ Editable(FileList)
      BY <1>0, CleanFacts
    <2>4. CASE Continue(t, "loadFile", {}) /\ UNCHANGED before
      BY <1>0, <2>1, <2>3, <2>4, ContinueLists
    <2>5. CASE Continue(t, "seed", FileList) /\ UNCHANGED before
      BY <1>0, <2>1, <2>3, <2>5, ContinueLists
    <2> QED
      BY <1>0, <2>1, <2>2, <2>4, <2>5, DecideLists, ReplyLists
  <1>2. CASE Seed(t) \/ SeedFails(t)
    <2>1. Clean(configurations[t])
      BY <1>2 DEF Seed, SeedFails, Lists
    <2>2. HostLists' /\ restBefore' = restBefore
      BY <1>2, <2>1 DEF Seed, SeedFails, SaveSucceeds, SaveFails, fileVars, hostVars, Lists,
         HostLists, RunningList
    <2>3. Decide(t, configurations[t]) \/ \E code, list : Reply(t, code, list)
      BY <1>2 DEF Seed, SeedFails, LoadError
    <2> QED
      BY <1>0, <2>1, <2>2, <2>3, DecideLists, ReplyLists
  <1> QED
    BY <1>1, <1>2

\* Only clean lists reach the file, the store and HAProxy.
LEMMA PersistStepLists ==
    ASSUME Control, Lists, NEW t \in Procs,
           \/ EnsureCertificate(t) \/ EnsureCertificateFails(t) \/ ReadBefore(t)
           \/ WriteFile(t) \/ WriteFileFails(t)
           \/ SaveStore(t) \/ SaveStoreFails(t) \/ UndoWrite(t)
           \/ Reload(t) \/ ReloadRefused(t) \/ RestoreFile(t) \/ ReloadRestored(t)
    PROVE  Lists'
  <1>0. /\ configurations[t] \in SUBSET Config /\ Editable(configurations[t])
        /\ Clean(store) /\ Held(block, rest) /\ Held(before, restBefore) /\ Clean(before)
        /\ Clean(RunningList) /\ Clean({})
        /\ "certs" \notin {"seed", "write"} \cup Written
    BY CleanFacts DEF Control, TypeInv, CallTypes, Lists, Held, Written
  <1>1. ASSUME pc[t] \in {"write"} \cup Written
        PROVE  Clean(configurations[t]) /\ Held(configurations[t], MergedRest)
    <2>1. Clean(configurations[t])
      BY <1>1 DEF Lists
    <2> QED
      BY <1>0, <2>1, HeldFacts
  <1>2. UNCHANGED running => Clean(RunningList)'
    BY <1>0 DEF RunningList
  <1>3. \A l, left : Held(l, left) /\ FileWriteFails(l, left) => Held(block, rest)'
    BY <1>0, FailedWriteHeld
  <1>4. CASE EnsureCertificate(t)
    <2>1. PICK c \in configurations[t] :
             /\ NeedsCertificate(c)
             /\ Continue(t, "certs", (configurations[t] \ {c}) \cup {EnsureCertificatePath(c)})
      BY <1>4 DEF EnsureCertificate, MoveCertificate, WritesCertificate
    <2>2. Editable((configurations[t] \ {c}) \cup {EnsureCertificatePath(c)})
      BY <1>0, <2>1, CertificateEditable
    <2>3. HostLists' /\ Held(before, restBefore)'
      BY <1>0, <1>2, <1>4 DEF EnsureCertificate, MoveCertificate, HostLists, storeVars, fileVars
    <2> QED
      BY <1>0, <2>1, <2>2, <2>3, ContinueLists
  <1>5. CASE EnsureCertificateFails(t)
    <2>1. HostLists' /\ Reply(t, "Internal", {}) /\ restBefore' = restBefore
      BY <1>0, <1>2, <1>5 DEF EnsureCertificateFails, HostLists, storeVars, fileVars
    <2> QED
      BY <2>1, ReplyLists
  <1>6. CASE ReadBefore(t)
    <2>1. HostLists' /\ Clean(configurations[t])
      BY <1>0, <1>2, <1>6, HandledIsClean DEF ReadBefore, KeepFile, HostLists, storeVars,
         fileVars
    <2>2. \/ Reply(t, "Internal", {}) /\ restBefore' = restBefore
          \/ Continue(t, "write", configurations[t]) /\ Held(before, restBefore)'
      BY <1>0, <1>6 DEF ReadBefore, KeepFile
    <2> QED
      BY <1>0, <2>1, <2>2, ReplyLists, ContinueLists
  <1>7. CASE WriteFile(t) \/ SaveStore(t) \/ SaveStoreFails(t)
    <2>1. pc[t] \in {"write"} \cup Written
      BY <1>7 DEF WriteFile, WriteBehind, SaveStore, SaveStoreFails, Written
    <2>2. HostLists' /\ Held(before, restBefore)' /\ Clean(configurations[t])
      BY <1>0, <1>1, <1>2, <1>7, <2>1 DEF WriteFile, WriteBehind, SaveStore, SaveStoreFails,
         SaveSucceeds, SaveFails, HostLists, storeVars, fileVars, hostVars
    <2>3. \E label : Continue(t, label, configurations[t])
      BY <1>7 DEF WriteFile, WriteBehind, SaveStore, SaveStoreFails
    <2> QED
      BY <1>0, <2>2, <2>3, ContinueLists
  <1>8. CASE WriteFileFails(t) \/ UndoWrite(t)
    <2>1. CASE WriteFileFails(t)
      <3>1. Held(configurations[t], MergedRest)
        BY <1>1, <2>1 DEF WriteFileFails
      <3>2. Held(block, rest)'
        BY <1>3, <2>1, <3>1 DEF WriteFileFails
      <3> QED
        BY <1>0, <1>2, <2>1, <3>2, ReplyLists DEF WriteFileFails, HostLists, storeVars
    <2>2. CASE UndoWrite(t)
      <3>1. Held(block, rest)'
        BY <1>0, <1>3, <2>2 DEF UndoWrite, UndoTo
      <3> QED
        BY <1>0, <1>2, <2>2, <3>1, ReplyLists DEF UndoWrite, UndoTo, HostLists, storeVars
    <2> QED
      BY <1>8, <2>1, <2>2
  <1>9. ASSUME ReloadSucceeds \/ ReloadFails PROVE Clean(RunningList')
    BY <1>0, <1>9, ReloadClean DEF Control
  <1>10. CASE Reload(t) \/ ReloadRestored(t)
    <2>1. /\ HostLists' /\ \E list, code : Reply(t, code, list)
          /\ restBefore' = NoRest
      BY <1>0, <1>9, <1>10 DEF Reload, Acknowledge, ReloadRestored, HostLists, storeVars, fileVars
    <2> QED
      BY <2>1, ReplyLists
  <1>11. CASE ReloadRefused(t) \/ RestoreFile(t)
    <2>1. Clean(configurations[t]) /\ \E label : Continue(t, label, configurations[t])
      BY <1>1, <1>11 DEF ReloadRefused, RestoreFile, Written
    <2>2. HostLists' /\ Held(before, restBefore)'
      BY <1>0, <1>2, <1>3, <1>9, <1>11 DEF ReloadRefused, RestoreFile, HostLists,
         storeVars, fileVars
    <2> QED
      BY <1>0, <2>1, <2>2, ContinueLists
  <1> QED
    BY <1>4, <1>5, <1>6, <1>7, <1>8, <1>10, <1>11

\* The process starts, ends or is reset with clean or empty lists.
LEMMA LifecycleLists ==
    ASSUME Control, Lists,
           \/ Boot \/ Shutdown \/ Stop \/ Crash \/ ContainerReset
           \/ \E t \in Procs : ReloadPanics(t)
    PROVE  Lists'
  <1>0. /\ Clean(store) /\ Held(block, rest) /\ Held(before, restBefore) /\ Clean(RunningList)
        /\ Clean({}) /\ Editable({}) /\ Held({}, NoRest)
        /\ Main \in Procs /\ pc \in [Procs -> Labels]
    BY CleanFacts, HeldFacts DEF Control, TypeInv, CallTypes, Lists, Procs
  <1>1. UNCHANGED running => Clean(RunningList)'
    BY <1>0 DEF RunningList
  <1>2. ASSUME ProcessEnds, Held(block, rest)', UNCHANGED running PROVE Lists'
    BY <1>0, <1>1, <1>2 DEF ProcessEnds, StoreAfterExit, Lists, Written
  <1>3. ASSUME NEW t \in Procs, DiesWriting(t) PROVE Held(block, rest)'
    <2>1. CASE pc[t] = "write" /\ WriteStops(configurations[t], MergedRest)
      <3>1. Held(configurations[t], MergedRest)
        BY <1>0, <2>1, HeldFacts DEF Lists
      <3> QED
        BY <1>0, <2>1, <3>1, FailedWriteHeld DEF FileWriteFails
    <2>2. CASE WriteStops(before, restBefore)
      BY <1>0, <2>2, FailedWriteHeld DEF FileWriteFails
    <2> QED
      BY <1>3, <2>1, <2>2 DEF DiesWriting
  <1>4. CASE Exit \/ Crash \/ \E t \in Procs : ReloadPanics(t)
    <2>1. Held(block, rest)'
      BY <1>0, <1>3, <1>4 DEF Exit, Crash, ReloadPanics, fileVars
    <2> QED
      BY <1>2, <1>4, <2>1 DEF Exit, Crash, ReloadPanics
  <1>5. CASE ContainerReset
    BY <1>0, <1>5 DEF ContainerReset, Lists, RunningList, storeVars
  <1>6. CASE Boot \/ Shutdown \/ OnStop \/ GracefulStop
    BY <1>0, <1>6, LifecycleIsQuiet, QuietLists DEF Control
  <1> QED
    BY <1>4, <1>5, <1>6 DEF Stop

\* The block of a new host is clean.
LEMMA ListsInit == Init => Lists
  <1> SUFFICES ASSUME Init PROVE Lists
    OBVIOUS
  <1>1. Clean(block)
    BY RequestAssumption DEF Init, Clean, Distinct, KeyFree, Pristine
  <1>2. RunningList = block
    BY TypeInit, LoadedTypes DEF Init, RunningList, TypeInv, HostTypes
  <1> QED
    BY <1>1, <1>2, CleanFacts DEF Init, Lists, Held, KeyFree, NoRest, Written

\* And every step of the system keeps the lists well formed.
LEMMA ListsNext == Control /\ Lists /\ [Next]_vars => Lists'
  <1> SUFFICES ASSUME Control, Lists, [Next]_vars PROVE Lists'
    OBVIOUS
  <1>1. CASE UNCHANGED vars
    BY <1>1 DEF vars, callVars, storeVars, fileVars, hostVars, Lists, RunningList
  <1>2. ASSUME NEW t \in Procs, Call(t) \/ Acquire(t) \/ Step(t) PROVE Lists'
    <2>1. Quiet(t) => Lists'
      BY QuietLists
    <2> QED
      BY <1>2, <2>1, CallsAreQuiet, MovesAreQuiet, LoadStepLists, PersistStepLists,
         LifecycleLists DEF Step, Control
  <1>3. CASE Boot \/ Shutdown \/ Stop \/ Crash \/ ContainerReset
    BY <1>3, LifecycleLists
  <1> QED
    BY <1>1, <1>2, <1>3 DEF Next

\* So they are well formed in every reachable state.
LEMMA AlwaysLists == Spec => [](Control /\ Lists)
  BY ControlInit, ControlNext, ListsInit, ListsNext, PTL DEF Spec

\* However calls interleave, fail or crash, no list that is stored, read from
\* the file, run or being persisted holds two configurations of one name,
\* unless a write of the file is cut in the middle of a block.
THEOREM NamesStayUnique == Spec => []("torn" \notin Faults => UniqueNames)
  <1>1. Lists => ("torn" \notin Faults => UniqueNames)
    BY CleanFacts, HeldFacts DEF Lists, UniqueNames, Held, Clean, Editable, Distinct
  <1> QED
    BY <1>1, AlwaysLists, PTL

\* Inline key material stays out of the store, the file and HAProxy's view of
\* the file, on every path through EnsureCertificatePath and its failures.
THEOREM KeysStayInFiles == Spec => []KeysOnlyInFiles
  <1>1. Lists => KeysOnlyInFiles
    BY DEF Lists, KeysOnlyInFiles, Held, Clean, KeyFree
  <1> QED
    BY <1>1, AlwaysLists, PTL

-----------------------------------------------------------------------------
(* The certificate files that a list names are there *)

InPlace(list) == \A c \in list : c.path \in CertPaths => certs[c.path] # ""

\* The lists in memory are part of the invariant: they are written later.
Placed ==
    /\ InPlace(store) /\ InPlace(block) /\ InPlace(before)
    /\ \A t \in Procs : InPlace(configurations[t])

\* No step empties a certificate file that it does not tear or reset.
Growing == \A f \in CertPaths : certs[f] # "" => certs'[f] # ""

\* A list that is in place stays so while files only grow.
LEMMA StaysInPlace ==
    ASSUME NEW l, InPlace(l), Growing
    PROVE  \A c \in l : c.path \in CertPaths => certs'[c.path] # ""
  BY DEF InPlace, Growing

\* The lists after a step come from those before it.
LEMMA FromPlaced ==
    ASSUME TypeInv, Placed, Growing, NEW t \in Procs, NEW l,
           \A c \in l : c.path \in CertPaths => certs'[c.path] # "",
           store' \in {store, l, {}}, block' \in {store, block, before, l, {}},
           before' \in {block, before, {}},
           configurations' \in {configurations, [configurations EXCEPT ![t] = l],
                                [configurations EXCEPT ![t] = {}], [p \in Procs |-> {}]}
    PROVE  Placed'
  <1>1. /\ \A k \in {store, block, before, l, {}} :
              \A c \in k : c.path \in CertPaths => certs'[c.path] # ""
    BY StaysInPlace DEF Placed
  <1>2. InPlace(store)' /\ InPlace(block)' /\ InPlace(before)'
    BY <1>1 DEF InPlace
  <1>3. ASSUME NEW p \in Procs PROVE InPlace(configurations[p])'
    <2>1. \A c \in configurations[p] : c.path \in CertPaths => certs'[c.path] # ""
      BY StaysInPlace DEF Placed
    <2>2. configurations'[p] \in {configurations[p], l, {}}
      BY DEF TypeInv, CallTypes
    <2> QED
      BY <1>1, <2>1, <2>2 DEF InPlace
  <1> QED
    BY <1>2, <1>3 DEF Placed

\* The path of a request is never one of the service's own.
LEMMA EditedInPlace ==
    ASSUME TypeInv, NEW t \in Procs, NEW l \in SUBSET Config, InPlace(l), op[t] \in Mutators
    PROVE  InPlace(Edited(t, l))
  <1>1. op[t] \in {"create", "update"} => Stored(arg[t]).path \notin CertPaths
    <2>1. ASSUME op[t] \in {"create", "update"} PROVE Stored(arg[t]).path \notin CertPaths
      <3>1. arg[t] \in Request /\ Stored(arg[t]).path = arg[t].path
        BY <2>1, StoredTypes, RequestAssumption DEF TypeInv, CallTypes
      <3> QED
        BY <3>1, CertAssumption DEF Request
    <2> QED
      BY <2>1
  <1>2. \A c \in Edited(t, l) : c \in l \/ (op[t] \in {"create", "update"} /\ c = Stored(arg[t]))
    BY DEF Edited, Mutators
  <1> QED
    BY <1>1, <1>2 DEF InPlace

\* An answer drops the list of its call, which may have been persisted before.
LEMMA ReplyPlaced ==
    ASSUME TypeInv, Placed, Growing, NEW t \in Procs, NEW code, NEW list, Reply(t, code, list),
           store' \in {store, configurations[t]},
           block' \in {block, before, configurations[t], {}}
    PROVE  Placed'
  <1>1. /\ configurations' = [configurations EXCEPT ![t] = {}]
        /\ before' \in {before, {}}
    BY DEF Reply
  <1>2. \A c \in configurations[t] : c.path \in CertPaths => certs'[c.path] # ""
    BY StaysInPlace DEF Placed
  <1>3. PICK l : l = configurations[t]
    OBVIOUS
  <1> QED
    BY <1>1, <1>2, <1>3, FromPlaced

\* A call goes on with a list that is in place.
LEMMA ContinuePlaced ==
    ASSUME TypeInv, Placed, Growing, NEW t \in Procs, NEW label, NEW l, Continue(t, label, l),
           \A c \in l : c.path \in CertPaths => certs'[c.path] # "",
           store' \in {store, l}, block' \in {block, before, l, {}}, before' \in {block, before}
    PROVE  Placed'
  BY FromPlaced DEF Continue

\* Quiet steps keep every list or drop one.
LEMMA QuietPlaced ==
    ASSUME TypeInv, Placed, NEW t \in Procs, Quiet(t)
    PROVE  Placed'
  <1>1. Growing /\ \A c \in {} : c.path \in CertPaths => certs'[c.path] # ""
    BY DEF Quiet, Growing
  <1>2. /\ store' = store /\ block' = block /\ before' \in {before, {}}
        /\ configurations' \in {configurations, [configurations EXCEPT ![t] = {}]}
    BY DEF Quiet
  <1>3. PICK l : l = {}
    OBVIOUS
  <1>4. /\ \A c \in l : c.path \in CertPaths => certs'[c.path] # ""
        /\ store' \in {store, l, {}} /\ block' \in {store, block, before, l, {}}
        /\ before' \in {block, before, {}}
        /\ configurations' \in {configurations, [configurations EXCEPT ![t] = {}]}
    BY <1>1, <1>2, <1>3
  <1> QED
    BY <1>1, <1>4, FromPlaced

\* A decision edits the list with the path of a request, if at all.
LEMMA DecidePlaced ==
    ASSUME TypeInv, Placed, NEW t \in Procs, NEW l \in SUBSET Config, InPlace(l), Decide(t, l),
           certs' = certs, store' \in {store, configurations[t]}, block' = block,
           l \in {store, block, {}, configurations[t]}
    PROVE  Placed'
  <1>0. Growing
    BY DEF Growing
  <1>1. CASE \E code, list : Reply(t, code, list)
    BY <1>0, <1>1, ReplyPlaced
  <1>2. ASSUME NEW m, InPlace(m), Continue(t, "certs", m), UNCHANGED before
        PROVE  Placed'
    <2>1. \A p \in Procs : InPlace(configurations[p]) /\ InPlace(configurations'[p])
      BY <1>2 DEF Placed, Continue, TypeInv, CallTypes
    <2> QED
      BY <1>2, <2>1 DEF Placed, InPlace
  <1>3. CASE op[t] = "start" /\ Continue(t, "certs", l) /\ UNCHANGED before
    BY <1>2, <1>3
  <1>4. CASE op[t] \in Mutators /\ Continue(t, "certs", Edited(t, l)) /\ UNCHANGED before
    BY <1>2, <1>4, EditedInPlace
  <1> QED
    BY <1>1, <1>3, <1>4 DEF Decide

\* Loading and seeding copy lists that are in place.
LEMMA LoadStepPlaced ==
    ASSUME TypeInv, Placed, FileList = block, NEW t \in Procs,
           LoadStore(t) \/ LoadFile(t) \/ Seed(t) \/ SeedFails(t)
    PROVE  Placed'
  <1>0. /\ store \in SUBSET Config /\ block \in SUBSET Config /\ {} \in SUBSET Config
        /\ configurations[t] \in SUBSET Config
        /\ InPlace(store) /\ InPlace(block) /\ InPlace({}) /\ InPlace(configurations[t])
    BY DEF TypeInv, HostTypes, StoreTypeOK, CallTypes, Placed, InPlace
  <1>1. certs' = certs /\ block' = block /\ Growing
    BY DEF LoadStore, LoadList, LoadFile, Seed, SeedFails, fileVars, hostVars, Growing
  <1>2. CASE LoadStore(t) \/ LoadFile(t)
    <2>1. store' = store
      BY <1>2 DEF LoadStore, LoadList, LoadFile, storeVars
    <2>2. \/ Decide(t, store) \/ Decide(t, {}) \/ Reply(t, "OK", {})
          \/ Continue(t, "loadFile", {}) /\ UNCHANGED before
          \/ Continue(t, "seed", block) /\ UNCHANGED before
      BY <1>2 DEF LoadStore, LoadList, LoadFile
    <2>3. ASSUME NEW label, NEW l \in {{}, block}, Continue(t, label, l), UNCHANGED before
          PROVE  Placed'
      <3>1. \A c \in l : c.path \in CertPaths => certs'[c.path] # ""
        BY <1>0, <1>1 DEF InPlace
      <3> QED
        BY <1>1, <2>1, <2>3, <3>1, ContinuePlaced
    <2> QED
      BY <1>0, <1>1, <2>1, <2>2, <2>3, DecidePlaced, ReplyPlaced
  <1>3. CASE Seed(t) \/ SeedFails(t)
    <2>1. store' \in {store, configurations[t]}
      BY <1>3 DEF Seed, SeedFails, SaveSucceeds, SaveFails
    <2>2. Decide(t, configurations[t]) \/ \E code, list : Reply(t, code, list)
      BY <1>3 DEF Seed, SeedFails, LoadError
    <2> QED
      BY <1>0, <1>1, <2>1, <2>2, DecidePlaced, ReplyPlaced
  <1> QED
    BY <1>2, <1>3

\* The certificate is written before the list that names it.
LEMMA CertificateStepPlaced ==
    ASSUME TypeInv, Placed, ~Cuts, NEW t \in Procs,
           EnsureCertificate(t) \/ EnsureCertificateFails(t)
    PROVE  Placed'
  <1>1. CASE EnsureCertificate(t)
    <2>1. PICK c \in configurations[t] :
             /\ NeedsCertificate(c)
             /\ certs' = [certs EXCEPT ![CertFile[c.name]] = c.pem]
             /\ Continue(t, "certs", (configurations[t] \ {c}) \cup {EnsureCertificatePath(c)})
             /\ UNCHANGED <<before, store, block>>
      BY <1>1 DEF EnsureCertificate, MoveCertificate, WritesCertificate, storeVars,
         fileVars
    <2>2. /\ certs \in [CertPaths -> PEMs \cup {""}] /\ c \in Config /\ c.pem # ""
          /\ CertFile[c.name] \in CertPaths
      BY <2>1, CertificateTypes DEF TypeInv, HostTypes, CallTypes, NeedsCertificate
    <2>3. Growing /\ certs'[CertFile[c.name]] # ""
      BY <2>1, <2>2 DEF Growing
    <2>4. EnsureCertificatePath(c).path = CertFile[c.name]
      BY <2>1, <2>2 DEF EnsureCertificatePath, Config
    <2>5. PICK l : l = (configurations[t] \ {c}) \cup {EnsureCertificatePath(c)}
      OBVIOUS
    <2>6. \A d \in l : d.path \in CertPaths => certs'[d.path] # ""
      <3>1. \A d \in configurations[t] : d.path \in CertPaths => certs'[d.path] # ""
        BY <2>3, StaysInPlace DEF Placed
      <3> QED
        BY <2>3, <2>4, <2>5, <3>1
    <2> QED
      BY <2>1, <2>3, <2>5, <2>6, ContinuePlaced
  <1>2. CASE EnsureCertificateFails(t)
    <2>1. PICK c \in configurations[t] :
             /\ NeedsCertificate(c)
             /\ certs' = certs \/ certs' = [certs EXCEPT ![CertFile[c.name]] = c.pem]
             /\ Reply(t, "Internal", {}) /\ UNCHANGED <<store, block>>
      BY <1>2 DEF EnsureCertificateFails, WritesCertificate, storeVars, fileVars
    <2>2. certs \in [CertPaths -> PEMs \cup {""}] /\ c.pem # ""
      BY <2>1 DEF TypeInv, HostTypes, NeedsCertificate
    <2>3. Growing
      BY <2>1, <2>2 DEF Growing
    <2> QED
      BY <2>1, <2>3, ReplyPlaced
  <1> QED
    BY <1>1, <1>2

\* What is written to the file and to the store was in place in memory.
LEMMA PersistStepPlaced ==
    ASSUME TypeInv, Placed, NEW t \in Procs,
           \/ ReadBefore(t) \/ WriteFile(t) \/ WriteFileFails(t)
           \/ SaveStore(t) \/ SaveStoreFails(t) \/ UndoWrite(t)
           \/ Reload(t) \/ ReloadRefused(t) \/ RestoreFile(t) \/ ReloadRestored(t)
    PROVE  Placed'
  <1>1. Growing
    BY DEF ReadBefore, KeepFile, WriteFile, WriteBehind, WriteFileFails, SaveStore,
       SaveStoreFails, UndoWrite, UndoTo, Reload, Acknowledge, ReloadRefused, RestoreFile,
       ReloadRestored, hostVars, Growing
  <1>2. CASE WriteFileFails(t) \/ UndoWrite(t) \/ Reload(t) \/ ReloadRestored(t)
    <2>1. /\ store' = store /\ block' \in {block, before, configurations[t], {}}
          /\ \E code, list : Reply(t, code, list)
      BY <1>2 DEF WriteFileFails, UndoWrite, UndoTo, FileWriteFails, WriteStops, Reload,
         Acknowledge, ReloadRestored, storeVars, fileVars
    <2> QED
      BY <1>1, <2>1, ReplyPlaced
  <1>3. PICK l : l = configurations[t]
    OBVIOUS
  <1>4. \A c \in l : c.path \in CertPaths => certs'[c.path] # ""
    BY <1>1, <1>3, StaysInPlace DEF Placed
  <1>5. CASE WriteFile(t) \/ SaveStore(t) \/ SaveStoreFails(t) \/ ReloadRefused(t) \/ RestoreFile(t)
    <2>1. /\ store' \in {store, l} /\ block' \in {block, before, l, {}}
          /\ before' \in {block, before}
          /\ \E label : Continue(t, label, l)
      BY <1>3, <1>5 DEF WriteFile, WriteBehind, SaveStore, SaveStoreFails, SaveSucceeds,
         SaveFails, ReloadRefused, RestoreFile, FileWriteFails, WriteStops, storeVars, fileVars,
         hostVars
    <2> QED
      BY <1>1, <1>4, <2>1, ContinuePlaced
  <1>6. CASE ReadBefore(t)
    <2>1. store' = store /\ block' = block
      BY <1>6 DEF ReadBefore, KeepFile, storeVars, fileVars
    <2>2. \/ before' = block /\ Continue(t, "write", l)
          \/ Reply(t, "Internal", {})
      BY <1>3, <1>6 DEF ReadBefore, KeepFile
    <2> QED
      BY <1>1, <1>4, <2>1, <2>2, ReplyPlaced, ContinuePlaced
  <1> QED
    BY <1>2, <1>5, <1>6

\* A process that ends leaves the files as they are.
LEMMA LifecyclePlaced ==
    ASSUME TypeInv, Placed, ~Cuts, "reset" \notin Faults,
           \/ Boot \/ Shutdown \/ Stop \/ Crash \/ ContainerReset
           \/ \E t \in Procs : ReloadPanics(t)
    PROVE  Placed'
  <1>0. Main \in Procs
    BY DEF Procs
  <1>1. CASE Exit \/ Crash \/ \E t \in Procs : ReloadPanics(t)
    <2>1. ProcessEnds /\ UNCHANGED <<block, certs>>
      BY <1>1 DEF Exit, Crash, DiesWriting, WriteStops, ReloadPanics, fileVars
    <2>2. /\ Growing /\ store' \in {store, {}} /\ before' = {}
          /\ configurations' = [p \in Procs |-> {}]
      BY <2>1 DEF ProcessEnds, StoreAfterExit, Growing
    <2>3. PICK l : l = {}
      OBVIOUS
    <2>4. /\ \A c \in l : c.path \in CertPaths => certs'[c.path] # ""
          /\ store' \in {store, l, {}} /\ block' \in {store, block, before, l, {}}
      BY <2>1, <2>2, <2>3
    <2> QED
      BY <1>0, <2>2, <2>4, FromPlaced
  <1>2. CASE Boot \/ Shutdown \/ OnStop \/ GracefulStop
    BY <1>0, <1>2, LifecycleIsQuiet, QuietPlaced
  <1>3. ~ContainerReset
    BY DEF ContainerReset
  <1> QED
    BY <1>1, <1>2, <1>3 DEF Stop

\* The file of a new host names no certificate of the service.
LEMMA PlacedInit == Init => Placed
  <1> SUFFICES ASSUME Init PROVE Placed
    OBVIOUS
  <1>1. \A c \in block : c.path \notin CertPaths
    BY RequestAssumption DEF Init, Pristine
  <1> QED
    BY <1>1 DEF Init, Placed, InPlace

\* No write is cut short and the container is not reset.
Sound == {"truncated", "torn", "reset"} \cap Faults = {}

\* Every step that cuts and resets no file keeps Placed.
LEMMA PlacedNext == Control /\ Lists /\ Placed /\ Sound /\ [Next]_vars => Placed'
  <1> SUFFICES ASSUME Control, Lists, Placed, Sound, [Next]_vars
               PROVE  Placed'
    OBVIOUS
  <1>0. TypeInv /\ ~Cuts /\ "reset" \notin Faults /\ FileList = block
    BY CleanFacts, HeldFacts DEF Control, Lists, Sound, Cuts
  <1>1. CASE UNCHANGED vars
    BY <1>1 DEF vars, callVars, storeVars, fileVars, hostVars, Placed, InPlace
  <1>2. ASSUME NEW t \in Procs, Call(t) \/ Acquire(t) \/ Step(t) PROVE Placed'
    <2>1. Quiet(t) => Placed'
      BY <1>0, QuietPlaced
    <2> QED
      BY <1>0, <1>2, <2>1, CallsAreQuiet, MovesAreQuiet, LoadStepPlaced, CertificateStepPlaced,
         PersistStepPlaced, LifecyclePlaced DEF Step
  <1>3. CASE Boot \/ Shutdown \/ Stop \/ Crash \/ ContainerReset
    BY <1>0, <1>3, LifecyclePlaced
  <1> QED
    BY <1>1, <1>2, <1>3 DEF Next

\* While no write is cut short and no file is reset, every certificate file
\* that the store, the file, or the content kept for a rollback names is there,
\* so that HAProxy finds it whichever of them is written and reloaded next.
THEOREM CertificatesStayInPlace ==
    Spec => []({"truncated", "torn", "reset"} \cap Faults = {} => CertificatesInPlace)
  <1> DEFINE P == Sound => Placed
  <1>1. Init => P
    BY PlacedInit
  <1>2. Control /\ Lists /\ P /\ [Next]_vars => P'
    BY PlacedNext
  <1>3. P => ({"truncated", "torn", "reset"} \cap Faults = {} => CertificatesInPlace)
    BY DEF Sound, Placed, InPlace, CertificatesInPlace
  <1> HIDE DEF P
  <1> QED
    BY <1>1, <1>2, <1>3, AlwaysLists, PTL DEF Spec

=============================================================================
