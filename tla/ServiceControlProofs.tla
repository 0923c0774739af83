------------------------ MODULE ServiceControlProofs ------------------------
(***************************************************************************)
(* Type correctness of HaproxyService, for any number of callers, any sets *)
(* of names, configurations and certificates, either store and any faults; *)
(* then who may be where in it and what it then holds of the mutex, and    *)
(* what follows for the client that the stop hook takes away.              *)
(***************************************************************************)
EXTENDS HaproxyService, TLAPS

(* Types *)

Requests == ConfigRequests \cup {NameOnly(n) : n \in RawNames}

\* The variables of the calls and of the mutex; a configuration in a call has
\* been validated.
CallTypes ==
    /\ pc \in [Procs -> Labels]
    /\ op \in [Procs -> Mutators \cup Readers \cup {"", "status", "start"}]
    /\ arg \in [Procs -> Requests]
    /\ configurations \in [Procs -> SUBSET Config]
    /\ before \subseteq Config
    /\ reply \in [to : Procs \cup {NoProc}, code : Codes, list : SUBSET Config]
    /\ writer \in Procs \cup {NoProc} /\ readers \subseteq Procs
    /\ \A t \in Procs : op[t] \in {"create", "update"} =>
          arg[t] \in ConfigRequests /\ ValidateConfiguration(arg[t])

HostTypes ==
    /\ StoreTypeOK
    /\ client \in BOOLEAN /\ fileSet \in BOOLEAN /\ serving \in BOOLEAN
    /\ block \subseteq Config /\ rest \in Rest /\ restBefore \in Rest
    /\ certs \in [CertPaths -> PEMs \cup {""}]
    /\ running \subseteq [cfg : Config, pem : PEMs \cup {""}]
    /\ lost \in BOOLEAN /\ possible \subseteq SUBSET Config
    /\ panicked \in BOOLEAN

TypeInv == CallTypes /\ HostTypes

\* An answer of a right form keeps the types of the calls.
LEMMA ReplyTypes ==
    ASSUME CallTypes, NEW t \in Procs, NEW code \in Codes, NEW list \in SUBSET Config,
           Reply(t, code, list)
    PROVE  CallTypes'
  <1>1. NameOnly("") \in Requests
    BY NameAssumption DEF Requests
  <1>2. pc' \in [Procs -> Labels]
    BY DEF CallTypes, Reply, Goto, Labels
  <1>3. /\ op' \in [Procs -> Mutators \cup Readers \cup {"", "status", "start"}]
        /\ arg' \in [Procs -> Requests]
        /\ configurations' \in [Procs -> SUBSET Config]
        /\ before' \subseteq Config
    BY <1>1 DEF CallTypes, Reply
  <1>4. reply' \in [to : Procs \cup {NoProc}, code : Codes, list : SUBSET Config]
    BY DEF Reply
  <1>5. writer' \in Procs \cup {NoProc} /\ readers' \subseteq Procs
    BY DEF CallTypes, Reply, Unlock
  <1>6. ASSUME NEW u \in Procs, op'[u] \in {"create", "update"}
        PROVE  arg'[u] \in ConfigRequests /\ ValidateConfiguration(arg'[u])
    BY <1>6 DEF CallTypes, Reply
  <1> QED
    BY <1>2, <1>3, <1>4, <1>5, <1>6 DEF CallTypes

\* Going on to a label with a list of configurations keeps them too.
LEMMA ContinueTypes ==
    ASSUME CallTypes, NEW t \in Procs, NEW label \in Labels, NEW l \in SUBSET Config,
           Continue(t, label, l), before' \subseteq Config
    PROVE  CallTypes'
  <1>1. reply' \in [to : Procs \cup {NoProc}, code : Codes, list : SUBSET Config]
    BY DEF Continue, NoReply, Codes
  <1> QED
    BY <1>1 DEF CallTypes, Continue, Goto, lockVars

\* And so does the entry of a call with an argument of its kind.
LEMMA EnterTypes ==
    ASSUME CallTypes, NEW t \in Procs, NEW label \in Labels,
           NEW o \in Mutators \cup Readers \cup {"status", "start"},
           NEW a \in Requests,
           o \in {"create", "update"} => a \in ConfigRequests /\ ValidateConfiguration(a),
           Enter(t, o, a, label)
    PROVE  CallTypes'
  <1>1. reply' \in [to : Procs \cup {NoProc}, code : Codes, list : SUBSET Config]
    BY DEF Enter, NoReply, Codes
  <1> QED
    BY <1>1 DEF CallTypes, Enter, Goto, lockVars

\* A match of a key is one of the configurations searched.
LEMMA FirstMatchIn ==
    ASSUME NEW list, NEW key, HasMatch(list, key)
    PROVE  FirstMatch(list, key) \in list
  BY DEF HasMatch, FirstMatch, Matching

\* A validated request becomes a configuration of the list.
LEMMA StoredTypes ==
    ASSUME NEW r \in ConfigRequests, ValidateConfiguration(r)
    PROVE  /\ Stored(r) \in Config
           /\ Stored(r).name = NormalizeConfigurationName(r.name)
           /\ Stored(r).body = r.body /\ Stored(r).path = r.path /\ Stored(r).pem = r.pem
           /\ Stored(r).pem # "" => Stored(r).path = ""
  <1>1. r \in Request
    BY RequestAssumption
  <1>2. NormalizeConfigurationName(r.name) \in Keys
    BY <1>1, NameAssumption DEF ValidateConfiguration, NormalizeConfigurationName, Request
  <1> QED
    BY <1>1, <1>2 DEF Stored, Config, Request, ValidateConfiguration

\* The edit of a call yields a list of configurations.
LEMMA EditedTypes ==
    ASSUME CallTypes, NEW t \in Procs, NEW l \in SUBSET Config, op[t] \in Mutators
    PROVE  Edited(t, l) \in SUBSET Config
  BY StoredTypes DEF CallTypes, Edited, Mutators

\* Whatever a call decides on the list it loaded, its types are kept.
LEMMA DecideTypes ==
    ASSUME CallTypes, NEW t \in Procs, NEW l \in SUBSET Config, Decide(t, l)
    PROVE  CallTypes'
  <1> "certs" \in Labels /\ {"OK", "AlreadyExists", "NotFound"} \subseteq Codes
    BY DEF Labels, Codes
  <1>1. CASE op[t] = "list" /\ Reply(t, "OK", l)
    BY <1>1, ReplyTypes
  <1>2. CASE op[t] = "start" /\ Continue(t, "certs", l) /\ UNCHANGED before
    BY <1>2, ContinueTypes DEF CallTypes
  <1>3. CASE op[t] = "get" /\ HasMatch(l, Key(t)) /\ Reply(t, "OK", {FirstMatch(l, Key(t))})
    BY <1>3, ReplyTypes, FirstMatchIn
  <1>4. CASE op[t] = "create" /\ HasMatch(l, Key(t)) /\ Reply(t, "AlreadyExists", {})
    BY <1>4, ReplyTypes
  <1>5. CASE Reply(t, "NotFound", {})
    BY <1>5, ReplyTypes
  <1>6. CASE op[t] \in Mutators /\ Continue(t, "certs", Edited(t, l)) /\ UNCHANGED before
    <2>1. Edited(t, l) \in SUBSET Config
      BY <1>6, EditedTypes
    <2> QED
      BY <1>6, <2>1, ContinueTypes DEF CallTypes
  <1> QED
    BY <1>1, <1>2, <1>3, <1>4, <1>5, <1>6 DEF Decide

\* A load that fails ends the call with an answer of a right form.
LEMMA LoadErrorTypes ==
    ASSUME CallTypes, NEW t \in Procs, LoadError(t)
    PROVE  CallTypes'
  <1>1. {"OK", "Internal"} \subseteq Codes
    BY DEF Codes
  <1> QED
    BY <1>1, ReplyTypes DEF LoadError

\* What HAProxy loads of a well-formed file and certificates is well formed,
\* and is the list of the file.
LEMMA LoadedTypes ==
    ASSUME NEW l \in SUBSET Config, NEW cs \in [CertPaths -> PEMs \cup {""}]
    PROVE  /\ Loaded(l, cs) \subseteq [cfg : Config, pem : PEMs \cup {""}]
           /\ {r.cfg : r \in Loaded(l, cs)} = l
  <1>1. ASSUME NEW c \in l
        PROVE  Entry(c, cs) \in [cfg : Config, pem : PEMs \cup {""}] /\ Entry(c, cs).cfg = c
    BY DEF Entry
  <1>2. Loaded(l, cs) \subseteq [cfg : Config, pem : PEMs \cup {""}]
    BY <1>1 DEF Loaded
  <1>3. ASSUME NEW c \in l PROVE \E r \in Loaded(l, cs) : r.cfg = c
    <2>1. Entry(c, cs) \in Loaded(l, cs)
      BY DEF Loaded
    <2> QED
      BY <1>1, <2>1
  <1>4. ASSUME NEW r \in Loaded(l, cs) PROVE r.cfg \in l
    <2>1. PICK c \in l : r = Entry(c, cs)
      BY DEF Loaded
    <2> QED
      BY <1>1, <2>1
  <1>5. \A x : x \in {r.cfg : r \in Loaded(l, cs)} <=> x \in l
    BY <1>3, <1>4
  <1> QED
    BY <1>2, <1>5

\* Moving a certificate to its file leaves a configuration of the same name.
LEMMA CertificateTypes ==
    ASSUME NEW c \in Config, NeedsCertificate(c)
    PROVE  /\ EnsureCertificatePath(c) \in Config
           /\ EnsureCertificatePath(c).name = c.name
           /\ EnsureCertificatePath(c).pem = ""
           /\ CertFile[c.name] \in CertPaths
           /\ c.pem \in PEMs
  BY CertAssumption DEF EnsureCertificatePath, Config, NeedsCertificate

\* What is read from the file is well formed, and so is what a write leaves
\* behind, whether it ends or stops on its way.
LEMMA FileTypes ==
    ASSUME block \in SUBSET Config, rest \in Rest
    PROVE  FileList \in SUBSET Config /\ NoRest \in Rest /\ MergedRest \in Rest
  BY DEF FileList, NoRest, MergedRest, KeepsRest, Rest

\* A write that fails leaves the file well formed too.
LEMMA FailedWriteTypes ==
    ASSUME block \in SUBSET Config, rest \in Rest, lost \in BOOLEAN,
           NEW list \in SUBSET Config, NEW left \in Rest, FileWriteFails(list, left)
    PROVE  block' \in SUBSET Config /\ rest' \in Rest /\ lost' \in BOOLEAN
  <1>1. CutInside(list, left) \subseteq Rest /\ NoRest \in Rest
    BY DEF CutInside, Rest, NoRest
  <1> QED
    BY <1>1 DEF FileWriteFails, WriteStops, fileVars

\* HAProxy keeps what it runs, or loads a well-formed file.
LEMMA ReloadTypes ==
    ASSUME HostTypes, ReloadSucceeds \/ ReloadFails
    PROVE  running' \subseteq [cfg : Config, pem : PEMs \cup {""}]
  <1>1. ASSUME NEW left \in SUBSET rest.entries
        PROVE  Loaded(block \cup left, certs) \subseteq [cfg : Config, pem : PEMs \cup {""}]
    <2>1. block \cup left \in SUBSET Config
      BY DEF HostTypes, Rest
    <2> QED
      BY <2>1, LoadedTypes DEF HostTypes
  <1>2. CASE ReloadSucceeds
    BY <1>1, <1>2 DEF ReloadSucceeds
  <1> QED
    BY <1>2 DEF ReloadFails, HostTypes

\* A call that has its client goes on, or is refused, with right types.
LEMMA WithClientTypes ==
    ASSUME CallTypes, NEW t \in Procs, WithClient(t)
    PROVE  CallTypes'
  <1>1. CASE op[t] = "delete" /\ Key(t) = ""
    <2>1. "InvalidArgument" \in Codes
      BY DEF Codes
    <2>2. Reply(t, "InvalidArgument", {})
      BY <1>1 DEF WithClient
    <2> QED
      BY <2>1, <2>2, ReplyTypes
  <1>2. CASE ~(op[t] = "delete" /\ Key(t) = "")
    <2>1. NoReply \in [to : Procs \cup {NoProc}, code : Codes, list : SUBSET Config]
      BY DEF NoReply, Codes
    <2> QED
      BY <1>2, <2>1 DEF WithClient, CallTypes, Goto, Unlock, Labels
  <1> QED
    BY <1>1, <1>2

\* Calls, the mutex and the client check touch no file and no store.
LEMMA CallStepTypes ==
    ASSUME TypeInv, NEW t \in Procs,
           Call(t) \/ Lock(t) \/ RLock(t) \/ CheckClient(t)
    PROVE  TypeInv'
  <1> USE DEF TypeInv
  <1> {"client", "rlock", "slow", "lock", "stats"} \subseteq Labels
         /\ {"OK", "InvalidArgument", "Internal", "Unknown"} \subseteq Codes
    BY DEF Labels, Codes
  <1>0. \A n \in RawNames : NameOnly(n) \in Requests
    BY DEF Requests
  <1>1. HostTypes'
    BY DEF HostTypes, StoreTypeOK, clientVars, storeVars, fileVars, hostVars, ghostVars, Call,
       CreateConfiguration, UpdateConfiguration, DeleteConfiguration, GetConfiguration,
       ListConfigurations, GetStatus, Submit, Accepting, Lock, LockWhen, RLock,
       RLockWhen, CheckClient
  <1>2. ASSUME Refuse(t) PROVE CallTypes'
    <2>1. reply' \in [to : Procs \cup {NoProc}, code : Codes, list : SUBSET Config]
      BY <1>2 DEF Refuse
    <2> QED
      BY <1>2, <2>1 DEF Refuse, CallTypes, lockVars
  <1>3. CASE CreateConfiguration(t) \/ UpdateConfiguration(t)
    <2>1. PICK o \in {"create", "update"}, r \in ConfigRequests :
             IF ValidateConfiguration(r) THEN Enter(t, o, r, "client") ELSE Refuse(t)
      BY <1>3 DEF CreateConfiguration, UpdateConfiguration, Submit
    <2> QED
      BY <1>2, <2>1, <1>1, EnterTypes DEF Mutators, Requests
  <1>4. CASE DeleteConfiguration(t)
    BY <1>0, <1>1, <1>4, EnterTypes DEF DeleteConfiguration, Mutators
  <1>5. CASE GetConfiguration(t)
    BY <1>0, <1>1, <1>2, <1>5, EnterTypes DEF GetConfiguration, Readers
  <1>6. CASE ListConfigurations(t) \/ GetStatus(t)
    BY <1>0, <1>1, <1>6, NameAssumption, EnterTypes DEF ListConfigurations, GetStatus, Readers
  <1>7. NoReply \in [to : Procs \cup {NoProc}, code : Codes, list : SUBSET Config]
    BY DEF NoReply, Codes
  <1>8. CASE Lock(t)
    <2>1. Blocking[pc[t]] \in Labels
      BY <1>8 DEF Lock, LockWhen, Blocking, Labels
    <2> QED
      BY <1>1, <1>7, <1>8, <2>1 DEF Lock, LockWhen, Goto, CallTypes
  <1>9. CASE RLock(t)
    BY <1>1, <1>7, <1>9 DEF RLock, RLockWhen, Goto, CallTypes, Labels
  <1>10. CASE CheckClient(t)
    <2>1. CASE client
      BY <1>1, <1>10, <2>1, WithClientTypes DEF CheckClient
    <2>2. CASE ~client
      BY <1>1, <1>7, <1>10, <2>2 DEF CheckClient, Goto, CallTypes, lockVars
    <2> QED
      BY <2>1, <2>2
  <1> QED
    BY <1>3, <1>4, <1>5, <1>6, <1>8, <1>9, <1>10 DEF Call

\* The steps of a call up to the list it persists.
LEMMA LoadStepTypes ==
    ASSUME TypeInv, NEW t \in Procs,
           \/ CreateClient(t) \/ CreateClientFails(t) \/ GetStats(t)
           \/ LoadStore(t) \/ LoadStoreFails(t) \/ LoadFile(t) \/ LoadFileFails(t)
           \/ Seed(t) \/ SeedFails(t)
    PROVE  TypeInv'
  <1> USE DEF TypeInv
  <1> {"loadFile", "seed"} \subseteq Labels
         /\ {"OK", "Internal", "Unknown"} \subseteq Codes
    BY DEF Labels, Codes
  <1>1. store \in SUBSET Config /\ FileList \in SUBSET Config
           /\ configurations[t] \in SUBSET Config /\ before \subseteq Config
    BY FileTypes DEF HostTypes, StoreTypeOK, CallTypes
  <1>2. CASE CreateClient(t)
    BY <1>2, WithClientTypes DEF CreateClient, HostTypes, StoreTypeOK, storeVars,
       fileVars, hostVars, ghostVars
  <1>3. CASE CreateClientFails(t)
    <2>1. CallTypes'
      BY <1>3, ReplyTypes DEF CreateClientFails, FailCode
    <2> QED
      BY <1>3, <2>1 DEF CreateClientFails, HostTypes, StoreTypeOK, storeVars, fileVars, hostVars,
         ghostVars
  <1>4. CASE GetStats(t)
    <2>1. CallTypes'
      BY <1>4, ReplyTypes DEF GetStats, FailCode
    <2> QED
      BY <1>4, <2>1 DEF GetStats, HostTypes, StoreTypeOK, clientVars, storeVars, fileVars, hostVars,
         ghostVars
  <1>5. CASE LoadStore(t)
    <2>1. CallTypes'
      BY <1>1, <1>5, DecideTypes, ReplyTypes, ContinueTypes DEF LoadStore, LoadList
    <2> QED
      BY <1>5, <2>1 DEF LoadStore, LoadList, HostTypes, StoreTypeOK, clientVars, storeVars,
         fileVars, hostVars, ghostVars
  <1>6. CASE LoadStoreFails(t) \/ LoadFileFails(t)
    BY <1>6, LoadErrorTypes DEF LoadStoreFails, LoadFileFails, HostTypes, StoreTypeOK,
       clientVars, storeVars, fileVars, hostVars, ghostVars
  <1>7. CASE LoadFile(t)
    <2>1. CallTypes'
      BY <1>1, <1>7, DecideTypes, ContinueTypes DEF LoadFile
    <2> QED
      BY <1>7, <2>1 DEF LoadFile, HostTypes, StoreTypeOK, clientVars, storeVars, fileVars, hostVars,
         ghostVars
  <1>8. CASE Seed(t)
    BY <1>1, <1>8, DecideTypes DEF Seed, SaveSucceeds, HostTypes, StoreTypeOK, clientVars,
       fileVars, hostVars, ghostVars
  <1>9. CASE SeedFails(t)
    BY <1>1, <1>9, LoadErrorTypes DEF SeedFails, SaveFails, HostTypes, StoreTypeOK,
       clientVars, fileVars, hostVars, ghostVars
  <1> QED
    BY <1>2, <1>3, <1>4, <1>5, <1>6, <1>7, <1>8, <1>9

\* The steps that persist the list.
LEMMA PersistStepTypes ==
    ASSUME TypeInv, NEW t \in Procs,
           \/ EnsureCertificate(t) \/ EnsureCertificateFails(t) \/ ReadBefore(t)
           \/ WriteFile(t) \/ WriteFileFails(t)
           \/ SaveStore(t) \/ SaveStoreFails(t) \/ UndoWrite(t)
           \/ Reload(t) \/ ReloadRefused(t) \/ RestoreFile(t) \/ ReloadRestored(t)
    PROVE  TypeInv'
  <1> USE DEF TypeInv
  <1> {"certs", "write", "save", "reload", "undo", "restore", "rereload"} \subseteq Labels
         /\ {"OK", "Internal"} \subseteq Codes
    BY DEF Labels, Codes, Written
  <1>1. block \in SUBSET Config /\ configurations[t] \in SUBSET Config
           /\ before \in SUBSET Config
    BY DEF HostTypes, CallTypes
  <1>2. CASE EnsureCertificate(t)
    <2>1. PICK c \in configurations[t] :
             /\ WritesCertificate(t, c)
             /\ certs' = [certs EXCEPT ![CertFile[c.name]] = c.pem]
             /\ Continue(t, "certs", (configurations[t] \ {c}) \cup {EnsureCertificatePath(c)})
             /\ UNCHANGED <<before, restBefore, clientVars, serving, storeVars, fileVars,
                            running, ghostVars>>
      BY <1>2 DEF EnsureCertificate, MoveCertificate
    <2>2. c \in Config /\ NeedsCertificate(c)
      BY <1>1, <2>1 DEF WritesCertificate
    <2>3. (configurations[t] \ {c}) \cup {EnsureCertificatePath(c)} \in SUBSET Config
      BY <1>1, <2>2, CertificateTypes
    <2>4. CallTypes'
      BY <1>1, <2>1, <2>3, ContinueTypes
    <2> QED
      BY <2>1, <2>2, <2>4, CertificateTypes DEF HostTypes, StoreTypeOK, clientVars,
         storeVars, fileVars, ghostVars
  <1>3. CASE EnsureCertificateFails(t)
    <2>0. Reply(t, "Internal", {})
      BY <1>3 DEF EnsureCertificateFails
    <2>1. CallTypes'
      BY <2>0, ReplyTypes
    <2>2. PICK c \in configurations[t] :
             /\ WritesCertificate(t, c)
             /\ \/ UNCHANGED certs
                \/ certs' = [certs EXCEPT ![CertFile[c.name]] = ""]
                \/ certs' = [certs EXCEPT ![CertFile[c.name]] = c.pem]
      BY <1>3 DEF EnsureCertificateFails
    <2>3. c \in Config /\ NeedsCertificate(c)
      BY <1>1, <2>2 DEF WritesCertificate
    <2>4. certs' \in [CertPaths -> PEMs \cup {""}]
      BY <2>2, <2>3, CertificateTypes DEF HostTypes
    <2> QED
      BY <1>3, <2>1, <2>4 DEF EnsureCertificateFails, HostTypes, StoreTypeOK, clientVars,
         storeVars, fileVars, ghostVars
  <1>4. CASE ReadBefore(t)
    <2>1. CallTypes'
      BY <1>1, <1>4, ReplyTypes, ContinueTypes DEF ReadBefore, KeepFile
    <2> QED
      BY <1>4, <2>1 DEF ReadBefore, KeepFile, HostTypes, StoreTypeOK, clientVars, storeVars,
         fileVars, hostVars, ghostVars
  <1>5. /\ rest \in Rest /\ restBefore \in Rest /\ lost \in BOOLEAN
        /\ NoRest \in Rest /\ MergedRest \in Rest
    BY <1>1, FileTypes DEF HostTypes
  <1>6. CASE WriteFile(t)
    <2>1. CallTypes'
      BY <1>1, <1>6, ContinueTypes DEF WriteFile, WriteBehind
    <2> QED
      BY <1>1, <1>5, <1>6, <2>1 DEF WriteFile, WriteBehind, HostTypes, StoreTypeOK, clientVars,
         storeVars, ghostVars
  <1>7. ASSUME MayRemain(t) PROVE possible' \subseteq SUBSET Config
    BY <1>1, <1>7 DEF MayRemain, HostTypes
  <1>8. CASE WriteFileFails(t)
    <2>1. CallTypes'
      BY <1>8, ReplyTypes DEF WriteFileFails
    <2>2. \/ FileWriteFails(configurations[t], MergedRest) /\ UNCHANGED possible
          \/ /\ block' = configurations[t] /\ rest' = MergedRest /\ UNCHANGED lost
             /\ MayRemain(t)
      BY <1>8 DEF WriteFileFails
    <2>3. /\ block' \in SUBSET Config /\ rest' \in Rest /\ lost' \in BOOLEAN
          /\ possible' \subseteq SUBSET Config
      BY <1>1, <1>5, <1>7, <2>2, FailedWriteTypes DEF HostTypes
    <2> QED
      BY <1>5, <1>8, <2>1, <2>3 DEF WriteFileFails, HostTypes, StoreTypeOK, clientVars, storeVars
  <1>9. CASE SaveStore(t) \/ SaveStoreFails(t)
    <2>1. CallTypes'
      BY <1>1, <1>9, ContinueTypes DEF SaveStore, SaveStoreFails
    <2> QED
      BY <1>1, <1>9, <2>1 DEF SaveStore, SaveStoreFails, SaveSucceeds, SaveFails, HostTypes,
         StoreTypeOK, clientVars, fileVars, hostVars, ghostVars
  <1>10. ASSUME \/ block' = before /\ rest' = restBefore /\ UNCHANGED lost
                \/ FileWriteFails(before, restBefore)
         PROVE  block' \in SUBSET Config /\ rest' \in Rest /\ lost' \in BOOLEAN
    BY <1>1, <1>5, <1>10, FailedWriteTypes
  <1>11. CASE UndoWrite(t)
    <2>1. CallTypes'
      BY <1>11, ReplyTypes DEF UndoWrite, UndoTo
    <2>2. /\ block' \in SUBSET Config /\ rest' \in Rest /\ lost' \in BOOLEAN
          /\ possible' \subseteq SUBSET Config
      BY <1>7, <1>10, <1>11 DEF UndoWrite, UndoTo
    <2> QED
      BY <1>5, <1>11, <2>1, <2>2 DEF UndoWrite, UndoTo, HostTypes, StoreTypeOK, clientVars,
         storeVars
  <1>12. CASE Reload(t)
    <2>1. CallTypes'
      BY <1>1, <1>12, ReplyTypes DEF Reload, Acknowledge, Answered
    <2> QED
      BY <1>1, <1>5, <1>12, <2>1, ReloadTypes DEF Reload, Acknowledge, HostTypes, StoreTypeOK,
         clientVars, storeVars, fileVars
  <1>13. CASE ReloadRefused(t)
    <2>1. CallTypes'
      BY <1>1, <1>13, ContinueTypes DEF ReloadRefused
    <2> QED
      BY <1>13, <2>1, ReloadTypes DEF ReloadRefused, HostTypes, StoreTypeOK, clientVars,
         storeVars, fileVars, ghostVars
  <1>14. CASE RestoreFile(t)
    <2>1. CallTypes'
      BY <1>1, <1>14, ContinueTypes DEF RestoreFile
    <2>2. block' \in SUBSET Config /\ rest' \in Rest /\ lost' \in BOOLEAN
      BY <1>10, <1>14 DEF RestoreFile
    <2> QED
      BY <1>14, <2>1, <2>2 DEF RestoreFile, HostTypes, StoreTypeOK, clientVars, storeVars
  <1>15. CASE ReloadRestored(t)
    <2>1. CallTypes'
      BY <1>15, ReplyTypes DEF ReloadRestored
    <2> QED
      BY <1>5, <1>7, <1>15, <2>1, ReloadTypes DEF ReloadRestored, HostTypes, StoreTypeOK,
         clientVars, storeVars, fileVars
  <1> QED
    BY <1>2, <1>3, <1>4, <1>6, <1>8, <1>9, <1>11, <1>12, <1>13, <1>14, <1>15

\* The end of the process, the lifecycle and the host.
LEMMA LifecycleTypes ==
    ASSUME TypeInv,
           \/ Boot \/ Shutdown \/ Stop \/ Crash \/ ContainerReset
           \/ \E t \in Procs : ReloadPanics(t)
    PROVE  TypeInv'
  <1> USE DEF TypeInv
  <1>0. /\ Main \in Procs /\ NameOnly("") \in Requests
        /\ {"client", "stop", "drain", "exit", "down", "idle"} \subseteq Labels
        /\ NoReply \in [to : Procs \cup {NoProc}, code : Codes, list : SUBSET Config]
    BY NameAssumption DEF Procs, Requests, Labels, NoReply, Codes
  <1>1. ASSUME ProcessEnds PROVE CallTypes' /\ StoreTypeOK' /\ client' \in BOOLEAN
                                   /\ fileSet' \in BOOLEAN /\ serving' \in BOOLEAN
                                   /\ restBefore' \in Rest
    BY <1>0, <1>1 DEF ProcessEnds, CallTypes, HostTypes, StoreAfterExit, StoreTypeOK, Rest, NoRest
  <1>2. CASE Boot
    <2>1. CallTypes'
      BY <1>0, <1>2, EnterTypes DEF Boot
    <2> QED
      BY <1>2, <2>1 DEF Boot, HostTypes, StoreTypeOK, clientVars, storeVars, fileVars, hostVars
  <1>3. CASE Shutdown
    BY <1>0, <1>3 DEF Shutdown, Goto, CallTypes, HostTypes, StoreTypeOK, lockVars, clientVars,
       storeVars, fileVars, hostVars, ghostVars
  <1>4. CASE OnStop
    BY <1>0, <1>4 DEF OnStop, CloseStore, Unlock, Goto, CallTypes, HostTypes, StoreTypeOK,
       fileVars, hostVars, ghostVars
  <1>5. CASE GracefulStop
    BY <1>0, <1>5 DEF GracefulStop, Drain, Goto, CallTypes, HostTypes, StoreTypeOK, lockVars,
       clientVars, storeVars, fileVars, hostVars, ghostVars
  <1>6. CASE Exit
    BY <1>1, <1>6 DEF Exit, HostTypes, fileVars, ghostVars
  <1>7. InFlight \subseteq SUBSET Config
    <2>1. \A t \in Procs : configurations[t] \in SUBSET Config
      BY DEF CallTypes
    <2> QED
      BY <2>1 DEF InFlight
  <1>8. CASE Crash
    <2>1. certs' \in [CertPaths -> PEMs \cup {""}]
      BY <1>8 DEF Crash, HostTypes
    <2>2. /\ block \in SUBSET Config /\ before \in SUBSET Config /\ lost \in BOOLEAN
          /\ rest \in Rest /\ restBefore \in Rest /\ MergedRest \in Rest
          /\ \A t \in Procs : configurations[t] \in SUBSET Config
      BY FileTypes DEF HostTypes, CallTypes
    <2>3. ASSUME NEW t \in Procs, DiesWriting(t)
          PROVE  block' \in SUBSET Config /\ rest' \in Rest /\ lost' \in BOOLEAN
      BY <2>2, <2>3, FailedWriteTypes DEF DiesWriting, FileWriteFails
    <2>4. block' \in SUBSET Config /\ rest' \in Rest /\ lost' \in BOOLEAN
      BY <1>8, <2>2, <2>3 DEF Crash, fileVars
    <2> QED
      BY <1>1, <1>7, <1>8, <2>1, <2>4 DEF Crash, HostTypes
  <1>9. CASE \E t \in Procs : ReloadPanics(t)
    BY <1>1, <1>7, <1>9 DEF ReloadPanics, HostTypes, fileVars
  <1>10. CASE ContainerReset
    BY <1>0, <1>10 DEF ContainerReset, CallTypes, HostTypes, StoreTypeOK, lockVars,
       clientVars, storeVars, Rest, NoRest
  <1> QED
    BY <1>2, <1>3, <1>4, <1>5, <1>6, <1>8, <1>9, <1>10 DEF Stop

\* The types hold of a new host on which the service never ran.
LEMMA TypeInit == Init => TypeInv
  <1> SUFFICES ASSUME Init PROVE TypeInv
    OBVIOUS
  <1>1. /\ NameOnly("") \in Requests /\ {"down", "idle"} \subseteq Labels
        /\ NoReply \in [to : Procs \cup {NoProc}, code : Codes, list : SUBSET Config]
    BY NameAssumption DEF Requests, Labels, NoReply, Codes
  <1>2. CallTypes
    BY <1>1 DEF Init, CallTypes
  <1>3. block \in SUBSET Config /\ certs \in [CertPaths -> PEMs \cup {""}]
    BY RequestAssumption DEF Init
  <1>4. HostTypes
    BY <1>3, LoadedTypes DEF Init, HostTypes, StoreTypeOK, Rest, NoRest
  <1> QED
    BY <1>2, <1>4 DEF TypeInv

\* And every step of the system keeps them.
LEMMA TypeNext == TypeInv /\ [Next]_vars => TypeInv'
  <1> SUFFICES ASSUME TypeInv, [Next]_vars PROVE TypeInv'
    OBVIOUS
  <1>1. CASE UNCHANGED vars
    BY <1>1 DEF vars, TypeInv, CallTypes, HostTypes, StoreTypeOK, callVars, lockVars,
       clientVars, storeVars, fileVars, hostVars, ghostVars
  <1>2. ASSUME NEW t \in Procs, Call(t) \/ Acquire(t) \/ Step(t) PROVE TypeInv'
    BY <1>2, CallStepTypes, LoadStepTypes, PersistStepTypes, LifecycleTypes DEF Acquire, Step
  <1>3. CASE Boot \/ Shutdown \/ Stop \/ Crash \/ ContainerReset
    BY <1>3, LifecycleTypes
  <1> QED
    BY <1>1, <1>2, <1>3 DEF Next

\* Every variable keeps its type: a list that any call, fault or crash leaves
\* behind consists of configurations with normalised, non-empty names.
THEOREM TypeCorrect == Spec => []TypeOK
  <1>1. Spec => []TypeInv
    BY TypeInit, TypeNext, PTL DEF Spec
  <1>2. TypeInv => TypeOK
    BY DEF TypeInv, CallTypes, HostTypes, TypeOK, Requests
  <1> QED
    BY <1>1, <1>2, PTL

-----------------------------------------------------------------------------
(* Control *)

\* The labels at which a list is being persisted.
Exclusive == {"certs", "write"} \cup Written

\* Which calls reach which label; while the process is down there are none.
Order ==
    /\ \A t \in Procs :
          /\ pc[t] \in {"client", "slow", "create"} => op[t] \in Mutators \cup {"start", "status"}
          /\ pc[t] = "stats" => op[t] = "status"
          /\ pc[t] = "lock" => op[t] \in Mutators \cup {"start"}
          /\ pc[t] = "rlock" => op[t] \in Readers
          /\ pc[t] = "load" => op[t] \in Mutators \cup Readers \cup {"start"}
          /\ pc[t] \in {"loadFile", "seed"} => op[t] \in Mutators \cup Readers
          /\ pc[t] \in Exclusive => op[t] \in Mutators \cup {"start"}
          /\ pc[t] \in {"save", "undo"} => op[t] \in Mutators
    /\ pc[Main] = "down" => ~serving /\ \A t \in Procs : pc[t] \in {"idle", "down"}

\* What a call at a label holds of the mutex.
Locking ==
    /\ \A t \in readers : pc[t] \in {"load", "loadFile", "seed"} /\ op[t] \in Readers
    /\ \A t \in Procs : pc[t] \in {"loadFile", "seed"} => HoldsLock(t)
    /\ \A t \in Procs : pc[t] \in Exclusive => writer = t /\ readers = {}

-----------------------------------------------------------------------------
(* Order and Locking are inductive *)

\* The first layer of the inductive invariant; later ones are Clients, Lists
\* (what every list is like) and Knows (what a holder of the mutex relies on).
Control == TypeInv /\ Order /\ Locking

\* A call that is under way belongs to a process that is up.
LEMMA ReplyControl ==
    ASSUME Control, NEW t \in Procs, NEW code, NEW list, Reply(t, code, list),
           serving' = serving, pc[t] \notin {"idle", "down"}
    PROVE  Order' /\ Locking'
  <1>1. /\ pc' = [pc EXCEPT ![t] = pc'[t]] /\ pc'[t] \in {"idle", "run", "drain"}
        /\ op' = [op EXCEPT ![t] = ""]
        /\ writer' = (IF writer = t THEN NoProc ELSE writer) /\ readers' = readers \ {t}
        /\ pc \in [Procs -> Labels] /\ readers \subseteq Procs /\ Main \in Procs
        /\ op \in [Procs -> Mutators \cup Readers \cup {"", "status", "start"}]
    BY DEF Control, TypeInv, CallTypes, Reply, Goto, Unlock, Procs
  <1>2. Order'
    BY <1>1 DEF Control, Order, Exclusive, Written
  <1>3. Locking'
    BY <1>1 DEF Control, Locking, HoldsLock, Exclusive, Written
  <1> QED
    BY <1>2, <1>3

\* The labels a call at label may go on to, given what it holds.
Fits(t, label) ==
    /\ label \in {"loadFile", "seed"} => op[t] \in Mutators \cup Readers /\ HoldsLock(t)
    /\ label \in Exclusive => op[t] \in Mutators \cup {"start"} /\ writer = t /\ readers = {}
    /\ label \in {"save", "undo"} => op[t] \in Mutators

\* A call goes on to a label that fits its kind and what it holds.
LEMMA ContinueControl ==
    ASSUME Control, NEW t \in Procs, NEW label \in {"loadFile", "seed"} \cup Exclusive, NEW l,
           Continue(t, label, l), serving' = serving, pc[t] \notin {"idle", "down"},
           Fits(t, label)
    PROVE  Order' /\ Locking'
  <1>1. /\ pc' = [pc EXCEPT ![t] = label] /\ op' = op
        /\ writer' = writer /\ readers' = readers
        /\ pc \in [Procs -> Labels] /\ readers \subseteq Procs /\ Main \in Procs
        /\ op \in [Procs -> Mutators \cup Readers \cup {"", "status", "start"}]
    BY DEF Control, TypeInv, CallTypes, Continue, Goto, lockVars, Procs
  <1>2. Order'
    BY <1>1 DEF Control, Order, Exclusive, Written, Fits
  <1>3. Locking'
    BY <1>1 DEF Control, Locking, HoldsLock, Exclusive, Written, Fits
  <1> QED
    BY <1>2, <1>3

\* Only the one that holds the mutex as a writer decides to persist a list.
LEMMA DecideControl ==
    ASSUME Control, NEW t \in Procs, NEW l, Decide(t, l), serving' = serving,
           pc[t] \in {"load", "loadFile", "seed"}, HoldsLock(t)
    PROVE  Order' /\ Locking'
  <1>1. ASSUME op[t] \in Mutators \cup {"start"} PROVE Fits(t, "certs")
    BY <1>1 DEF Control, Locking, HoldsLock, Fits, Exclusive, Mutators, Readers, Written
  <1>2. \/ \E code, list : Reply(t, code, list)
        \/ op[t] \in Mutators \cup {"start"} /\ \E k : Continue(t, "certs", k)
    BY DEF Decide
  <1> QED
    BY <1>1, <1>2, ReplyControl, ContinueControl DEF Exclusive

\* A load that fails gives the mutex back.
LEMMA LoadErrorControl ==
    ASSUME Control, NEW t \in Procs, LoadError(t), serving' = serving,
           pc[t] \notin {"idle", "down"}
    PROVE  Order' /\ Locking'
  BY ReplyControl DEF LoadError

\* getOrCreateClient returns with the mutex free.
LEMMA WithClientControl ==
    ASSUME Control, NEW t \in Procs, WithClient(t), serving' = serving,
           pc[t] \in {"client", "create"}
    PROVE  Order' /\ Locking'
  <1>1. CASE op[t] = "delete" /\ Key(t) = ""
    BY <1>1, ReplyControl DEF WithClient
  <1>2. CASE ~(op[t] = "delete" /\ Key(t) = "")
    <2>1. /\ pc' = [pc EXCEPT ![t] = IF op[t] = "status" THEN "stats" ELSE "lock"] /\ op' = op
          /\ writer' = (IF writer = t THEN NoProc ELSE writer) /\ readers' = readers \ {t}
          /\ pc \in [Procs -> Labels] /\ readers \subseteq Procs /\ Main \in Procs
          /\ op[t] \in Mutators \cup {"start", "status"}
      BY <1>2 DEF Control, TypeInv, CallTypes, WithClient, Goto, Unlock, Procs, Order
    <2>2. Order'
      BY <2>1 DEF Control, Order, Exclusive, Written
    <2>3. Locking'
      BY <2>1 DEF Control, Locking, HoldsLock, Exclusive, Written
    <2> QED
      BY <2>2, <2>3
  <1> QED
    BY <1>1, <1>2

\* A label without obligations, or a new call.
LEMMA EnterControl ==
    ASSUME Control, NEW t \in Procs, NEW o, NEW a, NEW label \in {"client", "rlock"},
           Enter(t, o, a, label), pc[t] \in {"idle", "down"},
           label = "client" => o \in Mutators \cup {"start", "status"},
           label = "rlock" => o \in Readers,
           t = Main \/ (serving /\ serving' = serving)
    PROVE  Order' /\ Locking'
  <1>1. /\ pc' = [pc EXCEPT ![t] = label] /\ op' = [op EXCEPT ![t] = o]
        /\ writer' = writer /\ readers' = readers
        /\ pc \in [Procs -> Labels] /\ readers \subseteq Procs /\ Main \in Procs
        /\ op \in [Procs -> Mutators \cup Readers \cup {"", "status", "start"}]
    BY DEF Control, TypeInv, CallTypes, Enter, Goto, lockVars, Procs
  <1>2. Order'
    BY <1>1 DEF Control, Order, Exclusive, Written
  <1>3. Locking'
    BY <1>1 DEF Control, Locking, HoldsLock, Exclusive, Written
  <1> QED
    BY <1>2, <1>3

\* Entering a call, taking the mutex and checking the client.
LEMMA CallStepControl ==
    ASSUME Control, NEW t \in Procs, Call(t) \/ Lock(t) \/ RLock(t) \/ CheckClient(t)
    PROVE  Order' /\ Locking'
  <1>0. /\ pc \in [Procs -> Labels] /\ readers \subseteq Procs /\ Main \in Procs
        /\ op \in [Procs -> Mutators \cup Readers \cup {"", "status", "start"}]
        /\ NoProc \notin Procs
    BY ProcAssumption DEF Control, TypeInv, CallTypes, Procs
  <1>1. CASE \E o \in Ops : Accepting(t, o) /\ Refuse(t)
    BY <1>1 DEF Accepting, Refuse, Control, Order, Locking, HoldsLock, lockVars
  <1>2. ASSUME NEW o \in Mutators \cup {"status"}, NEW a, Accepting(t, o),
               Enter(t, o, a, "client")
        PROVE  Order' /\ Locking'
    BY <1>2, EnterControl DEF Accepting
  <1>3. ASSUME NEW o \in Readers, NEW a, Accepting(t, o), Enter(t, o, a, "rlock")
        PROVE  Order' /\ Locking'
    BY <1>3, EnterControl DEF Accepting
  <1>4. CASE CreateConfiguration(t) \/ UpdateConfiguration(t)
    <2>1. PICK o \in {"create", "update"} : Submit(t, o)
      BY <1>4 DEF CreateConfiguration, UpdateConfiguration
    <2>2. o \in Ops /\ Accepting(t, o) /\ o \in Mutators
      BY <2>1 DEF Submit, Accepting, Mutators
    <2>3. \/ Refuse(t)
          \/ \E r \in ConfigRequests : Enter(t, o, r, "client")
      BY <2>1 DEF Submit
    <2> QED
      BY <1>1, <1>2, <2>2, <2>3
  <1>5. CASE DeleteConfiguration(t)
    BY <1>2, <1>5 DEF DeleteConfiguration, Mutators
  <1>6. CASE GetConfiguration(t)
    <2>1. "get" \in Ops /\ Accepting(t, "get") /\ "get" \in Readers
      BY <1>6 DEF GetConfiguration, Accepting, Readers
    <2>2. \/ Refuse(t)
          \/ \E n \in RawNames : Enter(t, "get", NameOnly(n), "rlock")
      BY <1>6 DEF GetConfiguration
    <2> QED
      BY <1>1, <1>3, <2>1, <2>2
  <1>7. CASE ListConfigurations(t)
    BY <1>3, <1>7 DEF ListConfigurations, Readers
  <1>8. CASE GetStatus(t)
    BY <1>2, <1>8 DEF GetStatus
  <1>9. CASE Lock(t)
    <2>0. /\ pc[t] \in {"lock", "slow", "stop"}
          /\ pc' = [pc EXCEPT ![t] = Blocking[pc[t]]]
          /\ Blocking["lock"] = "load" /\ Blocking["slow"] = "create"
          /\ Blocking["stop"] = "stopping"
      BY <1>9 DEF Lock, LockWhen, Goto, Blocking
    <2>1. /\ writer = NoProc /\ writer' = t /\ readers' = readers /\ op' = op
          /\ pc' = [pc EXCEPT ![t] = pc'[t]] /\ serving' = serving
          /\ \/ pc[t] = "lock" /\ pc'[t] = "load"
             \/ pc[t] = "slow" /\ pc'[t] = "create"
             \/ pc[t] = "stop" /\ pc'[t] = "stopping"
      BY <1>0, <1>9, <2>0 DEF Lock, LockWhen
    <2>2. Order'
      BY <1>0, <2>1 DEF Control, Order, Exclusive, Written
    <2>3. Locking'
      BY <1>0, <2>1 DEF Control, Locking, HoldsLock, Exclusive, Written
    <2> QED
      BY <2>2, <2>3
  <1>10. CASE RLock(t)
    <2>1. /\ writer = NoProc /\ writer' = writer /\ readers' = readers \cup {t} /\ op' = op
          /\ pc' = [pc EXCEPT ![t] = "load"] /\ pc[t] = "rlock" /\ serving' = serving
      BY <1>10 DEF RLock, RLockWhen, Goto
    <2>2. Order'
      BY <1>0, <2>1 DEF Control, Order, Exclusive, Written
    <2>3. Locking'
      BY <1>0, <2>1 DEF Control, Order, Locking, HoldsLock, Exclusive, Written
    <2> QED
      BY <2>2, <2>3
  <1>11. CASE CheckClient(t)
    <2>1. CASE client
      BY <1>11, <2>1, WithClientControl DEF CheckClient
    <2>2. CASE ~client
      <3>1. /\ pc' = [pc EXCEPT ![t] = "slow"] /\ pc[t] = "client" /\ op' = op
            /\ writer' = writer /\ readers' = readers /\ serving' = serving
        BY <1>11, <2>2 DEF CheckClient, Goto, lockVars
      <3>2. Order'
        BY <1>0, <3>1 DEF Control, Order, Exclusive, Written
      <3>3. Locking'
        BY <1>0, <3>1 DEF Control, Locking, HoldsLock, Exclusive, Written
      <3> QED
        BY <3>2, <3>3
    <2> QED
      BY <2>1, <2>2
  <1> QED
    BY <1>4, <1>5, <1>6, <1>7, <1>8, <1>9, <1>10, <1>11 DEF Call

\* The steps of a call up to the list it persists.
LEMMA LoadStepControl ==
    ASSUME Control, NEW t \in Procs,
           \/ CreateClient(t) \/ CreateClientFails(t) \/ GetStats(t)
           \/ LoadStore(t) \/ LoadStoreFails(t) \/ LoadFile(t) \/ LoadFileFails(t)
           \/ Seed(t) \/ SeedFails(t)
    PROVE  Order' /\ Locking'
  <1>1. CASE CreateClient(t)
    BY <1>1, WithClientControl DEF CreateClient
  <1>2. CASE CreateClientFails(t) \/ GetStats(t)
    BY <1>2, ReplyControl DEF CreateClientFails, GetStats
  <1>3. CASE LoadStore(t)
    <2>1. pc[t] = "load" /\ HoldsLock(t) /\ serving' = serving
      BY <1>3 DEF LoadStore, LoadList
    <2>2. CASE store # {}
      BY <1>3, <2>1, <2>2, DecideControl DEF LoadStore, LoadList
    <2>3. CASE op[t] = "start" /\ Reply(t, "OK", {})
      BY <2>1, <2>3, ReplyControl
    <2>4. CASE op[t] # "start" /\ Continue(t, "loadFile", {})
      <3>1. Fits(t, "loadFile")
        BY <2>1, <2>4 DEF Fits, Control, Order, Exclusive, Written
      <3> QED
        BY <2>1, <2>4, <3>1, ContinueControl
    <2> QED
      BY <1>3, <2>2, <2>3, <2>4 DEF LoadStore, LoadList
  <1>4. CASE LoadStoreFails(t) \/ LoadFileFails(t) \/ SeedFails(t)
    BY <1>4, LoadErrorControl DEF LoadStoreFails, LoadFileFails, SeedFails
  <1>5. CASE LoadFile(t)
    <2>1. pc[t] = "loadFile" /\ HoldsLock(t) /\ serving' = serving
             /\ op[t] \in Mutators \cup Readers
      BY <1>5 DEF LoadFile, Control, Locking, Order
    <2>2. CASE Decide(t, {})
      BY <2>1, <2>2, DecideControl
    <2>3. CASE Continue(t, "seed", FileList)
      <3>1. Fits(t, "seed")
        BY <2>1 DEF Fits, Exclusive, Written
      <3> QED
        BY <2>1, <2>3, <3>1, ContinueControl
    <2> QED
      BY <1>5, <2>2, <2>3 DEF LoadFile
  <1>6. CASE Seed(t)
    BY <1>6, DecideControl DEF Seed, Control, Locking
  <1> QED
    BY <1>1, <1>2, <1>3, <1>4, <1>5, <1>6

\* The steps of persistAndReload, all under the write lock.
LEMMA PersistStepControl ==
    ASSUME Control, NEW t \in Procs,
           \/ EnsureCertificate(t) \/ EnsureCertificateFails(t) \/ ReadBefore(t)
           \/ WriteFile(t) \/ WriteFileFails(t)
           \/ SaveStore(t) \/ SaveStoreFails(t) \/ UndoWrite(t)
           \/ Reload(t) \/ ReloadRefused(t) \/ RestoreFile(t) \/ ReloadRestored(t)
    PROVE  Order' /\ Locking'
  <1>1. pc[t] \in Exclusive /\ serving' = serving
    BY DEF EnsureCertificate, MoveCertificate, EnsureCertificateFails, WritesCertificate,
       ReadBefore, KeepFile, WriteFile, WriteBehind, WriteFileFails, SaveStore,
       SaveStoreFails, UndoWrite, UndoTo, Reload, Acknowledge, ReloadRefused, RestoreFile,
       ReloadRestored, Exclusive, Written
  <1>2. /\ op[t] \in Mutators \cup {"start"} /\ writer = t /\ readers = {}
        /\ pc[t] \notin {"idle", "down"}
        /\ pc[t] \in {"save", "undo"} => op[t] \in Mutators
    BY <1>1 DEF Control, Order, Locking, Exclusive, Written
  <1>3. ASSUME NEW label \in Exclusive, label \in {"save", "undo"} => op[t] \in Mutators
        PROVE  Fits(t, label)
    BY <1>2, <1>3 DEF Fits, Exclusive, Written
  <1>4. \/ \E code, list : Reply(t, code, list)
        \/ \E label \in Exclusive : \E l :
              /\ Continue(t, label, l)
              /\ label \in {"save", "undo"} => op[t] \in Mutators
    <2>1. CASE EnsureCertificate(t)
      BY <2>1 DEF EnsureCertificate, MoveCertificate, Exclusive
    <2>2. CASE ReadBefore(t)
      BY <2>2 DEF ReadBefore, KeepFile, Exclusive
    <2>3. CASE WriteFile(t)
      BY <1>2, <2>3 DEF WriteFile, WriteBehind, Exclusive, Written
    <2>4. CASE SaveStore(t) \/ SaveStoreFails(t)
      BY <1>2, <2>4 DEF SaveStore, SaveStoreFails, Exclusive, Written
    <2>5. CASE ReloadRefused(t) \/ RestoreFile(t)
      BY <2>5 DEF ReloadRefused, RestoreFile, Exclusive, Written
    <2>6. CASE \/ EnsureCertificateFails(t) \/ WriteFileFails(t) \/ UndoWrite(t) \/ Reload(t)
               \/ ReloadRestored(t)
      BY <2>6 DEF EnsureCertificateFails, WriteFileFails, UndoWrite, UndoTo, Reload,
         Acknowledge, ReloadRestored
    <2> QED
      BY <2>1, <2>2, <2>3, <2>4, <2>5, <2>6
  <1> QED
    BY <1>1, <1>2, <1>3, <1>4, ReplyControl, ContinueControl

\* Start, stop, crash and reset of the process.
LEMMA LifecycleControl ==
    ASSUME Control,
           \/ Boot \/ Shutdown \/ Stop \/ Crash \/ ContainerReset
           \/ \E t \in Procs : ReloadPanics(t)
    PROVE  Order' /\ Locking'
  <1>0. /\ pc \in [Procs -> Labels] /\ readers \subseteq Procs /\ Main \in Procs
        /\ op \in [Procs -> Mutators \cup Readers \cup {"", "status", "start"}]
        /\ NoProc \notin Procs
    BY ProcAssumption DEF Control, TypeInv, CallTypes, Procs
  <1>1. ASSUME ProcessEnds PROVE Order' /\ Locking'
    BY <1>0, <1>1 DEF ProcessEnds, Order, Locking, Exclusive, Written
  <1>2. CASE Exit \/ Crash \/ \E t \in Procs : ReloadPanics(t)
    BY <1>1, <1>2 DEF Exit, Crash, ReloadPanics
  <1>3. CASE Boot
    BY <1>0, <1>3, EnterControl DEF Boot
  <1>4. CASE Shutdown \/ GracefulStop
    <2>1. /\ pc' = [pc EXCEPT ![Main] = pc'[Main]] /\ pc'[Main] \in {"stop", "exit"}
          /\ pc[Main] \in {"run", "drain"}
          /\ op' = op /\ writer' = writer /\ readers' = readers
      BY <1>0, <1>4 DEF Shutdown, GracefulStop, Drain, Goto, lockVars
    <2>2. Order'
      BY <1>0, <2>1 DEF Control, Order, Exclusive, Written
    <2>3. Locking'
      BY <1>0, <2>1 DEF Control, Locking, HoldsLock, Exclusive, Written
    <2> QED
      BY <2>2, <2>3
  <1>5. CASE OnStop
    <2>1. /\ pc' = [pc EXCEPT ![Main] = "drain"] /\ op' = op /\ pc[Main] = "stopping"
          /\ writer' = (IF writer = Main THEN NoProc ELSE writer) /\ readers' = readers \ {Main}
      BY <1>5 DEF OnStop, Unlock, Goto
    <2>2. Order'
      BY <1>0, <2>1 DEF Control, Order, Exclusive, Written
    <2>3. Locking'
      BY <1>0, <2>1 DEF Control, Locking, HoldsLock, Exclusive, Written
    <2> QED
      BY <2>2, <2>3
  <1>6. CASE ContainerReset
    BY <1>6 DEF ContainerReset, lockVars, Control, Order, Locking, HoldsLock
  <1> QED
    BY <1>2, <1>3, <1>4, <1>5, <1>6 DEF Stop

\* Nobody is anywhere, and nobody holds the mutex, at first.
LEMMA ControlInit == Init => Control
  <1>1. ASSUME Init PROVE Order /\ Locking
    BY <1>1 DEF Init, Order, Locking, Exclusive, Written
  <1> QED
    BY <1>1, TypeInit DEF Control

\* And every step of the system keeps order.
LEMMA ControlNext == Control /\ [Next]_vars => Control'
  <1> SUFFICES ASSUME Control, [Next]_vars PROVE Order' /\ Locking'
    BY TypeNext DEF Control
  <1>1. CASE UNCHANGED vars
    BY <1>1 DEF vars, callVars, lockVars, Control, Order, Locking, HoldsLock
  <1>2. ASSUME NEW t \in Procs, Call(t) \/ Acquire(t) \/ Step(t) PROVE Order' /\ Locking'
    BY <1>2, CallStepControl, LoadStepControl, PersistStepControl, LifecycleControl
       DEF Acquire, Step
  <1>3. CASE Boot \/ Shutdown \/ Stop \/ Crash \/ ContainerReset
    BY <1>3, LifecycleControl
  <1> QED
    BY <1>1, <1>2, <1>3 DEF Next

-----------------------------------------------------------------------------
(* The stop hook and the calls under way, with the Redis store *)

\* A call that may reach the reload has a client, or will find the store
\* closed when it loads the list.
Clients ==
    Backend = "redis" =>
       /\ ~panicked
       /\ \A t \in Procs : op[t] \in Mutators \cup {"start"} =>
             /\ pc[t] \in {"lock", "load"} => client \/ storeClosed
             /\ pc[t] \in {"loadFile", "seed"} \cup Exclusive => client

\* t moves on while the store stays open or closed and no client goes away.
LEMMA MoveClients ==
    ASSUME Control, Clients, NEW t \in Procs, pc' = [pc EXCEPT ![t] = pc'[t]],
           op' = [op EXCEPT ![t] = op'[t]],
           client => client', storeClosed' = storeClosed, panicked' = panicked,
           Backend = "redis" /\ op'[t] \in Mutators \cup {"start"} =>
              /\ pc'[t] \in {"lock", "load"} => client' \/ storeClosed
              /\ pc'[t] \in {"loadFile", "seed"} \cup Exclusive => client'
    PROVE  Clients'
  BY DEF Clients, Control, TypeInv, CallTypes

\* An answered call needs no client.
LEMMA ReplyClients ==
    ASSUME Control, Clients, NEW t \in Procs, NEW code, NEW list, Reply(t, code, list),
           client' = client, storeClosed' = storeClosed, panicked' = panicked
    PROVE  Clients'
  <1>1. /\ pc' = [pc EXCEPT ![t] = pc'[t]] /\ op' = [op EXCEPT ![t] = op'[t]]
        /\ op'[t] \notin Mutators \cup {"start"}
    BY DEF Control, TypeInv, CallTypes, Reply, Goto, Mutators
  <1> QED
    BY <1>1, MoveClients

\* A call returns from getOrCreateClient with a client in place.
LEMMA WithClientClients ==
    ASSUME Control, Clients, NEW t \in Procs, WithClient(t), client', client => client',
           storeClosed' = storeClosed, panicked' = panicked
    PROVE  Clients'
  <1>1. /\ pc' = [pc EXCEPT ![t] = pc'[t]] /\ op' = [op EXCEPT ![t] = op'[t]]
    BY DEF Control, TypeInv, CallTypes, WithClient, Reply, Goto
  <1> QED
    BY <1>1, MoveClients

\* A call takes the mutex with the client it was given, or none is left.
LEMMA CallStepClients ==
    ASSUME Control, Clients, NEW t \in Procs, Call(t) \/ Acquire(t)
    PROVE  Clients'
  <1>0. UNCHANGED <<client, storeClosed, panicked>>
    BY DEF Call, CreateConfiguration, UpdateConfiguration, DeleteConfiguration,
       GetConfiguration, ListConfigurations, GetStatus, Submit, Accepting, Acquire, Lock,
       LockWhen, RLock, RLockWhen, CheckClient, clientVars, storeVars, ghostVars
  <1>1. CASE Call(t)
    <2>1. \/ Refuse(t)
          \/ \E o, a : Enter(t, o, a, "client") \/ Enter(t, o, a, "rlock")
      BY <1>1 DEF Call, CreateConfiguration, UpdateConfiguration, DeleteConfiguration,
         GetConfiguration, ListConfigurations, GetStatus, Submit
    <2>2. CASE Refuse(t)
      BY <1>0, <2>2 DEF Refuse, Clients
    <2>3. ASSUME NEW o, NEW a, NEW label \in {"client", "rlock"}, Enter(t, o, a, label)
          PROVE  Clients'
      <3>1. /\ pc' = [pc EXCEPT ![t] = pc'[t]] /\ op' = [op EXCEPT ![t] = op'[t]]
            /\ pc'[t] \notin {"lock", "load"} \cup {"loadFile", "seed"} \cup Exclusive
        BY <2>3 DEF Enter, Goto, Control, TypeInv, CallTypes, Exclusive, Written
      <3> QED
        BY <1>0, <3>1, MoveClients
    <2> QED
      BY <2>1, <2>2, <2>3
  <1>2. CASE Lock(t)
    <2>1. /\ pc[t] \in {"lock", "slow", "stop"} /\ Goto(t, Blocking[pc[t]]) /\ op' = op
          /\ Blocking["lock"] = "load" /\ Blocking["slow"] = "create"
          /\ Blocking["stop"] = "stopping"
      BY <1>2 DEF Lock, LockWhen, Blocking
    <2>2. /\ pc' = [pc EXCEPT ![t] = pc'[t]] /\ op' = [op EXCEPT ![t] = op'[t]]
          /\ pc'[t] \notin {"lock", "loadFile", "seed"} \cup Exclusive
          /\ pc'[t] = "load" => pc[t] = "lock"
      BY <2>1 DEF Goto, Control, TypeInv, CallTypes, Exclusive, Written
    <2> QED
      BY <1>0, <2>1, <2>2, MoveClients DEF Clients
  <1>3. CASE RLock(t)
    <2>1. /\ pc' = [pc EXCEPT ![t] = pc'[t]] /\ op' = [op EXCEPT ![t] = op'[t]]
          /\ op'[t] \notin Mutators \cup {"start"}
      BY <1>3 DEF RLock, RLockWhen, Goto, Control, TypeInv, CallTypes, Order, Mutators, Readers
    <2> QED
      BY <1>0, <2>1, MoveClients
  <1>4. CASE CheckClient(t)
    <2>1. CASE client
      BY <1>0, <1>4, <2>1, WithClientClients DEF CheckClient
    <2>2. CASE ~client
      <3>1. /\ pc' = [pc EXCEPT ![t] = pc'[t]] /\ op' = [op EXCEPT ![t] = op'[t]]
            /\ pc'[t] \notin {"lock", "load"} \cup {"loadFile", "seed"} \cup Exclusive
        BY <1>4, <2>2 DEF CheckClient, Goto, Control, TypeInv, CallTypes, Exclusive, Written
      <3> QED
        BY <1>0, <3>1, MoveClients
    <2> QED
      BY <2>1, <2>2
  <1> QED
    BY <1>1, <1>2, <1>3, <1>4 DEF Acquire

\* From the load on, a step continues a call that has its client.
LEMMA StepClients ==
    ASSUME Control, Clients, NEW t \in Procs, Step(t), ~ReloadPanics(t)
    PROVE  Clients'
  <1>0. CASE CreateClient(t)
    BY <1>0, WithClientClients DEF CreateClient, storeVars, ghostVars
  <1>1. ASSUME ~CreateClient(t)
        PROVE  UNCHANGED <<client, storeClosed, panicked>>
    BY <1>1 DEF Step, CreateClientFails, GetStats, LoadStore, LoadList, LoadStoreFails,
       LoadFile, LoadFileFails, Seed, SeedFails, SaveSucceeds, SaveFails, EnsureCertificate,
       MoveCertificate, EnsureCertificateFails, ReadBefore, KeepFile, WriteFile,
       WriteBehind, WriteFileFails, SaveStore, SaveStoreFails, UndoWrite, UndoTo, Reload,
       Acknowledge, ReloadRefused, RestoreFile, ReloadRestored, clientVars, storeVars, ghostVars
  <1>2. ASSUME UNCHANGED <<client, storeClosed, panicked>>,
               NEW label, NEW l, Continue(t, label, l),
               Backend = "redis" /\ op[t] \in Mutators \cup {"start"} => client
        PROVE  Clients'
    <2>1. /\ pc' = [pc EXCEPT ![t] = pc'[t]] /\ op' = [op EXCEPT ![t] = op'[t]]
          /\ op'[t] = op[t]
      BY <1>2 DEF Continue, Goto, Control, TypeInv, CallTypes
    <2> QED
      BY <1>2, <2>1, MoveClients
  <1>3. \/ \E code, list : Reply(t, code, list)
        \/ CreateClient(t)
        \/ /\ \E label, l : Continue(t, label, l)
           /\ \/ pc[t] = "load" /\ ~storeClosed
              \/ pc[t] \in {"loadFile", "seed"} \cup Exclusive
    <2>1. CASE LoadStore(t)
      BY <2>1 DEF LoadStore, LoadList, ListSucceeds, Decide
    <2>2. CASE LoadFile(t) \/ Seed(t)
      BY <2>2 DEF LoadFile, Seed, Decide
    <2>3. CASE LoadStoreFails(t) \/ LoadFileFails(t) \/ SeedFails(t)
      BY <2>3 DEF LoadStoreFails, LoadFileFails, SeedFails, LoadError
    <2>4. CASE CreateClientFails(t) \/ GetStats(t) \/ EnsureCertificateFails(t)
                 \/ WriteFileFails(t) \/ UndoWrite(t) \/ Reload(t) \/ ReloadRestored(t)
      BY <2>4 DEF CreateClientFails, GetStats, EnsureCertificateFails, WriteFileFails,
         UndoWrite, UndoTo, Reload, Acknowledge, ReloadRestored
    <2>5. CASE EnsureCertificate(t)
      BY <2>5 DEF EnsureCertificate, MoveCertificate, WritesCertificate, Exclusive
    <2>6. CASE ReadBefore(t) \/ WriteFile(t) \/ SaveStore(t) \/ SaveStoreFails(t)
                 \/ ReloadRefused(t) \/ RestoreFile(t)
      BY <2>6 DEF ReadBefore, KeepFile, WriteFile, WriteBehind, SaveStore, SaveStoreFails,
         ReloadRefused, RestoreFile, Exclusive, Written
    <2> QED
      BY <2>1, <2>2, <2>3, <2>4, <2>5, <2>6 DEF Step
  <1>4. ASSUME \/ pc[t] = "load" /\ ~storeClosed
               \/ pc[t] \in {"loadFile", "seed"} \cup Exclusive
        PROVE  Backend = "redis" /\ op[t] \in Mutators \cup {"start"} => client
    BY <1>4 DEF Clients
  <1> QED
    BY <1>0, <1>1, <1>2, <1>3, <1>4, ReplyClients

\* The stop hook clears the client and closes the store in one step.
LEMMA LifecycleClients ==
    ASSUME Control, Clients,
           \/ Boot \/ Shutdown \/ Stop \/ Crash \/ ContainerReset
           \/ \E t \in Procs : ReloadPanics(t)
    PROVE  Clients'
  <1>0. Main \in Procs
    BY DEF Procs
  <1>1. ASSUME ProcessEnds, UNCHANGED panicked PROVE Clients'
    BY <1>1 DEF ProcessEnds, Clients, Mutators
  <1>2. CASE Exit \/ Crash
    BY <1>1, <1>2 DEF Exit, Crash, ghostVars
  <1>3. CASE \E t \in Procs : ReloadPanics(t)
    <2>1. PICK t \in Procs : ReloadPanics(t)
      BY <1>3
    <2>2. pc[t] \in Exclusive /\ ~client
      BY <2>1 DEF ReloadPanics, Exclusive, Written
    <2>3. op[t] \in Mutators \cup {"start"}
      BY <2>2 DEF Control, Order
    <2> QED
      BY <2>2, <2>3 DEF Clients
  <1>4. CASE Boot \/ Shutdown \/ GracefulStop
    <2>1. /\ pc' = [pc EXCEPT ![Main] = pc'[Main]] /\ op' = [op EXCEPT ![Main] = op'[Main]]
          /\ pc'[Main] \notin {"lock", "load"} \cup {"loadFile", "seed"} \cup Exclusive
          /\ UNCHANGED <<client, storeClosed>>
          /\ panicked' = FALSE \/ panicked' = panicked
      BY <1>0, <1>4 DEF Boot, Enter, Shutdown, GracefulStop, Drain, Goto, Control, TypeInv,
         CallTypes, clientVars, storeVars, ghostVars, Exclusive, Written
    <2> QED
      BY <1>0, <2>1 DEF Clients, Control, TypeInv, CallTypes
  <1>5. CASE OnStop
    <2>1. /\ pc[Main] = "stopping" /\ HoldsLock(Main) /\ op' = op
          /\ pc' = [pc EXCEPT ![Main] = "drain"] /\ UNCHANGED panicked
          /\ storeClosed' = (Backend = "redis")
      BY <1>5 DEF OnStop, CloseStore, Goto, ghostVars
    <2>2. writer = Main /\ readers = {}
      BY <2>1 DEF HoldsLock, Control, Locking
    <2>3. ASSUME NEW t \in Procs, t # Main
          PROVE  pc[t] \notin {"loadFile", "seed"} \cup Exclusive
      BY <2>2, <2>3 DEF Control, Locking, HoldsLock
    <2>4. "drain" \notin {"lock", "load"} \cup {"loadFile", "seed"} \cup Exclusive
      BY DEF Exclusive, Written
    <2> QED
      BY <1>0, <2>1, <2>3, <2>4 DEF Clients, Control, TypeInv, CallTypes
  <1>6. CASE ContainerReset
    BY <1>6 DEF ContainerReset, Clients, clientVars, storeVars
  <1> QED
    BY <1>2, <1>3, <1>4, <1>5, <1>6 DEF Stop

\* Every step of the system keeps Clients.
LEMMA ClientsNext == Control /\ Clients /\ [Next]_vars => Clients'
  <1> SUFFICES ASSUME Control, Clients, [Next]_vars PROVE Clients'
    OBVIOUS
  <1>1. CASE UNCHANGED vars
    BY <1>1 DEF vars, callVars, clientVars, storeVars, ghostVars, Clients
  <1>2. ASSUME NEW t \in Procs, Call(t) \/ Acquire(t) \/ Step(t) PROVE Clients'
    BY <1>2, CallStepClients, StepClients, LifecycleClients
  <1>3. CASE Boot \/ Shutdown \/ Stop \/ Crash \/ ContainerReset
    BY <1>3, LifecycleClients
  <1> QED
    BY <1>1, <1>2, <1>3 DEF Next

\* With the Redis store the stop hook, which clears the client while calls are
\* between their client check and their lock, never makes a reload dereference
\* a nil client: the store it closes in the same step stops them first.
THEOREM RedisNeverPanics == Spec => [](Backend = "redis" => NoPanic)
  <1>1. Init => Clients
    BY DEF Init, Clients, Mutators
  <1>2. Clients => (Backend = "redis" => NoPanic)
    BY DEF Clients, NoPanic
  <1> QED
    BY <1>1, <1>2, ControlInit, ControlNext, ClientsNext, PTL DEF Spec
=============================================================================
