# Verification of go-loadbalancer-manager

TLA+ specifications of the HAProxy manager in this repository, the TLC
configurations that check them on small instances, and TLAPS proofs of the
results that matter most. `PROJECT.json` links every definition to the lines it
models and lists the runs, mutants, findings, hazards and theorems.

## The system

A gRPC server lets clients create, read, update, delete and list HAProxy
configurations. The service keeps each list in three places: a *store* (process
memory or one Redis key), a *managed block* in the HAProxy configuration file,
and the *running* HAProxy, which it reloads through the runtime socket.

| Part | State | Operations | Modelled in |
|---|---|---|---|
| HAProxy service, `internal/services/haproxy.go` | runtime client, file and certificate paths, one `sync.RWMutex` | five configuration calls, `GetStatus`, start and stop hooks | `HaproxyService` |
| Configuration types and certificates, `haproxycfg/types.go`, `certificate.go` | certificate files | normalise, validate, edit a list, move PEM data to a file | `HaproxyCfg` (lists), `ConfigurationApi` (fields) |
| Managed block, `haproxycfg/global.go`, `frontend.go`, `backend.go` | lines of the file | find, render, merge, read back | `ManagedBlock` |
| Stores, `configstore/*.go` | the list | choose a backend and namespace; `List`, `Save`, `Close` | `ConfigStore` (outcomes of one store), `Fleet` (choice, namespace, several instances) |
| gRPC server, Fx lifecycle, `grpc.go`, `module.go`, `cmd/main.go` | serving or not | start, `GracefulStop`, exit | actions of `HaproxyService` |
| gRPC controller, `controllers/haproxy_status.go` | none | convert messages, map calls and errors | entry actions and reply codes of `HaproxyService`; conversions in `ConfigurationApi` |
| Network sockets, `network_sockets.go` | none (reads `/proc`) | collect, filter, group and count connections | `NetworkSockets` |
| Application configuration, `repositories/*.go` | one copy of the merged settings for each user | load and merge defaults, environment layer, file, variables | `AppConfiguration`, `Fleet` |
| Health, metrics, logging, keepalive | none that an operation reads | | not modelled |
| Generated protocol code | | | not modelled |

How the parts interact: Fx starts the gRPC server first, so calls can arrive
before the HAProxy service has synchronised its file, and stops it last, so
calls can arrive after the client and the store are gone. A mutating call checks
the client, takes the mutex, loads the list (store, or else the block, which then
seeds the store), edits it, writes certificates, keeps the old file, writes the
file, saves the store, reloads HAProxy, and on failure puts the file back.
Readers do the load under the read lock and seed the store there too.
`AppConfigurationService` is passed by value, so its cache is not shared: store,
gRPC server and HAProxy service each load the configuration for themselves, at
different moments of a start. Instances that are given one Redis server share it,
kept apart by a namespace made from their names. `GetNetworkSockets` only reads
`/proc`, one file after the other, while the kernel changes it.

What is hard: the list has three copies and no transaction; every one of those
steps can fail or be the last one of the process; the client is checked in one
critical section and used in another; an empty store means both "nothing
configured" and "never filled"; a write to a file can stop in the middle; an
instance may start on another store or file than it had; what a call reads of
`/proc` was never all true at one moment.

What makes each part correct:

* service: no update is lost, answers agree with what is held, failures leave at
  most their own edit in doubt, every call returns, shutdown ends, no panic;
* configurations: names stay unique, key material stays in certificate files,
  every certificate that is named exists;
* managed block: what is written is read back, writing is stable, the
  operator's lines survive, a file that was cut short heals;
* stores: a save is all or nothing, even if its answer is lost; names that differ
  keep their lists apart;
* application configuration: each setting comes from the source that ranks highest;
* controller: what a client is shown is what was sent, and can be sent back;
* sockets: what HAProxy held throughout is reported, once and decoded, and nothing
  of others.

## Modules

* `HaproxyCfg` - configurations as records `name, body, path, pem`; normalisation,
  validation, search and edit of a list, `EnsureCertificatePath`. A list is a set:
  the code sorts wherever order could show, and unique names are proved.
* `ConfigStore` extends it with `store`, `storeClosed` and the ways `List`, `Save`
  and `Close` end, chosen by `Faults`.
* `HaproxyService` extends that with the processes. `Callers` are call handlers,
  `Main` runs the Fx lifecycle; `pc[t]` is the next step of `t`. One action is one
  access to shared state: taking the mutex, one store call, one file operation,
  one reload. The file is `block`, the list between the markers of the last whole
  write, and `rest`, what a write cut inside a block left before it. The ghosts
  `possible`, `lost` and `panicked` record what answers allow, that file content was
  lost, and a nil dereference.
* `ConfigurationCatalogue` - what clients rely on: a set of candidate lists, which
  a success replaces by one edit of a candidate and a failure extends by one.
* `ManagedBlock` - the file line by line: markers in any order, lines of the
  operator, cuts at every line. `HaproxyService` keeps of this what the calls can tell
  apart: whether a start marker is open, which entries stand behind it, and whether
  one of them is cut in half.
* `NetworkSockets` - one `GetNetworkSockets` call and the kernel around it. The call
  goes `idle`, `pids` (`findAllProcessPIDs`), `fds` (`getProcessInodes`, directory by
  directory and link by link), `IPv4`, `IPv6` (`readSockets`, row by row); between any
  two of its steps the actions under `Kernel` open, close, inherit and abandon
  sockets. The ghosts `steady`, `owned` and `missed` record what HAProxy held since
  the call began, ever held during it, and which tables failed.
* `AppConfiguration` - `GetConfiguration` as an operator on the sources, and
  `Setting`, the independent statement of what a setting is meant to be.
* `Fleet` extends it with instances that start (`Construct`, `Listen`, `Connect`,
  `Sync`: the moments at which a start loads the configuration or touches a list),
  serve calls (`Load`, `Seed`, `Save` or `Answer`) and stop, over lists kept at
  *places*: the memory of a process, a key of a Redis server, a file of a host.
* `ConfigurationApi` - the messages, conversions, `ValidateConfiguration`, certificate
  step and rendered sections field by field, with one action for each gRPC call.
* `MCHaproxyService`, `MCNetworkSockets`, `MCFleet`, `MCConfigurationApi` - instances
  for TLC.
* `ServiceControlProofs` (types, mutex, client), `ServiceListProofs` (names, keys,
  certificates), `ServiceAnswerProofs` (durability, answers, the catalogue) - the
  proofs about the service, each extending the one before. `ManagedBlockProofs`,
  `FleetProofs`, `ConfigurationApiProofs` and `NetworkSocketsProofs` - one for each of
  the other specifications. `Induction` - least and greatest elements of sets of
  numbers, and induction up to a bound, which the proofs about sequences use.

| `pc` | where the code is |
|---|---|
| `client`, `slow`, `create` | `getOrCreateClient`: read-locked check, waiting for the write lock, second check and creation |
| `stats` | `GetStatus`, no mutex held |
| `lock`, `rlock` | before `s.mu.Lock()`, `s.mu.RLock()` |
| `load`, `loadFile`, `seed` | `loadConfigurationsLocked`: store, file, save to the store |
| `certs`, `write`, `save`, `reload` | `persistAndReloadLockedWithStorePolicy`, in order |
| `undo`; `restore`, `rereload` | its two failure paths |
| `down`, `run`, `stop`, `stopping`, `drain`, `exit` | `Main`: not running, started, stop hook (waiting, inside), `GracefulStop`, waiting for calls |

### Abstractions

* Everything of a configuration but name and certificate is a *body*:
  `InvalidBodies` fail `ValidateConfiguration`, `RejectedBodies` pass it and are
  refused by HAProxy. Bodies arrive normalised: the controller's enums give
  canonical strategies and modes.
* A file write can fail or be the last step of a process in four ways, chosen by
  `Faults`: nothing happened (`disk`); the file is empty, as `os.WriteFile` truncates
  first (`truncated`); any part of the content is there (`torn`, which includes the
  next one); all of it is there and the error comes after (`close`). A certificate cut
  short is like an empty one, since HAProxy can read neither.
* What a `torn` write leaves behind an open start marker (`CutInside`) is any subset of
  the entries, in place of the first ones in order. Entries that are in `rest` and in
  `block` alike are one element of `FileList`; the code reads both, so `UniqueNames`
  is not stated of a file with such remains. HAProxy reads sections and not entries, so
  which remains it loads is chosen at the reload, and it may refuse them. Lines of the
  operator that a cut removes show in `HaproxyService` only as such a refusal;
  `ManagedBlock` has them.
* HAProxy itself is external: it loads a file whose sections it accepts and whose
  certificates exist, and otherwise keeps its old workers. When the socket fails
  (`haproxy`) the reload may or may not have happened.
* A Redis answer can be lost after the `SET` took effect (`late`).
* A container reset leaves no managed block, no certificates and a fresh HAProxy;
  Redis keeps its key.
* Clients do not name files of the service's own certificates directory
  (`UserPaths` and `CertPaths` are disjoint). In `HaproxyService` one instance uses a
  Redis namespace; several are in `Fleet`.
* An Fx stop timeout is covered by `Crash`.
* `Fleet` takes the successful path of a call in the steps that touch a list, one
  call at a time in an instance; failures and interleavings inside an instance are
  in `HaproxyService`. `Construct` stands for the loads of the keepalive options too:
  they come just before that of the store and keep nothing it reads. The client is
  created by the start hook; a call that gets there before it loads the same
  settings at nearly the same moment.
* Texts of `AppConfiguration` and `Fleet` are sequences of symbols (a word or a
  character), so that trimming, case, separators and namespaces are computed and not
  assumed. Settings that no modelled part reads (timeouts, Redis credentials and
  database) are left out.
* In `ConfigurationApi` a pointer is a set of at most one element, and what the code
  asks of a string (its trimmed and lower-case form, the scheme of a URL, the type
  and contents of a PEM block) is a function given as a constant.
* No field of a configuration holds a line break, so a rendered section keeps its
  lines and cannot form a marker (`Section` of `ManagedBlock`).
* A key of a YAML text that no field has is ignored, in a layer and in a variable.
* The Linux kernel is external to `NetworkSockets`: its rows parse, inodes are not
  reused within a call, and a lingering socket has inode 0. A read of a table gives each
  row that stays exactly once (`ReadRow`). Linux fills `/proc/net/tcp` page by page and
  does not promise that when rows come and go between two pages; `Complete`
  holds as far as it does. Ports and `comm`
  matching are in the sets `Conns` and `Haproxy`.

## Runs

| Run | Configuration | Shows |
|---|---|---|
| `memory` | two callers, every call, in-memory store, failing sockets | `UniqueNames`, `Explained`, `ReadersChangeNothing`, `AnswersAreCurrent` |
| `redis` | two callers, two names, lost answers, `truncated` and `close` writes, crashes, resets | `TypeOK`, `Explained`, `NoPanic`, `ImplementsCatalogue`, `StoreEditedOnce` |
| `tls` | inline certificates, two names sharing one certificate file, user paths, failing disk and saves, crashes | `KeysOnlyInFiles`, `CertificatesInPlace`, `SuccessMeansApplied` |
| `cuts` | one caller, two names, Redis, `torn` writes, lost answers, failing reloads, crashes, resets | `SuccessHeals`, `StoreEditedOnce` |
| `liveness` | fair, failing client, store and reload | `FileMatchesHaproxy`, `CallsReturn`, `ShutdownCompletes` |
| `block` | every host file of one to four lines, writes cut at any line up to `MaxCut` | `ReadsBack`, `RewriteIsStable`, `KeepsHostLines`, `SecondWriteHeals` |
| `sockets` | two HAProxy workers and another process, an IPv4 and an IPv6 connection, three inodes, unreadable directories and tables | `Complete`, `OnlyOwn`, `TimeWaitNeedsNoFilter`, `AddressesDecoded` |
| `fleet` | two instances on one Redis server, nine environments (spellings, struct variables, errors), a file that is edited at any moment, one managed name | `OwnListKept`, `Precedence` |
| `api` | about 140 messages that vary every field and all TLS combinations, three names of which two lead to one certificate file | `ShownAsSent`, `SendsBack`, `RendersSoundly`, `CertificatesKeptApart` |
| `refusal`, `stop_race`, `cut_delete` | | the findings below |

Bounds. Two callers and `Main` are enough for every pair of critical sections to
interleave, with a third party stopping the process; the proofs lift the safety
results to any number. One name lets calls collide on it; two names are used
where an edit must leave the other name alone, and where two names share a
certificate file. One caller is enough in `cuts`, where the file is damaged by one call
and met by later ones; `Main` is the second writer, and the restarts and crashes are
all there. Four lines of host file hold a block with lines on either side,
markers in either order and duplicates; `MaxCut` only stops cuts of files that
have grown past the point where new shapes appear. The state space is finite
without any bound on the number of calls. Caller symmetry is used in safety runs
only.

In `sockets` the two workers are what a reload leaves for a while, so that a socket
can pass from one to the other under the reader; three inodes let a connection be
closed and opened again within a call while the other one stays, and the state
numbers have one that the map of the code knows and one that it does not. In
`fleet` two instances are enough for one to overwrite the other; the environments
reach every backend, a name that meets another one in its namespace and one that
does not, and every way for a load to fail; the lists are unbounded in the number of
starts and calls. In `api` one field is varied at a time, except for TLS, where the
rules combine fields; all messages of one name meet each other through updates.

`CertificatesInPlace` is checked without cut writes and resets, which do destroy
certificates, and `FileMatchesHaproxy` without cut writes and socket failures,
after which the code does not know what HAProxy loaded.

`torn` is in `cuts` and `cut_delete` alone, because most promises of the service do
not survive a write that is cut in the middle of a block: the entries it left are read
together with the next list (finding 3). `UniqueNames`, `Explained`,
`AnswersAreCurrent`, `SuccessMeansApplied` and `ImplementsCatalogue` are false then, and
their theorems exclude it. What holds under it is `TypeOK`, `KeysOnlyInFiles`,
`ReadersChangeNothing`, `NoPanic` on Redis, that a store is never overwritten by a list
loaded too early (`StoreEditedOnce`), and that the damage ends with the first success
that starts from a closed block (`SuccessHeals`).

Fairness (`FairSpec`). Weak fairness on the steps of each goroutine and on the
stop hooks: the Go scheduler runs them, and store, file and socket operations end
with a result or an error. Strong fairness on acquiring the mutex: `sync.RWMutex`
lets waiting writers block new readers and wakes waiting readers when a writer
leaves, so nobody starves. Clients, signals, boots and faults owe nothing.

## Proofs

Every invariant and action property that a passing run checks is a theorem for all
values of the constants. The results about the service are for any set of callers,
names, bodies, certificates, requests, faults and either backend. They assume
`NameAssumption`, `BodyAssumption`, `CertAssumption`, `StoreAssumption`,
`ProcAssumption` and `RequestAssumption`; the last says that requests are well formed
and that the block of a new host has unique names and no certificates of the service.
The other assumptions:

* `SocketAssumption`, `AddressAssumption`: rows have one family, and a socket in
  TIME_WAIT has no holder.
* `NamesAssumption`: names are ordered as integers are. Bodies, lines of the host and
  the length of the file are arbitrary.
* `LayerAssumption`, `FleetAssumption`: the values in layers, variables and files are
  texts, lower-casing leaves the blank alone, a blank is no symbol of a namespace, and
  an instance is started with known variables and files.
* `TextAssumption`: trimming twice is trimming once, the empty text is no PEM data, and
  the certificate file of a name is a path that is not blank. `MessageAssumption`:
  messages have the fields and field types of the `.proto` file, with any values.

| Theorem | States |
|---|---|
| `TypeCorrect` | `TypeOK` |
| `RedisNeverPanics` | with Redis, `NoPanic` |
| `NamesStayUnique` | without `torn`, `UniqueNames` |
| `KeysStayInFiles` | `KeysOnlyInFiles` |
| `AlwaysExplained` | without `torn`, `Explained` |
| `ReadsAreInvisible` | `ReadersChangeNothing` |
| `CertificatesStayInPlace` | without cut writes and resets, `CertificatesInPlace` |
| `FileStaysMatched` | with Redis and without failing file writes, socket failures and crashes, `FileMatchesHaproxy` |
| `AnswersStayCurrent` | without `torn`, `AnswersAreCurrent` |
| `SuccessIsApplied` | without `torn`, `SuccessMeansApplied` |
| `CatalogueImplemented` | without `torn`, `ImplementsCatalogue` |
| `StoreMovesByOneEdit` | `StoreEditedOnce` |
| `SuccessMendsFile` | `SuccessHeals` |
| `TwoWritesHeal` | `SecondWriteHeals` |
| `WhatIsWrittenIsRead` | `ReadsBack` |
| `RewritesChangeNothing` | `RewriteIsStable` |
| `HostLinesStay` | `KeepsHostLines` |
| `PlacesAreMeant` | `Precedence` |
| `OwnListStays` | `OwnListKept` |
| `ShownIsSent` | `ShownAsSent` |
| `ShownComesBack` | `SendsBack` |
| `RenderingIsSound` | `RendersSoundly` |
| `CertificatesAreFiled` | `CertificatesKeptApart` |
| `HeldSocketsAreShown` | `Complete` |
| `OthersAreNotShown` | `OnlyOwn` |
| `AddressesAreDecoded` | `AddressesDecoded` |
| `TimeWaitIsHidden` | `TimeWaitNeedsNoFilter` |

The inductive invariant of the service has layers, because none of these is inductive alone:

1. `TypeInv` - the types of all variables.
2. `Control` adds `Order` (which call can be at which label, and that nobody is
   anywhere while the process is down) and `Locking` (what a call at a label
   holds). From it follows that a call inside the persistence is alone.
3. `Clients`, for Redis: a mutator that waits for or has just got the mutex has a
   client or faces a closed store, and one that has loaded its list has a client.
   The stop hook does both under one lock, so a call it overtakes fails to load and
   never reaches the reload. The in-memory store cannot be closed, which is why
   `stop_race` violates the same property there.
4. `Lists`: no list holds PEM data, except one being edited, and that only where no
   path is set yet, so the certificate step clears it. Without `torn` the lists also
   have unique names and `rest` is empty, so that the file is its block.
5. `Whole` adds `Fresh`: what the holder of the mutex has loaded is still the list of
   the store, or of the file while the store is empty; what it has written behind the
   leftovers it kept is still the file, and after the save also the store. It holds
   under every fault and gives `StoreEditedOnce`, `SuccessHeals` and
   `ReadersChangeNothing`.
6. `Durable` adds, without `torn`, `Known` (a loaded list and the kept file content
   are explained) and `Accounted`, which is `Explained` with the block for the file.
7. `Worthy` adds `Prepared`: a list that is being persisted is one edit of a list that
   the answers allow, and does what the call was asked for. `SuccessMeansApplied` and
   the refinement rest on it.

Two more stand beside these layers. `Placed` says of every list in memory what
`CertificatesInPlace` says of the store, the block and the kept content, since it will
be written later. `Matched` says that the content kept for a rollback is what HAProxy
runs, from the moment it is kept, and is in the file again before the second reload.

The invariant of the sockets follows a steady socket through the call: its process
is still to be read, or its link, or its inode is known (`InodeInv`); then its row is
still to be read, or it has an entry, or its table failed (`ReadInv`). `EntryInv` adds
that entries are sound and each connection has one, so that nothing is shown twice
and nothing of others. Neither property is inductive alone, since both speak only of
the moment of the answer.

The managed block. A merge is `Before(lines)`, the block and `After(lines)`
(`MergeIs`), and a block put anywhere leaves a file that has a block, because its end
marker follows whichever start marker is first (`BlockBetween`). When no start marker
is in `Before`, which intact markers give (`NoStartBefore`), the markers of the result
are those of the block, and reading, merging again and what stands outside follow by
cutting the three parts out. `Healing`, the invariant, is then short: the first
successful write leaves a block, hence intact markers, and the second leaves the list.

The fleet. `PlacesAreMeant` needs `Load` of a start to be `Setting` of every leaf: the
folds over layers and variables are followed one element at a time, and the last one
that names a leaf decides. `Shape` says that an instance uses places of its own
loads, which gives two instances with different namespaces different keys
(`NamespaceTells`). `AllKept` strengthens `OwnListKept` to instances that are down and
to the call under way: the key, the file and the list in the call hold what was
acknowledged last.

The messages. `Faithful` says that each configuration is what was kept of an
acceptable message, so that what is shown, sent back or rendered is a question about
one message; `Filed` adds what its certificate file holds.

The standard modules state induction with a predicate as parameter, which no backend
can instantiate; `Induction` states it with sets of numbers (`Counting`) and rests on the
well-foundedness of inclusion on finite sets. What a fold, a recursive function or
`FlattenSeq` computes is proved by showing that its values form a run (`PieceRun`,
`KindRun`, `VariableRun`) and counting along it. For the sorted list of a block it is
enough that ranks are a bijection onto the positions.

Only model-checked: liveness (`CallsReturn`, `ShutdownCompletes`), which is out of the
prover's reach, as ENABLED is, and the three findings.

## Findings

1. `refusal`: a reload that HAProxy refuses restores the file but not the store;
   clients keep seeing the refused list, a retry of the create answers
   `AlreadyExists`, and the next write renders it again.
2. `stop_race`: with the in-memory store, a call between its client check and its
   lock calls `Reload` on the nil client left by the stop hook.
3. `cut_delete`: a delete that was acknowledged can be undone by what a cut write left
   in the file. With Redis holding `a`:
   1. the write of a call stops behind the start marker and the entry of `a`, and the
      call fails; the file now has a start marker without an end;
   2. a client deletes `a`: the merge finds no end and appends an empty block, HAProxy
      finds nothing but comments and accepts it, the store is saved empty, and the
      answer is OK;
   3. the next call finds the store empty, reads from the first start marker to the
      end of the appended block, finds `a` there and seeds the store with it.

### Observations

Behaviours that the models show and that a reader of the code may not expect. The
properties that hold are stated around them.

* A start with an empty store ends its synchronisation at once (`haproxy.go:501`) and
  does not read the managed block; only the first call seeds the store. The
  repository's README, lines 65-66, says that the start does.
* Inline certificates are only in files once stored (`certificate.go:45`). After a
  reset of the container's files Redis still names them, HAProxy refuses the file that
  the start renders, and the start hook fails, where the repository's README, line 69,
  promises a recovery.
* `ListConfigurations` answers an empty list with code OK when the load fails
  (`haproxy.go:176`); `AnswersAreCurrent` excepts the empty list for that reason.
* A start marker whose end was cut off is still taken as the start of the block
  (`global.go:26`), so the next write appends a second block and reading spans both
  (finding 3); a second write repairs the file (`SecondWriteHeals`, `SuccessHeals`).
* If the cut went through an entry, and a success then closed the block, every load
  from the file fails (`haproxy.go:429`). As long as the store holds a list nobody
  notices; once it is empty - after a delete of the last name, or a restart with the
  in-memory store - every call that needs the list fails, a list of configurations is
  empty, and only an edit of the file by hand ends it.
* When no inode of HAProxy is found the filter is off, and the sockets of the whole
  host are reported (`network_sockets.go:257`; the premise of `OnlyOwn`).
* A socket in TIME_WAIT has inode 0, so `time_wait_count` is 0 whenever the filter
  is on (`TimeWaitNeedsNoFilter`).
* A configuration with an inline certificate is shown with a certificate path and
  without a private key path, and validation refuses such a pair: a client cannot
  send back what it was shown (`SendsBack`).
* Names that differ only in case, or in characters that are replaced, share a Redis
  key, and instances with such names overwrite each other's lists (the exception of
  `OwnListKept`). A `-` is kept, so `staging-1` is its own namespace, where the
  repository's README, line 161, shows it as `staging_1`.
* A variable that names a struct blanks the settings it leaves out.
* Keys of type DSA and OPENSSH are accepted by their type but never parse.
* An instance that returns to a Redis key or file it used before finds the older
  list there, and shows it.

## Plan

Done: the service, its store, certificates and managed block; the messages and their
validation; the application configuration with several instances; the network
sockets; proofs of every safety property that a passing run checks. What is left:

1. The safety half of `CallsReturn` and `ShutdownCompletes`: that a call which is not
   idle, and a stopping process, always have a step that no fault can take away.
   Fairness and ENABLED keep the rest with TLC.
2. What the answers promise about certificates under the faults that
   `CertificatesStayInPlace` excludes: after a cut certificate or a reset, the next
   successful call puts its own certificate right again. For the file and HAProxy,
   `SuccessHeals` says so.
3. The leftovers of a cut write in `HaproxyService` as a refinement of the lines of
   `ManagedBlock`; today each is checked against the source on its own.

## Not modelled

* Health, metrics, logging and keepalive options: they have no state that an
  operation reads. A load of the configuration by the keepalive options can fail a
  start, which `Construct` covers.
* The protocol code, which `protoc` generates, and the registration of services and
  reflection.
* The statistics that `GetStatus` passes through from HAProxy, and the inside of
  client-native, go-redis and Fx, which are modelled by how this code uses them.
* That the runtime client keeps the context of the call that created it
  (`haproxy.go:358`): what it does with a cancelled context is inside client-native.
  A reload that fails for any reason is among the faults.
