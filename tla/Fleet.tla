-------------------------------- MODULE Fleet --------------------------------
(***************************************************************************)
(* Instances of the manager that are started, reconfigured and restarted,  *)
(* some on one Redis: internal/services/configstore (NewConfigStore, the   *)
(* namespace, the two backends) with the loads of the configuration that   *)
(* surround it.  What one call does inside an instance is HaproxyService;  *)
(* here a call reads a list, possibly seeds the store, and saves a list.   *)
(*                                                                         *)
(* AppConfigurationService is handed to its users by value, so the store,  *)
(* the gRPC server and the HAProxy service each load the configuration for *)
(* themselves, one after the other.  Of what they load the store keeps its *)
(* namespace and server, the HAProxy service its configuration file.       *)
(***************************************************************************)
EXTENDS AppConfiguration, FiniteSets

CONSTANTS
    Instances,
    Environ,       \* environments and flags of a process, by a label
    Content,       \* contents of an external configuration file, by a label
    Inputs,        \* labels of what each instance may be started with
    Files,         \* labels of what its configuration file may hold
    Items,         \* managed configurations, by name
    Plain          \* symbols of [a-z0-9_-]

ASSUME FleetAssumption ==
    /\ \A i \in Instances :
          /\ Inputs[i] \subseteq DOMAIN Environ
          /\ "missing" \in Files[i] /\ Files[i] \subseteq DOMAIN Content
    /\ \A label \in DOMAIN Environ :
          LET variables == Environ[label].variables
          IN  /\ variables \in Seq(Range(variables))
              /\ \A n \in DOMAIN variables : IsLayer(variables[n].raw)
    /\ \A label \in DOMAIN Content : IsLayer(Content[label])
    /\ " " \notin Plain

-----------------------------------------------------------------------------
(* configstore.NewConfigStore *)

DigitsAreReplaced(name) ==
    LET lower == ToLower(TrimSpace(name))
        clean == [n \in DOMAIN lower |-> IF lower[n] \in Plain \ {"1", "2"} THEN lower[n] ELSE "_"]
        trimmed == Trim(clean, {"_"})
    IN  IF trimmed = <<>> THEN <<"default">> ELSE trimmed
Namespace(name) ==
    LET lower == ToLower(TrimSpace(name))
        clean == [n \in DOMAIN lower |-> IF lower[n] \in Plain THEN lower[n] ELSE "_"]
        trimmed == Trim(clean, {"_"})
    IN  IF trimmed = <<>> THEN <<"default">> ELSE trimmed

BackendOf(values) == ToLower(TrimSpace(values[StoreBackend]))

UseRedis(values) ==
    \/ BackendOf(values) = <<"redis">>
    \/ BackendOf(values) = <<>> /\ TrimSpace(values[RedisAddress]) # <<>>

ValidStore(values) ==
    /\ TrimSpace(values[InstanceName]) # <<>>
    /\ BackendOf(values) \in {<<>>, <<"memory">>, <<"redis">>}
    /\ UseRedis(values) => TrimSpace(values[RedisAddress]) # <<>>

\* Where lists are kept: the memory of a process, a key of a Redis server, or
\* the managed block of a file on a host.
StorePlace(i, values) ==
    IF UseRedis(values)
      THEN [kind |-> "redis", host |-> TrimSpace(values[RedisAddress]),
            key |-> Namespace(values[InstanceName])]
      ELSE [kind |-> "memory", host |-> <<i>>, key |-> Namespace(values[InstanceName])]

FilePlace(i, values) ==
    [kind |-> "file", host |-> <<i>>, key |-> values[ConfigurationFile]]

\* getOrCreateClient compares the network as it is written.
ValidClient(values) ==
    /\ values[SocketNetwork] = <<"unix">>
    /\ TrimSpace(values[SocketAddress]) # <<>>
    /\ TrimSpace(values[InstanceName]) # <<>>
    /\ TrimSpace(values[ConfigurationFile]) # <<>>

\* Names that a reader would call different are to keep their lists apart:
\* the letters and digits of a name, whatever their case, tell it from others.
\* They are the pairs of each letter and its rank among the letters.
Lettered(text) == {n \in DOMAIN text : text[n] \in Plain \ {"_", "-"}}
Letters(text) ==
    {<<Cardinality({m \in Lettered(text) : m <= n}), text[n]>> : n \in Lettered(text)}
Essence(name) ==
    IF Letters(ToLower(name)) = {} THEN {<<1, "default">>} ELSE Letters(ToLower(name))

\* What each instance makes of a load.
Loaded == [i \in Instances |-> [in \in Inputs[i] |-> [content \in Files[i] |->
    LET result == GetConfiguration(Environ[in], Content[content])
        values == result.values
    IN  [ok |-> result.ok,
         validStore |-> result.ok /\ ValidStore(values),
         validClient |-> result.ok /\ ValidClient(values),
         store |-> StorePlace(i, values), file |-> FilePlace(i, values),
         name |-> Essence(values[InstanceName])]]]]

-----------------------------------------------------------------------------
VARIABLES
    file,      \* the external configuration file of each instance
    inputs,    \* the environment and flags of its process
    phase,     \* how far its process has come
    uses,      \* its store, the essence of its name (ghost), its HAProxy file
    lists,     \* the lists at the places that were ever written
    call,      \* the call under way
    acked,     \* ghost: the list of the last change it acknowledged
    home,      \* ghost: the places and the name that list was written under
    settled    \* ghost: nothing but its own acknowledgements is to be seen

vars == <<file, inputs, phase, uses, lists, call, acked, home, settled>>
ghostVars == <<acked, home, settled>>

NoCall == [at |-> "none", list |-> {}]
NoPlace == [kind |-> "none", host |-> <<>>, key |-> <<>>]
Nothing == [store |-> NoPlace, file |-> NoPlace, name |-> {}]
NoInputs == "none"

ListAt(place) == IF place \in DOMAIN lists THEN lists[place] ELSE {}
Put(list, places) ==
    [p \in places \cup DOMAIN lists |-> IF p \in places THEN list ELSE lists[p]]

StoreOf(i) == uses[i].store
FileOf(i) == uses[i].file

\* What a client of a connected instance is shown.
Effective(i) == IF ListAt(StoreOf(i)) # {} THEN ListAt(StoreOf(i)) ELSE ListAt(FileOf(i))

Connected(i) == phase[i] \in {"connected", "up"}

-----------------------------------------------------------------------------
(* The ghosts *)

\* Other instances whose list a write to the Redis key of i may replace.
Disturbed(i) ==
    {j \in Instances \ {i} :
        /\ StoreOf(i).kind = "redis"
        /\ \/ home[j].name = uses[i].name
           \/ phase[j] # "down" /\ uses[j].name = uses[i].name}

\* A started instance finds its list again: in its store, unless that is
\* empty and another file speaks for it, or in its file, if its store is new.
Carried(i, s, f) ==
    \/ s = home[i].store /\ s.kind = "redis" /\ (f = home[i].file \/ f \notin DOMAIN lists)
    \/ f = home[i].file /\ s \notin DOMAIN lists
    \/ acked[i] = {} /\ s \notin DOMAIN lists /\ f \notin DOMAIN lists

-----------------------------------------------------------------------------
(* Starting an instance *)

EditFile(i) ==
    /\ \E content \in Files[i] \ {file[i]} : file' = [file EXCEPT ![i] = content]
    /\ UNCHANGED <<inputs, phase, uses, lists, call, ghostVars>>

\* The process ends and takes its memory with it.
Ends(i) ==
    /\ phase' = [phase EXCEPT ![i] = "down"]
    /\ inputs' = [inputs EXCEPT ![i] = NoInputs]
    /\ uses' = [uses EXCEPT ![i] = Nothing]
    /\ call' = [call EXCEPT ![i] = NoCall]
    /\ lists' = [p \in {q \in DOMAIN lists : ~(q.kind = "memory" /\ q.host = <<i>>)} |-> lists[p]]
    /\ UNCHANGED <<file, ghostVars>>

\* Fx builds the services: the gRPC options and the store load the
\* configuration, and the store may connect to Redis.
Construct(i) ==
    /\ phase[i] = "down"
    /\ \E in \in Inputs[i] :
          LET result == Loaded[i][in][file[i]] IN
          \/ /\ result.validStore
             /\ inputs' = [inputs EXCEPT ![i] = in]
             /\ uses' = [uses EXCEPT ![i].store = result.store,
                                    ![i].name = result.name]
             /\ phase' = [phase EXCEPT ![i] = "built"]
             /\ UNCHANGED <<file, lists, call, ghostVars>>
          \/ /\ ~result.validStore \/ result.store.kind = "redis"
             /\ Ends(i)

\* The start hook of the gRPC server; the address may be taken.
Listen(i) ==
    /\ phase[i] = "built"
    /\ LET result == Loaded[i][inputs[i]][file[i]] IN
       \/ /\ result.ok
          /\ phase' = [phase EXCEPT ![i] = "listening"]
          /\ UNCHANGED <<file, inputs, uses, lists, call, ghostVars>>
       \/ Ends(i)

\* The start hook of the HAProxy service creates the client, the last to load
\* the configuration ...
Connect(i) ==
    /\ phase[i] = "listening"
    /\ LET result == Loaded[i][inputs[i]][file[i]] IN
       \/ /\ result.validClient
          /\ uses' = [uses EXCEPT ![i].file = result.file]
          /\ inputs' = [inputs EXCEPT ![i] = NoInputs]
          /\ phase' = [phase EXCEPT ![i] = "connected"]
          /\ settled' = [settled EXCEPT ![i] =
                @ /\ Carried(i, StoreOf(i), result.file)]
          /\ UNCHANGED <<file, lists, call, acked, home>>
       \/ Ends(i)

\* ... and writes a list that the store holds to the file.
Sync(i) ==
    /\ phase[i] = "connected" /\ call[i] = NoCall
    /\ IF ListAt(StoreOf(i)) = {}
         THEN UNCHANGED <<lists, home>>
         ELSE /\ lists' = Put(ListAt(StoreOf(i)), {FileOf(i)})
              /\ home' = [home EXCEPT ![i].file = FileOf(i)]
    /\ phase' = [phase EXCEPT ![i] = "up"]
    /\ UNCHANGED <<file, inputs, uses, call, acked, settled>>

Stop(i) ==
    /\ phase[i] # "down"
    /\ Ends(i)

-----------------------------------------------------------------------------
(* Calls.  The gRPC server accepts them before the start hook has ended.   *)

Load(i) ==
    /\ Connected(i) /\ call[i] = NoCall
    /\ call' = [call EXCEPT ![i] =
          IF ListAt(StoreOf(i)) = {} /\ ListAt(FileOf(i)) # {}
            THEN [at |-> "seed", list |-> ListAt(FileOf(i))]
            ELSE [at |-> "edit", list |-> ListAt(StoreOf(i))]]
    /\ UNCHANGED <<file, inputs, phase, uses, lists, ghostVars>>

Seed(i) ==
    /\ call[i].at = "seed"
    /\ lists' = Put(call[i].list, {StoreOf(i)})
    /\ call' = [call EXCEPT ![i].at = "edit"]
    /\ home' = [home EXCEPT ![i].store = StoreOf(i), ![i].name = uses[i].name]
    /\ settled' = [j \in Instances |-> settled[j] /\ j \notin Disturbed(i)]
    /\ UNCHANGED <<file, inputs, phase, uses, acked>>

\* A read, or a change that is refused, ends here.
Answer(i) ==
    /\ call[i].at = "edit"
    /\ call' = [call EXCEPT ![i] = NoCall]
    /\ UNCHANGED <<file, inputs, phase, uses, lists, ghostVars>>

\* A create or a delete replaces the list in the file and in the store.
Save(i) ==
    /\ call[i].at = "edit"
    /\ \E item \in Items :
          LET list == IF item \in call[i].list THEN call[i].list \ {item}
                                               ELSE call[i].list \cup {item} IN
          /\ lists' = Put(list, {FileOf(i), StoreOf(i)})
          /\ acked' = [acked EXCEPT ![i] = list]
    /\ call' = [call EXCEPT ![i] = NoCall]
    /\ home' = [home EXCEPT ![i] = uses[i]]
    /\ settled' = [j \in Instances |-> j = i \/ (settled[j] /\ j \notin Disturbed(i))]
    /\ UNCHANGED <<file, inputs, phase, uses>>

-----------------------------------------------------------------------------
Init ==
    /\ file = [i \in Instances |-> "missing"]
    /\ inputs = [i \in Instances |-> NoInputs]
    /\ phase = [i \in Instances |-> "down"]
    /\ uses = [i \in Instances |-> Nothing]
    /\ lists = [p \in {} |-> {}]
    /\ call = [i \in Instances |-> NoCall]
    /\ acked = [i \in Instances |-> {}]
    /\ home = [i \in Instances |-> Nothing]
    /\ settled = [i \in Instances |-> TRUE]

Next == \E i \in Instances :
    \/ EditFile(i) \/ Construct(i) \/ Listen(i) \/ Connect(i) \/ Sync(i) \/ Stop(i)
    \/ Load(i) \/ Seed(i) \/ Answer(i) \/ Save(i)

Spec == Init /\ [][Next]_vars

-----------------------------------------------------------------------------
(* Correctness *)

\* Through restarts, moves between memory and Redis and from one file to
\* another, configurations edited during a start, and the writes of instances
\* with other names, an instance shows the list it acknowledged last; only an
\* instance of a like name on the same Redis, or the return to a place that
\* holds an older list, can make it show another.
OwnListKept ==
    \A i \in Instances : Connected(i) /\ settled[i] => Effective(i) = acked[i]

\* Whoever loads, whenever the file was edited and however variables are
\* spelled: the store, its namespace and the HAProxy file of an instance are
\* those that, leaf by leaf, the last variable says that names the leaf or a
\* struct around it, or else the topmost layer that sets it.
Precedence ==
    [][\A i \in Instances :
          LET in == IF phase[i] = "down" THEN inputs'[i] ELSE inputs[i]
              meant == [leaf \in Leaves |-> Setting(Environ[in], Content[file[i]], leaf)]
          IN  /\ uses'[i].store # uses[i].store /\ phase'[i] = "built"
                    => uses'[i].store = StorePlace(i, meant)
              /\ uses'[i].file # uses[i].file /\ phase'[i] = "connected"
                    => uses'[i].file = FilePlace(i, meant)]_vars
=============================================================================
