-------------------------- MODULE AppConfiguration --------------------------
(***************************************************************************)
(* Package internal/repositories: the application configuration is merged  *)
(* from the embedded defaults, the embedded layer of an environment, an    *)
(* external file and LBM_CFG_ environment variables.                       *)
(*                                                                         *)
(* A text is a sequence of symbols, each a character or a word; a path is  *)
(* a sequence of keys, each a normalised text.  The leaves that no other   *)
(* part reads (socket timeout, Redis user, password and database) are left *)
(* out; a value of theirs that does not decode is a raw value that does    *)
(* not decode.                                                             *)
(***************************************************************************)
EXTENDS Integers, SequencesExt

CONSTANTS
    LowerCase,           \* strings.ToLower, symbol by symbol
    DefaultLayer,        \* configuration/default.yaml
    EnvironmentLayers    \* configuration/environments/*.yaml, by name

-----------------------------------------------------------------------------
(* Texts *)

Symbols == DOMAIN LowerCase
Text == Seq(Symbols)

Trim(text, cutset) ==
    LET kept == {n \in DOMAIN text : text[n] \notin cutset}
    IN  IF kept = {} THEN <<>> ELSE SubSeq(text, Min(kept), Max(kept))

TrimSpace(text) == Trim(text, {" "})

ToLower(text) == [n \in DOMAIN text |-> LowerCase[text[n]]]

NormalizeKey(part) ==
    ToLower(SelectSeq(TrimSpace(part), LAMBDA symbol : symbol \notin {"_", "-"}))

-----------------------------------------------------------------------------
(* The tree of settings *)

Haproxy == << <<"haproxy">> >>
Store == Append(Haproxy, <<"managed", "configurations", "store">>)

GrpcAddress == << <<"grpc">>, <<"address">> >>
InstanceName == Append(Haproxy, <<"instance", "name">>)
ConfigurationFile == Append(Haproxy, <<"configuration", "file">>)
SocketNetwork == Haproxy \o << <<"socket">>, <<"network">> >>
SocketAddress == Haproxy \o << <<"socket">>, <<"address">> >>
StoreBackend == Append(Store, <<"backend">>)
RedisAddress == Store \o << <<"redis">>, <<"address">> >>

Leaves == {GrpcAddress, InstanceName, ConfigurationFile, SocketNetwork,
           SocketAddress, StoreBackend, RedisAddress}

Structs == UNION {{SubSeq(leaf, 1, n) : n \in 1 .. Len(leaf) - 1} : leaf \in Leaves}

-----------------------------------------------------------------------------
(* Loading.  A layer sets some leaves; one that cannot be read or decoded  *)
(* fails the load.  A raw value is what its YAML says: nothing, a scalar   *)
(* (suffix <<>>), or the leaves of a struct by their path below it.        *)

Missing == [state |-> "missing", values |-> <<>>]
Unreadable == [state |-> "unreadable", values |-> <<>>]
Layer(values) == [state |-> "good", values |-> values]

\* The values of a layer are texts.
IsLayer(layer) == \A path \in DOMAIN layer.values : layer.values[path] \in Text

ASSUME LayerAssumption ==
    /\ LowerCase \in [Symbols -> Symbols] /\ LowerCase[" "] = " "
    /\ IsLayer(DefaultLayer)
    /\ \A name \in DOMAIN EnvironmentLayers : IsLayer(EnvironmentLayers[name])

Failed == [ok |-> FALSE, values |-> [leaf \in Leaves |-> <<>>]]
ZeroValue == [Failed EXCEPT !.ok = TRUE]

ApplyYamlLayer(result, layer) ==
    IF result.ok /\ layer.state = "good"
      THEN [result EXCEPT !.values = [leaf \in Leaves |->
              IF leaf \in DOMAIN layer.values THEN layer.values[leaf] ELSE @[leaf]]]
      ELSE Failed

EnvironmentLayer(environment) ==
    LET name == TrimSpace(environment)
    IN  IF name = <<>> THEN <<>>
        ELSE IF name \in DOMAIN EnvironmentLayers THEN <<EnvironmentLayers[name]>>
        ELSE <<Unreadable>>

ExternalLayer(flag, file) ==
    IF TrimSpace(flag) = <<>> \/ file = Missing THEN <<>> ELSE <<file>>

\* Blank parts of a variable's name are dropped, so a doubled separator is no
\* error; the others find their field whatever their case and separators.
EnvKeyToPath(parts) ==
    LET named == SelectSeq(parts, LAMBDA part : TrimSpace(part) # <<>>)
    IN  [n \in DOMAIN named |-> NormalizeKey(named[n])]

\* A text decodes into a leaf, and neither into a struct nor below a leaf; a
\* key that no field has is ignored.
Decodable(path) ==
    path \notin Structs /\ \A leaf \in Leaves : ~IsStrictPrefix(leaf, path)

\* The raw value has the shape of what the path leads to.
Assignable(path, raw) ==
    /\ path \in Leaves \cup Structs
    /\ raw.state = "good"
    /\ \A suffix \in DOMAIN raw.values : Decodable(path \o suffix)

MergesStructs(values, path, raw) ==
    [leaf \in Leaves |->
        LET suffix == SubSeq(leaf, Len(path) + 1, Len(leaf))
        IN  IF IsPrefix(path, leaf) /\ suffix \in DOMAIN raw.values
              THEN raw.values[suffix] ELSE values[leaf]]

\* A struct is replaced as a whole: what the raw value leaves out is blank.
AssignValueFromString(values, path, raw) ==
    [leaf \in Leaves |->
        LET suffix == SubSeq(leaf, Len(path) + 1, Len(leaf))
        IN  IF ~IsPrefix(path, leaf) THEN values[leaf]
            ELSE IF suffix \in DOMAIN raw.values THEN raw.values[suffix]
            ELSE <<>>]

SetNestedConfigurationValue(result, variable) ==
    LET path == EnvKeyToPath(variable.key)
    IN  IF ~result.ok \/ path = <<>> THEN result
        ELSE IF Assignable(path, variable.raw)
          THEN [result EXCEPT !.values = AssignValueFromString(@, path, variable.raw)]
        ELSE Failed

Layers(inputs, file) ==
    <<DefaultLayer>> \o EnvironmentLayer(inputs.environment)
                     \o ExternalLayer(inputs.flag, file)

ApplyYamlLayers(layers) == FoldLeft(ApplyYamlLayer, ZeroValue, layers)
ApplyEnvironmentOverrides(result, variables) ==
    FoldLeft(SetNestedConfigurationValue, result, variables)

\* inputs: the environment name, the -config flag and the variables of the
\* process; file: what the flag leads to at the moment of the load.
GetConfiguration(inputs, file) ==
    ApplyEnvironmentOverrides(ApplyYamlLayers(Layers(inputs, file)), inputs.variables)

-----------------------------------------------------------------------------
(* What a setting is meant to be: the value of the last variable that      *)
(* names it or a struct around it, else of the topmost layer that sets it. *)

Naming(inputs, leaf) ==
    {n \in DOMAIN inputs.variables :
        LET path == EnvKeyToPath(inputs.variables[n].key)
        IN  path # <<>> /\ IsPrefix(path, leaf)}

Setting(inputs, file, leaf) ==
    LET layers == Layers(inputs, file)
        setting == {n \in DOMAIN layers : leaf \in DOMAIN layers[n].values}
    IN  IF Naming(inputs, leaf) # {}
          THEN LET variable == inputs.variables[Max(Naming(inputs, leaf))]
                   path == EnvKeyToPath(variable.key)
                   suffix == SubSeq(leaf, Len(path) + 1, Len(leaf))
               IN  IF suffix \in DOMAIN variable.raw.values
                     THEN variable.raw.values[suffix] ELSE <<>>
        ELSE IF setting # {} THEN layers[Max(setting)].values[leaf] ELSE <<>>
=============================================================================
