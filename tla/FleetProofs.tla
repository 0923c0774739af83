----------------------------- MODULE FleetProofs -----------------------------
(***************************************************************************)
(* Proofs about AppConfiguration and Fleet, for any layers, variables,     *)
(* instances and configured names.  The first part is about the load: the  *)
(* folds over layers and variables end in what Setting says.  The second   *)
(* is about names: a namespace determines the letters of the name it was   *)
(* made from.  The third is the inductive invariant of the fleet.          *)
(***************************************************************************)
EXTENDS Fleet, Induction

-----------------------------------------------------------------------------
(* Loads.  FoldLeft goes through the sets of positions by their greatest   *)
(* element; what it makes of the first n positions is what it made of one  *)
(* less, and the n-th element.                                             *)

\* The results of the first layers, for each number of them.
LayerRun(run, layers, N) ==
    /\ run[0] = ZeroValue
    /\ \A n \in 1 .. N : run[n] = ApplyYamlLayer(run[n - 1], layers[n])

\* The layers are applied one after the other, from the first.
LEMMA LayersInOrder ==
    ASSUME NEW layers, NEW N \in Nat, DOMAIN layers = 1 .. N
    PROVE  \E run : LayerRun(run, layers, N) /\ ApplyYamlLayers(layers) = run[N]
<1> DEFINE Step(it, s) ==
             IF s = {} THEN ZeroValue
             ELSE ApplyYamlLayer(it[s \ {Max(s)}], layers[Max(s)])
           T == {n \in 0 .. N : \E it : it = [s \in SUBSET (1 .. n) |-> Step(it, s)]}
<1>1. 0 \in T
  <2>1. PICK it : it = [s \in SUBSET (1 .. 0) |-> ZeroValue]
    OBVIOUS
  <2>2. it = [s \in SUBSET (1 .. 0) |-> Step(it, s)]
    BY <2>1
  <2>3. 0 \in 0 .. N
    OBVIOUS
  <2> HIDE DEF Step
  <2> QED
    BY <2>2, <2>3
<1>2. ASSUME NEW n \in 0 .. N - 1, n \in T
      PROVE  n + 1 \in T
  <2>1. PICK g : g = [s \in SUBSET (1 .. n) |-> Step(g, s)]
    BY <1>2
  <2>2. PICK h : h = [s \in SUBSET (1 .. n + 1) |-> Step(g, s)]
    OBVIOUS
  <2>3. \A s \in SUBSET (1 .. n + 1) : s # {} => s \ {Max(s)} \in SUBSET (1 .. n)
    BY MaxOfPrefix
  <2>4. SUBSET (1 .. n) \subseteq SUBSET (1 .. n + 1)
    OBVIOUS
  <2>5. \A u \in SUBSET (1 .. n) : h[u] = g[u]
    <3> HIDE DEF Step
    <3> QED
      BY <2>1, <2>2, <2>4
  <2>6. ASSUME NEW s \in SUBSET (1 .. n + 1)
        PROVE  Step(g, s) = Step(h, s)
    BY <2>3, <2>5
  <2>7. h = [s \in SUBSET (1 .. n + 1) |-> Step(h, s)]
    <3> HIDE DEF Step
    <3> QED
      BY <2>2, <2>6
  <2>8. n + 1 \in 0 .. N
    OBVIOUS
  <2> QED
    BY <2>7, <2>8
<1>3. N \in T
  <2>1. N \in 0 .. N
    OBVIOUS
  <2> HIDE DEF T
  <2>2. 0 .. N \subseteq T
    BY <1>1, <1>2, Counting
  <2> QED
    BY <2>1, <2>2
<1> DEFINE it == CHOOSE f : f = [s \in SUBSET (1 .. N) |-> Step(f, s)]
<1>4. it = [s \in SUBSET (1 .. N) |-> Step(it, s)]
  <2>1. \E f : f = [s \in SUBSET (1 .. N) |-> Step(f, s)]
    BY <1>3
  <2> HIDE DEF Step
  <2> QED
    BY <2>1
<1>5. ApplyYamlLayers(layers) = it[1 .. N]
  BY DEF ApplyYamlLayers, FoldLeft, MapThenFoldSet
<1> HIDE DEF it
<1>6. it[1 .. 0] = ZeroValue
  BY <1>4
<1>7. ASSUME NEW n \in 1 .. N
      PROVE  it[1 .. n] = ApplyYamlLayer(it[1 .. n - 1], layers[n])
  <2>1. 1 .. n \in SUBSET (1 .. N)
    OBVIOUS
  <2>2. n \in Nat /\ n > 0
    OBVIOUS
  <2>3. /\ 1 .. n # {} /\ Max(1 .. n) = n
        /\ (1 .. n) \ {n} = 1 .. n - 1
    BY <2>2, MaxOfInterval
  <2>4. it[1 .. n] = Step(it, 1 .. n)
    BY <1>4, <2>1
  <2> QED
    BY <2>3, <2>4
<1> DEFINE run == [n \in 0 .. N |-> it[1 .. n]]
<1>8. run[0] = ZeroValue /\ run[N] = it[1 .. N]
  BY <1>6
<1>9. \A n \in 1 .. N : run[n] = ApplyYamlLayer(run[n - 1], layers[n])
  <2>1. \A n \in 1 .. N : run[n] = it[1 .. n] /\ run[n - 1] = it[1 .. n - 1]
    OBVIOUS
  <2> QED
    BY <1>7, <2>1
<1> QED
  <2> HIDE DEF run
  <2> QED
    BY <1>5, <1>8, <1>9 DEF LayerRun

\* The results after the first variables.
VariableRun(run, start, variables, N) ==
    /\ run[0] = start
    /\ \A n \in 1 .. N : run[n] = SetNestedConfigurationValue(run[n - 1], variables[n])

\* So are the variables.
LEMMA VariablesInOrder ==
    ASSUME NEW start, NEW variables, NEW N \in Nat, DOMAIN variables = 1 .. N
    PROVE  \E run : /\ VariableRun(run, start, variables, N)
                    /\ ApplyEnvironmentOverrides(start, variables) = run[N]
<1> DEFINE Step(it, s) ==
             IF s = {} THEN start
             ELSE SetNestedConfigurationValue(it[s \ {Max(s)}], variables[Max(s)])
           T == {n \in 0 .. N : \E it : it = [s \in SUBSET (1 .. n) |-> Step(it, s)]}
<1>1. 0 \in T
  <2>1. PICK it : it = [s \in SUBSET (1 .. 0) |-> start]
    OBVIOUS
  <2>2. it = [s \in SUBSET (1 .. 0) |-> Step(it, s)]
    BY <2>1
  <2>3. 0 \in 0 .. N
    OBVIOUS
  <2> HIDE DEF Step
  <2> QED
    BY <2>2, <2>3
<1>2. ASSUME NEW n \in 0 .. N - 1, n \in T
      PROVE  n + 1 \in T
  <2>1. PICK g : g = [s \in SUBSET (1 .. n) |-> Step(g, s)]
    BY <1>2
  <2>2. PICK h : h = [s \in SUBSET (1 .. n + 1) |-> Step(g, s)]
    OBVIOUS
  <2>3. \A s \in SUBSET (1 .. n + 1) : s # {} => s \ {Max(s)} \in SUBSET (1 .. n)
    BY MaxOfPrefix
  <2>4. SUBSET (1 .. n) \subseteq SUBSET (1 .. n + 1)
    OBVIOUS
  <2>5. \A u \in SUBSET (1 .. n) : h[u] = g[u]
    <3> HIDE DEF Step
    <3> QED
      BY <2>1, <2>2, <2>4
  <2>6. ASSUME NEW s \in SUBSET (1 .. n + 1)
        PROVE  Step(g, s) = Step(h, s)
    BY <2>3, <2>5
  <2>7. h = [s \in SUBSET (1 .. n + 1) |-> Step(h, s)]
    <3> HIDE DEF Step
    <3> QED
      BY <2>2, <2>6
  <2>8. n + 1 \in 0 .. N
    OBVIOUS
  <2> QED
    BY <2>7, <2>8
<1>3. N \in T
  <2>1. N \in 0 .. N
    OBVIOUS
  <2> HIDE DEF T
  <2>2. 0 .. N \subseteq T
    BY <1>1, <1>2, Counting
  <2> QED
    BY <2>1, <2>2
<1> DEFINE it == CHOOSE f : f = [s \in SUBSET (1 .. N) |-> Step(f, s)]
<1>4. it = [s \in SUBSET (1 .. N) |-> Step(it, s)]
  <2>1. \E f : f = [s \in SUBSET (1 .. N) |-> Step(f, s)]
    BY <1>3
  <2> HIDE DEF Step
  <2> QED
    BY <2>1
<1>5. ApplyEnvironmentOverrides(start, variables) = it[1 .. N]
  BY DEF ApplyEnvironmentOverrides, FoldLeft, MapThenFoldSet
<1> HIDE DEF it
<1>6. it[1 .. 0] = start
  BY <1>4
<1>7. ASSUME NEW n \in 1 .. N
      PROVE  it[1 .. n] = SetNestedConfigurationValue(it[1 .. n - 1], variables[n])
  <2>1. 1 .. n \in SUBSET (1 .. N)
    OBVIOUS
  <2>2. n \in Nat /\ n > 0
    OBVIOUS
  <2>3. /\ 1 .. n # {} /\ Max(1 .. n) = n
        /\ (1 .. n) \ {n} = 1 .. n - 1
    BY <2>2, MaxOfInterval
  <2>4. it[1 .. n] = Step(it, 1 .. n)
    BY <1>4, <2>1
  <2> QED
    BY <2>3, <2>4
<1> DEFINE run == [n \in 0 .. N |-> it[1 .. n]]
<1>8. run[0] = start /\ run[N] = it[1 .. N]
  BY <1>6
<1>9. \A n \in 1 .. N : run[n] = SetNestedConfigurationValue(run[n - 1], variables[n])
  <2>1. \A n \in 1 .. N : run[n] = it[1 .. n] /\ run[n - 1] = it[1 .. n - 1]
    OBVIOUS
  <2> QED
    BY <1>7, <2>1
<1> QED
  <2> HIDE DEF run
  <2> QED
    BY <1>5, <1>8, <1>9 DEF VariableRun

\* Of the positions up to n + 1 that were chosen, the last one is n + 1 or the
\* last one up to n.
LEMMA LastChosen ==
    ASSUME NEW n \in Nat, NEW chosen \in SUBSET (1 .. n + 1)
    PROVE  /\ n + 1 \in chosen => chosen # {} /\ Max(chosen) = n + 1
           /\ n + 1 \notin chosen => chosen = chosen \cap 1 .. n
  BY MaxOfPrefix

\* What the topmost of the first n layers that sets a leaf sets it to.
TopSetting(layers, n, leaf) ==
    LET setting == {m \in 1 .. n : leaf \in DOMAIN layers[m].values}
    IN  IF setting # {} THEN layers[Max(setting)].values[leaf] ELSE <<>>

\* A load that is well keeps the setting of each leaf.
Loads(result, setting) ==
    \/ result = Failed
    \/ result = [ok |-> TRUE, values |-> setting]

\* One more layer wins at the leaves that it sets.
LEMMA LayerWins ==
    ASSUME NEW n \in Nat, NEW layers, NEW result,
           Loads(result, [leaf \in Leaves |-> TopSetting(layers, n, leaf)])
    PROVE  Loads(ApplyYamlLayer(result, layers[n + 1]),
                 [leaf \in Leaves |-> TopSetting(layers, n + 1, leaf)])
<1> DEFINE layer == layers[n + 1]
           top == [leaf \in Leaves |-> TopSetting(layers, n, leaf)]
<1>1. CASE ~(result.ok /\ layer.state = "good")
  BY <1>1 DEF ApplyYamlLayer, Loads
<1>2. CASE result.ok /\ layer.state = "good"
  <2>1. result = [ok |-> TRUE, values |-> top]
    BY <1>2 DEF Loads, Failed
  <2> DEFINE Won(leaf) == IF leaf \in DOMAIN layer.values THEN layer.values[leaf] ELSE top[leaf]
  <2>2. ApplyYamlLayer(result, layer) = [ok |-> TRUE, values |-> [leaf \in Leaves |-> Won(leaf)]]
    <3> HIDE DEF top
    <3> QED
      BY <1>2, <2>1 DEF ApplyYamlLayer
  <2>3. ASSUME NEW leaf \in Leaves
        PROVE  Won(leaf) = TopSetting(layers, n + 1, leaf)
    <3> DEFINE setting == {m \in 1 .. n + 1 : leaf \in DOMAIN layers[m].values}
               before == {m \in 1 .. n : leaf \in DOMAIN layers[m].values}
    <3>1. n + 1 \in 1 .. n + 1
      OBVIOUS
    <3>2. /\ n + 1 \in setting => setting # {} /\ Max(setting) = n + 1
          /\ n + 1 \notin setting => setting = setting \cap 1 .. n
      BY LastChosen
    <3>3. setting \cap 1 .. n = before
      OBVIOUS
    <3>4. CASE leaf \in DOMAIN layer.values
      BY <3>1, <3>2, <3>4 DEF TopSetting
    <3>5. CASE leaf \notin DOMAIN layer.values
      <4>1. setting = before
        BY <3>2, <3>3, <3>5
      <4> QED
        BY <3>5, <4>1 DEF TopSetting
    <3> QED
      BY <3>4, <3>5
  <2> HIDE DEF Won
  <2> QED
    BY <2>2, <2>3 DEF Loads
<1> QED
  BY <1>1, <1>2

\* So each leaf comes from the topmost layer that sets it.
LEMMA LayersMerge ==
    ASSUME NEW layers, NEW N \in Nat, DOMAIN layers = 1 .. N
    PROVE  Loads(ApplyYamlLayers(layers),
                 [leaf \in Leaves |-> TopSetting(layers, N, leaf)])
<1>1. PICK run : LayerRun(run, layers, N) /\ ApplyYamlLayers(layers) = run[N]
  BY LayersInOrder
<1> DEFINE Good(n) == Loads(run[n], [leaf \in Leaves |-> TopSetting(layers, n, leaf)])
           T == {n \in 0 .. N : Good(n)}
<1>2. 0 \in T
  <2>1. \A leaf : TopSetting(layers, 0, leaf) = <<>>
    BY DEF TopSetting
  <2>2. ZeroValue = [ok |-> TRUE, values |-> [leaf \in Leaves |-> <<>>]]
    <3> DEFINE blank == [leaf \in Leaves |-> <<>>]
    <3>1. ZeroValue = [[ok |-> FALSE, values |-> blank] EXCEPT !.ok = TRUE]
      BY DEF ZeroValue, Failed
    <3> HIDE DEF blank
    <3>2. ZeroValue = [ok |-> TRUE, values |-> blank]
      BY <3>1
    <3> QED
      BY <3>2 DEF blank
  <2>3. 0 \in 0 .. N
    OBVIOUS
  <2> QED
    BY <1>1, <2>1, <2>2, <2>3 DEF Loads, LayerRun
<1>3. ASSUME NEW n \in 0 .. N - 1, n \in T
      PROVE  n + 1 \in T
  <2>1. n + 1 \in 1 .. N /\ n + 1 - 1 = n /\ n \in Nat /\ n + 1 \in 0 .. N
    OBVIOUS
  <2>2. run[n + 1] = ApplyYamlLayer(run[n], layers[n + 1])
    BY <1>1, <2>1 DEF LayerRun
  <2>3. Loads(run[n], [leaf \in Leaves |-> TopSetting(layers, n, leaf)])
    BY <1>3
  <2>4. Good(n + 1)
    BY <2>1, <2>2, <2>3, LayerWins
  <2> HIDE DEF Good
  <2> QED
    BY <2>1, <2>4
<1>4. Good(N)
  <2>1. N \in 0 .. N
    OBVIOUS
  <2> HIDE DEF Good
  <2>2. 0 .. N \subseteq T
    <3> HIDE DEF T
    <3> QED
      BY <1>2, <1>3, Counting
  <2> QED
    BY <2>1, <2>2
<1> QED
  BY <1>1, <1>4

\* Whether a variable names a leaf or a struct around it, and what it says of
\* the leaves below.
Names(variable, leaf) ==
    EnvKeyToPath(variable.key) # <<>> /\ IsPrefix(EnvKeyToPath(variable.key), leaf)
Says(variable, leaf) ==
    LET suffix == SubSeq(leaf, Len(EnvKeyToPath(variable.key)) + 1, Len(leaf))
    IN  IF suffix \in DOMAIN variable.raw.values THEN variable.raw.values[suffix] ELSE <<>>

\* What the first n variables leave of a leaf that the layers set to below.
LastSetting(variables, n, leaf, below) ==
    LET naming == {m \in 1 .. n : Names(variables[m], leaf)}
    IN  IF naming # {} THEN Says(variables[Max(naming)], leaf) ELSE below

\* One more variable wins at the leaves that it names.
LEMMA VariableWins ==
    ASSUME NEW n \in Nat, NEW variables, NEW result, NEW below,
           Loads(result, [leaf \in Leaves |-> LastSetting(variables, n, leaf, below[leaf])])
    PROVE  Loads(SetNestedConfigurationValue(result, variables[n + 1]),
                 [leaf \in Leaves |-> LastSetting(variables, n + 1, leaf, below[leaf])])
<1> DEFINE variable == variables[n + 1]
           path == EnvKeyToPath(variable.key)
           last == [leaf \in Leaves |-> LastSetting(variables, n, leaf, below[leaf])]
<1>1. ASSUME NEW leaf \in Leaves
      PROVE  LastSetting(variables, n + 1, leaf, below[leaf])
                = IF Names(variable, leaf) THEN Says(variable, leaf) ELSE last[leaf]
  <2> DEFINE naming == {m \in 1 .. n + 1 : Names(variables[m], leaf)}
             before == {m \in 1 .. n : Names(variables[m], leaf)}
  <2>1. n + 1 \in 1 .. n + 1
    OBVIOUS
  <2>2. /\ n + 1 \in naming => naming # {} /\ Max(naming) = n + 1
        /\ n + 1 \notin naming => naming = naming \cap 1 .. n
    BY LastChosen
  <2>3. naming \cap 1 .. n = before
    OBVIOUS
  <2>4. CASE Names(variable, leaf)
    BY <2>1, <2>2, <2>4 DEF LastSetting
  <2>5. CASE ~Names(variable, leaf)
    <3>1. naming = before
      BY <2>2, <2>3, <2>5
    <3> QED
      BY <2>5, <3>1 DEF LastSetting
  <2> QED
    BY <2>4, <2>5
<1>2. CASE ~result.ok
  BY <1>2 DEF SetNestedConfigurationValue, Loads
<1>3. CASE result.ok /\ path = <<>>
  <2>1. SetNestedConfigurationValue(result, variable) = result
    BY <1>3 DEF SetNestedConfigurationValue
  <2>2. \A leaf : ~Names(variable, leaf)
    BY <1>3 DEF Names
  <2>3. [leaf \in Leaves |-> LastSetting(variables, n + 1, leaf, below[leaf])] = last
    BY <1>1, <2>2
  <2> QED
    BY <2>1, <2>3
<1>4. CASE result.ok /\ path # <<>> /\ ~Assignable(path, variable.raw)
  BY <1>4 DEF SetNestedConfigurationValue, Loads
<1>5. CASE result.ok /\ path # <<>> /\ Assignable(path, variable.raw)
  <2>1. result = [ok |-> TRUE, values |-> last]
    BY <1>5 DEF Loads, Failed
  <2>2. SetNestedConfigurationValue(result, variable)
            = [ok |-> TRUE, values |-> AssignValueFromString(last, path, variable.raw)]
    <3> HIDE DEF last
    <3> QED
      BY <1>5, <2>1 DEF SetNestedConfigurationValue
  <2>3. ASSUME NEW leaf \in Leaves
        PROVE  AssignValueFromString(last, path, variable.raw)[leaf]
                  = LastSetting(variables, n + 1, leaf, below[leaf])
    <3> HIDE DEF last
    <3> QED
      BY <1>1, <1>5 DEF AssignValueFromString, Names, Says
  <2>4. AssignValueFromString(last, path, variable.raw)
            = [leaf \in Leaves |-> AssignValueFromString(last, path, variable.raw)[leaf]]
    BY DEF AssignValueFromString
  <2>5. AssignValueFromString(last, path, variable.raw)
            = [leaf \in Leaves |-> LastSetting(variables, n + 1, leaf, below[leaf])]
    <3> HIDE DEF last, path, variable
    <3> QED
      BY <2>3, <2>4
  <2> QED
    BY <2>2, <2>5 DEF Loads
<1> QED
  BY <1>2, <1>3, <1>4, <1>5

\* So each leaf is what the last variable says that names it.
LEMMA VariablesMerge ==
    ASSUME NEW start, NEW below, NEW variables, NEW N \in Nat, DOMAIN variables = 1 .. N,
           Loads(start, [leaf \in Leaves |-> below[leaf]])
    PROVE  Loads(ApplyEnvironmentOverrides(start, variables),
                 [leaf \in Leaves |-> LastSetting(variables, N, leaf, below[leaf])])
<1>1. PICK run : /\ VariableRun(run, start, variables, N)
                 /\ ApplyEnvironmentOverrides(start, variables) = run[N]
  BY VariablesInOrder
<1> DEFINE Good(n) ==
        Loads(run[n], [leaf \in Leaves |-> LastSetting(variables, n, leaf, below[leaf])])
           T == {n \in 0 .. N : Good(n)}
<1>2. 0 \in T
  <2>1. \A leaf : LastSetting(variables, 0, leaf, below[leaf]) = below[leaf]
    BY DEF LastSetting
  <2>2. 0 \in 0 .. N
    OBVIOUS
  <2> QED
    BY <1>1, <2>1, <2>2 DEF VariableRun
<1>3. ASSUME NEW n \in 0 .. N - 1, n \in T
      PROVE  n + 1 \in T
  <2>1. n + 1 \in 1 .. N /\ n + 1 - 1 = n /\ n \in Nat /\ n + 1 \in 0 .. N
    OBVIOUS
  <2>2. run[n + 1] = SetNestedConfigurationValue(run[n], variables[n + 1])
    BY <1>1, <2>1 DEF VariableRun
  <2>3. Good(n)
    BY <1>3
  <2>4. Good(n + 1)
    BY <2>1, <2>2, <2>3, VariableWins
  <2> HIDE DEF Good
  <2> QED
    BY <2>1, <2>4
<1>4. Good(N)
  <2>1. N \in 0 .. N
    OBVIOUS
  <2> HIDE DEF Good
  <2>2. 0 .. N \subseteq T
    <3> HIDE DEF T
    <3> QED
      BY <1>2, <1>3, Counting
  <2> QED
    BY <2>1, <2>2
<1> QED
  BY <1>1, <1>4

\* The layers of a load are layers, at most three.
LEMMA LayersAreLayers ==
    ASSUME NEW label \in DOMAIN Environ, NEW content \in DOMAIN Content
    PROVE  LET layers == Layers(Environ[label], Content[content])
           IN  /\ Len(layers) \in Nat /\ DOMAIN layers = 1 .. Len(layers)
               /\ \A n \in DOMAIN layers : IsLayer(layers[n])
<1> DEFINE environment == EnvironmentLayer(Environ[label].environment)
           external == ExternalLayer(Environ[label].flag, Content[content])
           All == {layer \in {DefaultLayer, Unreadable, Content[content]}
                                \cup {EnvironmentLayers[name] : name \in DOMAIN EnvironmentLayers} :
                     IsLayer(layer)}
<1>1. Unreadable \in All
  BY DEF Unreadable, IsLayer
<1>2. DefaultLayer \in All
  BY LayerAssumption
<1>3. Content[content] \in All
  BY FleetAssumption
<1>4. \A name \in DOMAIN EnvironmentLayers : EnvironmentLayers[name] \in All
  BY LayerAssumption
<1>5. environment \in Seq(All)
  <2> HIDE DEF All
  <2> QED
    BY <1>1, <1>4 DEF EnvironmentLayer
<1>6. external \in Seq(All)
  <2> HIDE DEF All
  <2> QED
    BY <1>3 DEF ExternalLayer
<1>7. Layers(Environ[label], Content[content]) \in Seq(All)
  <2> HIDE DEF All, environment, external
  <2>1. <<DefaultLayer>> \in Seq(All)
    BY <1>2
  <2> QED
    BY <1>5, <1>6, <2>1 DEF Layers, environment, external
<1> HIDE DEF All
<1>8. \A layer \in All : IsLayer(layer)
  BY DEF All
<1> QED
  BY <1>7, <1>8

\* A load that succeeds sets every leaf to what Setting says.
LEMMA LoadsAreSettings ==
    ASSUME NEW label \in DOMAIN Environ, NEW content \in DOMAIN Content
    PROVE  Loads(GetConfiguration(Environ[label], Content[content]),
                 [leaf \in Leaves |-> Setting(Environ[label], Content[content], leaf)])
<1> DEFINE process == Environ[label]
           layers == Layers(process, Content[content])
           variables == process.variables
           below == [leaf \in Leaves |-> TopSetting(layers, Len(layers), leaf)]
<1>1. Len(layers) \in Nat /\ DOMAIN layers = 1 .. Len(layers)
  BY LayersAreLayers
<1>2. Len(variables) \in Nat /\ DOMAIN variables = 1 .. Len(variables)
  <2>1. variables \in Seq(Range(variables))
    BY FleetAssumption
  <2> QED
    BY <2>1
<1>3. Loads(ApplyYamlLayers(layers), below)
  BY <1>1, LayersMerge
<1>4. Loads(ApplyEnvironmentOverrides(ApplyYamlLayers(layers), variables),
            [leaf \in Leaves |-> LastSetting(variables, Len(variables), leaf, below[leaf])])
  <2>1. below = [leaf \in Leaves |-> below[leaf]]
    OBVIOUS
  <2> HIDE DEF below, layers, variables
  <2> QED
    BY <1>2, <1>3, <2>1, VariablesMerge
<1>5. ASSUME NEW leaf \in Leaves
      PROVE  LastSetting(variables, Len(variables), leaf, below[leaf])
                = Setting(process, Content[content], leaf)
  <2>1. Naming(process, leaf) = {m \in 1 .. Len(variables) : Names(variables[m], leaf)}
    BY <1>2 DEF Naming, Names
  <2>2. {m \in DOMAIN layers : leaf \in DOMAIN layers[m].values}
            = {m \in 1 .. Len(layers) : leaf \in DOMAIN layers[m].values}
    BY <1>1
  <2> QED
    BY <2>1, <2>2 DEF LastSetting, Setting, TopSetting, Says
<1> HIDE DEF below
<1> QED
  BY <1>4, <1>5 DEF GetConfiguration

-----------------------------------------------------------------------------
(* Names *)

\* A text that is moved along keeps its letters and their ranks.
LEMMA LettersMove ==
    ASSUME NEW s, NEW t, NEW N \in Nat, NEW d \in Int, Lettered(s) \subseteq 1 .. N,
           Lettered(t) = {n - d : n \in Lettered(s)},
           \A n \in Lettered(s) : t[n - d] = s[n]
    PROVE  Letters(t) = Letters(s)
<1> DEFINE RankIn(text, n) == {m \in Lettered(text) : m <= n}
<1>1. ASSUME NEW n \in Lettered(s)
      PROVE  Cardinality(RankIn(t, n - d)) = Cardinality(RankIn(s, n))
  <2> DEFINE A == RankIn(s, n)
             B == RankIn(t, n - d)
             move == [m \in A |-> m - d]
  <2>1. IsFiniteSet(A)
    <3>1. A \in SUBSET (1 .. N)
      OBVIOUS
    <3> QED
      BY <3>1, FS_Interval, FS_Subset
  <2>2. \A m \in A : m \in Int /\ m - d \in B
    OBVIOUS
  <2>3. \A k \in B : \E m \in A : k = m - d
    <3> SUFFICES ASSUME NEW k \in B
                 PROVE  \E m \in A : k = m - d
      OBVIOUS
    <3>1. PICK m \in Lettered(s) : k = m - d
      OBVIOUS
    <3>2. m \in Int /\ n \in Int /\ m - d <= n - d
      BY <3>1
    <3>3. m \in A
      BY <3>2
    <3> QED
      BY <3>1, <3>3
  <2> HIDE DEF A, B
  <2>4. move \in [A -> B]
    BY <2>2
  <2>5. \A m, k \in A : move[m] = move[k] => m = k
    BY <2>2
  <2>6. \A k \in B : \E m \in A : move[m] = k
    BY <2>3
  <2> HIDE DEF move
  <2>7. move \in Bijection(A, B)
    BY <2>4, <2>5, <2>6 DEF Bijection, Injection, Surjection, IsInjective
  <2>8. ExistsBijection(A, B)
    BY <2>7 DEF ExistsBijection
  <2> QED
    BY <2>1, <2>8, FS_Bijection DEF A, B
<1>2. \A n \in Lettered(s) :
          <<Cardinality(RankIn(t, n - d)), t[n - d]>> = <<Cardinality(RankIn(s, n)), s[n]>>
  BY <1>1
<1>3. Letters(s) = {<<Cardinality(RankIn(s, n)), s[n]>> : n \in Lettered(s)}
  BY DEF Letters
<1>4. Letters(t) = {<<Cardinality(RankIn(t, k)), t[k]>> : k \in Lettered(t)}
  BY DEF Letters
<1>5. Letters(t) = {<<Cardinality(RankIn(t, n - d)), t[n - d]>> : n \in Lettered(s)}
  <2> HIDE DEF RankIn
  <2> QED
    BY <1>4
<1> HIDE DEF RankIn
<1> QED
  BY <1>2, <1>3, <1>5

\* So does one that only loses others at its ends.
LEMMA WindowKeepsLetters ==
    ASSUME NEW s, NEW t, NEW N \in Nat, NEW a \in 1 .. N, NEW b \in 1 .. N, a <= b,
           DOMAIN s = 1 .. N, DOMAIN t = 1 .. b - a + 1,
           \A k \in 1 .. b - a + 1 : t[k] = s[a + k - 1],
           Lettered(s) \subseteq a .. b
    PROVE  Letters(t) = Letters(s)
<1> DEFINE d == a - 1
<1>1. d \in Int /\ a .. b \subseteq 1 .. N
  OBVIOUS
<1>2. ASSUME NEW n \in Lettered(s)
      PROVE  n - d \in Lettered(t) /\ t[n - d] = s[n]
  <2>1. n \in a .. b /\ n - d \in 1 .. b - a + 1 /\ a + (n - d) - 1 = n
    OBVIOUS
  <2>2. t[n - d] = s[n]
    BY <2>1
  <2> QED
    BY <2>1, <2>2 DEF Lettered
<1>3. ASSUME NEW k \in Lettered(t)
      PROVE  \E n \in Lettered(s) : k = n - d
  <2>1. k \in 1 .. b - a + 1
    BY DEF Lettered
  <2>2. a + k - 1 \in 1 .. N /\ k = (a + k - 1) - d
    BY <2>1
  <2>3. a + k - 1 \in Lettered(s)
    BY <2>1, <2>2 DEF Lettered
  <2> QED
    BY <2>2, <2>3
<1>4. Lettered(t) = {n - d : n \in Lettered(s)}
  BY <1>2, <1>3
<1> HIDE DEF d
<1> QED
  BY <1>1, <1>2, <1>4, LettersMove

\* What Trim leaves lies between the first and the last symbol it keeps.
LEMMA TrimIsWindow ==
    ASSUME NEW text, NEW N \in Nat, DOMAIN text = 1 .. N, NEW cutset
    PROVE  \/ /\ Trim(text, cutset) = <<>>
              /\ \A n \in 1 .. N : text[n] \in cutset
           \/ \E a, b \in 1 .. N :
                 /\ a <= b
                 /\ DOMAIN Trim(text, cutset) = 1 .. b - a + 1
                 /\ \A k \in 1 .. b - a + 1 : Trim(text, cutset)[k] = text[a + k - 1]
                 /\ \A n \in 1 .. N : text[n] \notin cutset => n \in a .. b
<1> DEFINE kept == {n \in DOMAIN text : text[n] \notin cutset}
<1>1. CASE kept = {}
  BY <1>1 DEF Trim
<1>2. CASE kept # {}
  <2>1. kept \in SUBSET Nat /\ \A n \in kept : n <= N
    OBVIOUS
  <2>2. Max(kept) \in kept /\ \A n \in kept : n <= Max(kept)
    <3> HIDE DEF kept
    <3> QED
      BY <1>2, <2>1, MaxOf
  <2>3. Min(kept) \in kept /\ \A n \in kept : Min(kept) <= n
    <3> HIDE DEF kept
    <3> QED
      BY <1>2, <2>1, MinOf
  <2>4. PICK a, b \in 1 .. N : a = Min(kept) /\ b = Max(kept)
    BY <2>2, <2>3
  <2>5. a <= b /\ \A n \in kept : n \in a .. b
    BY <2>2, <2>3, <2>4
  <2>6. Trim(text, cutset) = SubSeq(text, a, b)
    BY <1>2, <2>4 DEF Trim
  <2>7. /\ DOMAIN SubSeq(text, a, b) = 1 .. b - a + 1
        /\ \A k \in 1 .. b - a + 1 : SubSeq(text, a, b)[k] = text[a + k - 1]
    <3>1. \A n \in a .. b : text[n] \in {text[m] : m \in 1 .. N}
      OBVIOUS
    <3> QED
      BY <2>5, <3>1
  <2> QED
    BY <2>5, <2>6, <2>7
<1> QED
  BY <1>1, <1>2

\* What a namespace tells of the name.
EssenceOf(key) == IF Letters(key) = {} THEN {<<1, "default">>} ELSE Letters(key)

\* Trimming, folding the case and replacing other symbols keep the letters, so
\* that a namespace tells names apart whose letters differ (Namespace).
LEMMA NamespaceTells ==
    ASSUME NEW name \in Text
    PROVE  Essence(name) = EssenceOf(Namespace(name))
<1> DEFINE lower == ToLower(TrimSpace(name))
           clean == [n \in DOMAIN lower |-> IF lower[n] \in Plain THEN lower[n] ELSE "_"]
           trimmed == Trim(clean, {"_"})
           N == Len(name)
<1>1. /\ N \in Nat /\ DOMAIN name = 1 .. N
      /\ \A n \in 1 .. N : name[n] \in Symbols
  BY DEF Text
<1>2. /\ DOMAIN ToLower(name) = 1 .. N
      /\ \A n \in 1 .. N : ToLower(name)[n] = LowerCase[name[n]]
  BY <1>1 DEF ToLower
<1>3. \A n \in Lettered(ToLower(name)) : n \in 1 .. N /\ name[n] \notin {" "}
  <2> SUFFICES ASSUME NEW n \in Lettered(ToLower(name)), name[n] = " "
               PROVE  FALSE
    BY <1>2 DEF Lettered
  <2>1. ToLower(name)[n] = " "
    BY <1>2, LayerAssumption DEF Lettered
  <2> QED
    BY <2>1, FleetAssumption DEF Lettered
<1>4. /\ Letters(lower) = Letters(ToLower(name))
      /\ \E M \in Nat : DOMAIN lower = 1 .. M
  <2>1. CASE /\ TrimSpace(name) = <<>>
             /\ \A n \in 1 .. N : name[n] \in {" "}
    <3>1. Lettered(ToLower(name)) = {}
      BY <1>3, <2>1
    <3>2. DOMAIN lower = 1 .. 0
      <4>1. DOMAIN lower = DOMAIN TrimSpace(name)
        BY DEF ToLower
      <4>2. DOMAIN <<>> = 1 .. 0
        OBVIOUS
      <4> QED
        BY <2>1, <4>1, <4>2
    <3>3. Lettered(lower) = {}
      <4> HIDE DEF lower
      <4> QED
        BY <3>2 DEF Lettered
    <3>4. Letters(lower) = {} /\ Letters(ToLower(name)) = {}
      <4> HIDE DEF lower
      <4> QED
        BY <3>1, <3>3 DEF Letters
    <3> QED
      BY <3>2, <3>4
  <2>2. CASE \E a, b \in 1 .. N :
                 /\ a <= b
                 /\ DOMAIN TrimSpace(name) = 1 .. b - a + 1
                 /\ \A k \in 1 .. b - a + 1 : TrimSpace(name)[k] = name[a + k - 1]
                 /\ \A n \in 1 .. N : name[n] \notin {" "} => n \in a .. b
    <3>1. PICK a, b \in 1 .. N :
                 /\ a <= b
                 /\ DOMAIN TrimSpace(name) = 1 .. b - a + 1
                 /\ \A k \in 1 .. b - a + 1 : TrimSpace(name)[k] = name[a + k - 1]
                 /\ \A n \in 1 .. N : name[n] \notin {" "} => n \in a .. b
      BY <2>2
    <3>2. DOMAIN lower = 1 .. b - a + 1
      BY <3>1 DEF ToLower
    <3>3. ASSUME NEW k \in 1 .. b - a + 1
          PROVE  lower[k] = ToLower(name)[a + k - 1]
      <4>1. a + k - 1 \in 1 .. N
        OBVIOUS
      <4> QED
        BY <1>2, <3>1, <4>1 DEF ToLower
    <3>4. Lettered(ToLower(name)) \subseteq a .. b
      BY <1>3, <3>1
    <3>5. Letters(lower) = Letters(ToLower(name))
      <4> HIDE DEF lower, N
      <4> QED
        BY <1>1, <1>2, <3>1, <3>2, <3>3, <3>4, WindowKeepsLetters
    <3>6. b - a + 1 \in Nat
      <4>1. a \in Int /\ b \in Int
        BY <1>1
      <4>2. a <= b
        BY <3>1
      <4> HIDE DEF N
      <4> QED
        BY <4>1, <4>2
    <3> QED
      BY <3>2, <3>5, <3>6
  <2> QED
    BY <1>1, <2>1, <2>2, TrimIsWindow DEF TrimSpace
<1>5. PICK M \in Nat : DOMAIN lower = 1 .. M
  BY <1>4
<1> HIDE DEF lower
<1>6. Lettered(clean) = Lettered(lower)
  BY DEF Lettered
<1>7. \A n \in Lettered(lower) : clean[n] = lower[n]
  BY DEF Lettered
<1>8. Letters(clean) = Letters(lower)
  <2> HIDE DEF clean
  <2> QED
    BY <1>6, <1>7 DEF Letters
<1>9. DOMAIN clean = 1 .. M
  BY <1>5
<1> HIDE DEF clean
<1>10. \A n \in Lettered(clean) : n \in 1 .. M /\ clean[n] \notin {"_"}
  BY <1>9 DEF Lettered
<1>11. Letters(trimmed) = Letters(clean)
  <2>1. CASE /\ trimmed = <<>>
             /\ \A n \in 1 .. M : clean[n] \in {"_"}
    <3>1. Lettered(clean) = {}
      BY <1>10, <2>1
    <3>2. Lettered(<<>>) = {}
      BY DEF Lettered
    <3> QED
      BY <2>1, <3>1, <3>2 DEF Letters
  <2>2. CASE \E a, b \in 1 .. M :
                 /\ a <= b
                 /\ DOMAIN trimmed = 1 .. b - a + 1
                 /\ \A k \in 1 .. b - a + 1 : trimmed[k] = clean[a + k - 1]
                 /\ \A n \in 1 .. M : clean[n] \notin {"_"} => n \in a .. b
    <3>1. PICK a, b \in 1 .. M :
                 /\ a <= b
                 /\ DOMAIN trimmed = 1 .. b - a + 1
                 /\ \A k \in 1 .. b - a + 1 : trimmed[k] = clean[a + k - 1]
                 /\ \A n \in 1 .. M : clean[n] \notin {"_"} => n \in a .. b
      BY <2>2
    <3>2. Lettered(clean) \subseteq a .. b
      BY <1>10, <3>1
    <3> HIDE DEF trimmed
    <3> QED
      BY <1>9, <3>1, <3>2, WindowKeepsLetters
  <2> QED
    BY <1>9, <2>1, <2>2, TrimIsWindow
<1>12. Essence(name) = EssenceOf(trimmed)
  BY <1>4, <1>8, <1>11 DEF Essence, EssenceOf
<1>13. Namespace(name) = IF trimmed = <<>> THEN <<"default">> ELSE trimmed
  BY DEF Namespace, lower, clean
<1>14. EssenceOf(<<"default">>) = EssenceOf(<<>>)
  <2>1. Lettered(<<>>) = {} /\ Letters(<<>>) = {}
    BY DEF Lettered, Letters
  <2>2. PICK text : text = <<"default">>
    OBVIOUS
  <2>3. DOMAIN text = {1} /\ text[1] = "default"
    BY <2>2
  <2>4. CASE "default" \notin Plain \ {"_", "-"}
    <3>1. Lettered(text) = {}
      <4>1. \A n \in DOMAIN text : n = 1
        BY <2>3
      <4>2. text[1] \notin Plain \ {"_", "-"}
        BY <2>3, <2>4
      <4> QED
        BY <4>1, <4>2 DEF Lettered
    <3> QED
      BY <2>1, <2>2, <3>1 DEF Letters, EssenceOf
  <2>5. CASE "default" \in Plain \ {"_", "-"}
    <3>1. Lettered(text) = {1}
      BY <2>3, <2>5 DEF Lettered
    <3>2. {m \in {1} : m <= 1} = {1} /\ Cardinality({1}) = 1
      BY FS_Singleton
    <3>3. Letters(text) = {<<Cardinality({m \in {1} : m <= n}), text[n]>> : n \in {1}}
      BY <3>1 DEF Letters
    <3>4. Letters(text) = {<<1, "default">>}
      BY <2>3, <3>2, <3>3
    <3> QED
      BY <2>1, <2>2, <3>4 DEF EssenceOf
  <2> QED
    BY <2>4, <2>5
<1> QED
  BY <1>12, <1>13, <1>14

-----------------------------------------------------------------------------
(* Places *)

\* Every setting is a text.
LEMMA SettingsAreTexts ==
    ASSUME NEW label \in DOMAIN Environ, NEW content \in DOMAIN Content, NEW leaf
    PROVE  Setting(Environ[label], Content[content], leaf) \in Text
<1> DEFINE process == Environ[label]
           layers == Layers(process, Content[content])
           variables == process.variables
           naming == Naming(process, leaf)
           setting == {n \in DOMAIN layers : leaf \in DOMAIN layers[n].values}
<1>1. <<>> \in Text
  BY DEF Text
<1>2. /\ Len(variables) \in Nat /\ DOMAIN variables = 1 .. Len(variables)
      /\ \A n \in DOMAIN variables : IsLayer(variables[n].raw)
  <2>1. /\ variables \in Seq(Range(variables))
        /\ \A n \in DOMAIN variables : IsLayer(variables[n].raw)
    BY FleetAssumption
  <2> HIDE DEF variables
  <2> QED
    BY <2>1
<1>3. /\ Len(layers) \in Nat /\ DOMAIN layers = 1 .. Len(layers)
      /\ \A n \in DOMAIN layers : IsLayer(layers[n])
  BY LayersAreLayers
<1>4. CASE naming # {}
  <2>1. naming \in SUBSET Nat /\ \A n \in naming : n <= Len(variables)
    BY <1>2 DEF Naming
  <2>2. Max(naming) \in naming
    <3> HIDE DEF naming, variables
    <3> QED
      BY <1>2, <1>4, <2>1, MaxOf
  <2>3. IsLayer(variables[Max(naming)].raw)
    BY <1>2, <2>2 DEF Naming
  <2> QED
    BY <1>1, <1>4, <2>3 DEF Setting, IsLayer
<1>5. CASE naming = {} /\ setting # {}
  <2>1. setting \in SUBSET Nat /\ \A n \in setting : n <= Len(layers)
    BY <1>3
  <2>2. Max(setting) \in setting
    <3> HIDE DEF setting, layers
    <3> QED
      BY <1>3, <1>5, <2>1, MaxOf
  <2>3. IsLayer(layers[Max(setting)]) /\ leaf \in DOMAIN layers[Max(setting)].values
    BY <1>3, <2>2
  <2> QED
    BY <1>5, <2>3 DEF Setting, IsLayer
<1>6. CASE naming = {} /\ setting = {}
  BY <1>1, <1>6 DEF Setting
<1> QED
  BY <1>4, <1>5, <1>6

\* What an instance makes of a load.
LEMMA LoadedPlaces ==
    ASSUME NEW i \in Instances, NEW in \in Inputs[i], NEW content \in Files[i]
    PROVE  \E values :
              /\ Loaded[i][in][content].store = StorePlace(i, values)
              /\ Loaded[i][in][content].file = FilePlace(i, values)
              /\ Loaded[i][in][content].name = Essence(values[InstanceName])
              /\ values[InstanceName] \in Text
              /\ Loaded[i][in][content].ok \in BOOLEAN
              /\ Loaded[i][in][content].ok =>
                    values = [leaf \in Leaves |-> Setting(Environ[in], Content[content], leaf)]
              /\ Loaded[i][in][content].validStore => Loaded[i][in][content].ok
              /\ Loaded[i][in][content].validClient => Loaded[i][in][content].ok
<1> DEFINE result == GetConfiguration(Environ[in], Content[content])
           settings == [leaf \in Leaves |-> Setting(Environ[in], Content[content], leaf)]
<1>1. in \in DOMAIN Environ /\ content \in DOMAIN Content
  BY FleetAssumption
<1>2. Loads(result, settings)
  BY <1>1, LoadsAreSettings
<1>3. InstanceName \in Leaves
  BY DEF Leaves
<1>4. settings[InstanceName] \in Text
  BY <1>1, <1>3, SettingsAreTexts
<1>5. /\ result.values[InstanceName] \in Text
      /\ result.ok \in BOOLEAN /\ (result.ok => result.values = settings)
  <2> HIDE DEF settings, result
  <2>1. CASE result = Failed
    BY <1>3, <2>1 DEF Failed, Text
  <2>2. CASE result = [ok |-> TRUE, values |-> settings]
    BY <1>4, <2>2
  <2> QED
    BY <1>2, <2>1, <2>2 DEF Loads
<1>6. /\ Loaded[i][in][content].store = StorePlace(i, result.values)
      /\ Loaded[i][in][content].file = FilePlace(i, result.values)
      /\ Loaded[i][in][content].name = Essence(result.values[InstanceName])
      /\ Loaded[i][in][content].ok = result.ok
      /\ Loaded[i][in][content].validStore = (result.ok /\ ValidStore(result.values))
      /\ Loaded[i][in][content].validClient = (result.ok /\ ValidClient(result.values))
  BY DEF Loaded
<1> HIDE DEF result
<1> QED
  BY <1>5, <1>6 DEF settings

\* The places and the name that an instance may have used.
Belongs(i, places) ==
    /\ places = [store |-> places.store, file |-> places.file, name |-> places.name]
    /\ \/ places.store = NoPlace
       \/ \E in \in Inputs[i], content \in Files[i] :
             /\ places.store = Loaded[i][in][content].store
             /\ places.name = Loaded[i][in][content].name
    /\ \/ places.file = NoPlace
       \/ \E in \in Inputs[i], content \in Files[i] :
             places.file = Loaded[i][in][content].file

\* What a load leads to: a Redis key or the memory of the instance, and a file
\* of its own.
LEMMA KindsLoaded ==
    ASSUME NEW i \in Instances, NEW in \in Inputs[i], NEW content \in Files[i]
    PROVE  LET result == Loaded[i][in][content]
           IN  /\ \/ result.store.kind = "redis"
                  \/ result.store.kind = "memory" /\ result.store.host = <<i>>
               /\ result.file.kind = "file" /\ result.file.host = <<i>>
               /\ result.store # NoPlace /\ result.file # NoPlace
<1>1. PICK values : /\ Loaded[i][in][content].store = StorePlace(i, values)
                    /\ Loaded[i][in][content].file = FilePlace(i, values)
  BY LoadedPlaces
<1> QED
  BY <1>1 DEF StorePlace, FilePlace, NoPlace

\* A store is a Redis key or the memory of the instance, a file is its own.
LEMMA KindsOfPlaces ==
    ASSUME NEW i \in Instances, NEW places, Belongs(i, places)
    PROVE  /\ \/ places.store = NoPlace
              \/ places.store.kind = "redis"
              \/ places.store.kind = "memory" /\ places.store.host = <<i>>
           /\ \/ places.file = NoPlace
              \/ places.file.kind = "file" /\ places.file.host = <<i>>
  BY KindsLoaded DEF Belongs

\* Instances that share a Redis key have names with the same letters.
LEMMA SharersAreAlike ==
    ASSUME NEW i \in Instances, NEW places, Belongs(i, places),
           NEW j \in Instances, NEW others, Belongs(j, others),
           places.store.kind = "redis", places.store = others.store
    PROVE  places.name = others.name
<1>1. places.store # NoPlace
  BY DEF NoPlace
<1>2. \A k \in Instances : \A p : Belongs(k, p) /\ p.store.kind = "redis" /\ p.store # NoPlace =>
          p.name = EssenceOf(p.store.key)
  <2> SUFFICES ASSUME NEW k \in Instances, NEW p, Belongs(k, p),
                      p.store.kind = "redis", p.store # NoPlace
               PROVE  p.name = EssenceOf(p.store.key)
    OBVIOUS
  <2>1. PICK values : /\ p.store = StorePlace(k, values)
                      /\ p.name = Essence(values[InstanceName])
                      /\ values[InstanceName] \in Text
    BY LoadedPlaces DEF Belongs
  <2>2. p.store.key = Namespace(values[InstanceName])
    BY <2>1 DEF StorePlace
  <2> QED
    BY <2>1, <2>2, NamespaceTells
<1> QED
  BY <1>1, <1>2

\* Places of two instances differ, but for a Redis key that they share.
LEMMA PlacesApart ==
    ASSUME NEW i \in Instances, NEW places, Belongs(i, places),
           NEW j \in Instances, NEW others, Belongs(j, others), i # j
    PROVE  /\ others.file # NoPlace => others.file \notin {places.store, places.file}
           /\ others.store # NoPlace => others.store # places.file
           /\ others.store # NoPlace /\ others.store = places.store =>
                 others.store.kind = "redis"
  BY KindsOfPlaces DEF NoPlace

\* The store of an instance is not its file.
LEMMA StoreIsNotFile ==
    ASSUME NEW i \in Instances, NEW places, Belongs(i, places),
           NEW others, Belongs(i, others), places.store # NoPlace \/ others.file # NoPlace
    PROVE  places.store # others.file
  BY KindsOfPlaces DEF NoPlace

-----------------------------------------------------------------------------
(* The invariant: what every instance has, whatever it does *)

Domains ==
    /\ DOMAIN file = Instances /\ DOMAIN inputs = Instances /\ DOMAIN phase = Instances
    /\ DOMAIN uses = Instances /\ DOMAIN call = Instances /\ DOMAIN acked = Instances
    /\ DOMAIN home = Instances /\ DOMAIN settled = Instances

\* An instance that was built has a store, a connected one a file, both from
\* loads of its own; only a connected one has a call.
Formed(i) ==
    /\ file[i] \in Files[i]
    /\ phase[i] \in {"down", "built", "listening", "connected", "up"}
    /\ phase[i] \in {"built", "listening"} => inputs[i] \in Inputs[i]
    /\ Belongs(i, uses[i]) /\ Belongs(i, home[i])
    /\ phase[i] = "down" => uses[i] = Nothing
    /\ phase[i] # "down" => StoreOf(i) # NoPlace
    /\ Connected(i) => FileOf(i) # NoPlace
    /\ call[i] = [at |-> call[i].at, list |-> call[i].list]
    /\ call[i].at \in {"none", "seed", "edit"}
    /\ call[i].at # "none" => Connected(i)
    /\ settled[i] \in BOOLEAN

Shape == Domains /\ \A i \in Instances : Formed(i)

\* What instance j has is as it was, but for the ghosts of its list.
Stays(j) ==
    /\ file'[j] = file[j] /\ inputs'[j] = inputs[j] /\ phase'[j] = phase[j]
    /\ uses'[j] = uses[j] /\ call'[j] = call[j] /\ home'[j] = home[j]
    /\ acked'[j] = acked[j]

Acts(i) ==
    \/ EditFile(i) \/ Construct(i) \/ Listen(i) \/ Connect(i) \/ Sync(i) \/ Stop(i)
    \/ Load(i) \/ Seed(i) \/ Answer(i) \/ Save(i)

\* An instance changes nothing of another's but what both see in the lists.
LEMMA OthersStay ==
    ASSUME Domains, NEW i \in Instances, Acts(i)
    PROVE  Domains' /\ \A j \in Instances \ {i} : Stays(j)
<1>1. CASE EditFile(i)
  BY <1>1 DEF EditFile, Domains, Stays, ghostVars
<1>2. ASSUME Ends(i)
      PROVE  Domains' /\ \A j \in Instances \ {i} : Stays(j)
  BY <1>2 DEF Ends, Domains, Stays, ghostVars
<1>3. CASE Construct(i)
  BY <1>2, <1>3 DEF Construct, Domains, Stays, ghostVars
<1>4. CASE Listen(i)
  BY <1>2, <1>4 DEF Listen, Domains, Stays, ghostVars
<1>5. CASE Connect(i)
  BY <1>2, <1>5 DEF Connect, Domains, Stays
<1>6. CASE Sync(i)
  BY <1>6 DEF Sync, Domains, Stays
<1>7. CASE Stop(i)
  BY <1>2, <1>7 DEF Stop
<1>8. CASE Load(i)
  BY <1>8 DEF Load, Domains, Stays, ghostVars
<1>9. CASE Seed(i)
  BY <1>9 DEF Seed, Domains, Stays
<1>10. CASE Answer(i)
  BY <1>10 DEF Answer, Domains, Stays, ghostVars
<1>11. CASE Save(i)
  BY <1>11 DEF Save, Domains, Stays
<1> QED
  BY <1>1, <1>3, <1>4, <1>5, <1>6, <1>7, <1>8, <1>9, <1>10, <1>11 DEF Acts

\* The ghost settled stays Boolean.
LEMMA SettledIsBoolean ==
    ASSUME Shape, NEW i \in Instances, Acts(i)
    PROVE  \A j \in Instances : settled'[j] \in BOOLEAN
<1>1. DOMAIN settled = Instances /\ \A j \in Instances : settled[j] \in BOOLEAN
  BY DEF Shape, Domains, Formed
<1>2. CASE settled' = settled
  BY <1>1, <1>2
<1>3. CASE Connect(i) /\ settled' # settled
  BY <1>1, <1>3 DEF Connect, Ends, ghostVars
<1>4. CASE Seed(i)
  BY <1>1, <1>4 DEF Seed
<1>5. CASE Save(i)
  BY <1>1, <1>5 DEF Save
<1> QED
  BY <1>2, <1>3, <1>4, <1>5
  DEF Acts, EditFile, Construct, Listen, Connect, Sync, Stop, Load, Answer, Ends, ghostVars

\* What an instance has is well formed again after an action of its own.
LEMMA FormedStep ==
    ASSUME Shape, NEW i \in Instances, Acts(i)
    PROVE  Formed(i)'
<1>1. Domains /\ Formed(i)
  BY DEF Shape
<1>2. settled'[i] \in BOOLEAN
  BY SettledIsBoolean
<1>3. CASE EditFile(i)
  BY <1>1, <1>2, <1>3 DEF EditFile, Domains, Formed, Connected, StoreOf, FileOf, ghostVars
<1>4. Belongs(i, Nothing)
  BY DEF Belongs, Nothing
<1>5. ASSUME Ends(i)
      PROVE  Formed(i)'
  BY <1>1, <1>2, <1>4, <1>5 DEF Ends, Domains, Formed, Connected, NoCall, ghostVars
<1>6. CASE Construct(i) /\ ~Ends(i)
  <2>1. uses[i] = Nothing /\ phase[i] = "down"
    BY <1>1, <1>6 DEF Construct, Formed
  <2>2. PICK in \in Inputs[i] :
           LET result == Loaded[i][in][file[i]]
           IN  /\ inputs' = [inputs EXCEPT ![i] = in]
               /\ uses' = [uses EXCEPT ![i].store = result.store, ![i].name = result.name]
               /\ phase' = [phase EXCEPT ![i] = "built"]
               /\ UNCHANGED <<file, lists, call, ghostVars>>
    BY <1>6 DEF Construct
  <2>3. PICK content \in Files[i] : content = file[i]
    BY <1>1 DEF Formed
  <2>4. PICK store, name : /\ store = Loaded[i][in][content].store
                           /\ name = Loaded[i][in][content].name
    OBVIOUS
  <2>5. uses'[i] = [store |-> store, file |-> NoPlace, name |-> name]
    <3>1. uses' = [uses EXCEPT ![i] = [[@ EXCEPT !.store = store] EXCEPT !.name = name]]
      BY <2>2, <2>3, <2>4
    <3>2. uses'[i] = [[uses[i] EXCEPT !.store = store] EXCEPT !.name = name]
      BY <1>1, <3>1 DEF Domains
    <3>3. PICK placed : placed = [Nothing EXCEPT !.store = store]
      OBVIOUS
    <3>4. placed = [store |-> store, file |-> NoPlace, name |-> {}]
      BY <3>3 DEF Nothing
    <3>5. [placed EXCEPT !.name = name] = [store |-> store, file |-> NoPlace, name |-> name]
      BY <3>4
    <3> QED
      BY <2>1, <3>2, <3>3, <3>5
  <2>6. Belongs(i, uses'[i])
    BY <2>3, <2>4, <2>5 DEF Belongs
  <2>7. store # NoPlace
    BY <2>4, KindsLoaded
  <2>8. call'[i] = call[i] /\ file'[i] = file[i] /\ home'[i] = home[i]
        /\ inputs'[i] = in /\ phase'[i] = "built"
    BY <1>1, <2>2 DEF Domains, ghostVars
  <2> QED
    BY <1>1, <1>2, <2>1, <2>5, <2>6, <2>7, <2>8 DEF Formed, Connected, StoreOf, FileOf
<1>7. CASE Listen(i) /\ ~Ends(i)
  BY <1>1, <1>2, <1>7 DEF Listen, Domains, Formed, Connected, StoreOf, FileOf, ghostVars
<1>8. CASE Connect(i) /\ ~Ends(i)
  <2>1. PICK in \in Inputs[i], content \in Files[i] : in = inputs[i] /\ content = file[i]
    BY <1>1, <1>8 DEF Formed, Connect
  <2>2. PICK place : place = Loaded[i][in][content].file
    OBVIOUS
  <2>3. /\ uses' = [uses EXCEPT ![i].file = place]
        /\ phase'[i] = "connected" /\ phase[i] = "listening"
        /\ call'[i] = call[i] /\ file'[i] = file[i] /\ home'[i] = home[i]
    BY <1>1, <1>8, <2>1, <2>2 DEF Connect, Domains
  <2>4. uses'[i] = [store |-> uses[i].store, file |-> place, name |-> uses[i].name]
    <3>1. uses[i] = [store |-> uses[i].store, file |-> uses[i].file, name |-> uses[i].name]
      BY <1>1 DEF Formed, Belongs
    <3> QED
      BY <1>1, <2>3, <3>1 DEF Domains
  <2>5. Belongs(i, uses'[i])
    BY <1>1, <2>1, <2>2, <2>4 DEF Formed, Belongs
  <2>6. place # NoPlace
    BY <2>2, KindsLoaded
  <2> QED
    BY <1>1, <1>2, <2>3, <2>4, <2>5, <2>6 DEF Formed, Connected, StoreOf, FileOf
<1>9. CASE Sync(i)
  <2>1. PICK places : places = home'[i]
    OBVIOUS
  <2>2. \/ places = home[i]
        \/ places = [store |-> home[i].store, file |-> uses[i].file, name |-> home[i].name]
    <3>1. home[i] = [store |-> home[i].store, file |-> home[i].file, name |-> home[i].name]
      BY <1>1 DEF Formed, Belongs
    <3> QED
      BY <1>1, <1>9, <2>1, <3>1 DEF Sync, Domains, FileOf
  <2>3. Belongs(i, places)
    BY <1>1, <2>2 DEF Formed, Belongs
  <2> QED
    BY <1>1, <1>2, <1>9, <2>1, <2>3 DEF Sync, Domains, Formed, Connected, StoreOf, FileOf
<1>10. CASE Stop(i)
  BY <1>5, <1>10 DEF Stop
<1>11. CASE Load(i)
  BY <1>1, <1>2, <1>11 DEF Load, Domains, Formed, Connected, StoreOf, FileOf, ghostVars
<1>12. CASE Seed(i)
  <2>1. PICK places : places = home'[i]
    OBVIOUS
  <2>2. places = [store |-> uses[i].store, file |-> home[i].file, name |-> uses[i].name]
    <3>1. home[i] = [store |-> home[i].store, file |-> home[i].file, name |-> home[i].name]
      BY <1>1 DEF Formed, Belongs
    <3> QED
      BY <1>1, <1>12, <2>1, <3>1 DEF Seed, Domains, StoreOf
  <2>3. Belongs(i, places)
    BY <1>1, <2>2 DEF Formed, Belongs
  <2>4. PICK list : list = call[i].list
    OBVIOUS
  <2>5. call'[i] = [at |-> "edit", list |-> list] /\ call[i].at = "seed"
    <3>1. call[i] = [at |-> call[i].at, list |-> list]
      BY <1>1, <2>4 DEF Formed
    <3> QED
      BY <1>1, <1>12, <3>1 DEF Seed, Domains
  <2> QED
    BY <1>1, <1>2, <1>12, <2>1, <2>3, <2>5 DEF Seed, Domains, Formed, Connected, StoreOf, FileOf
<1>13. CASE Answer(i)
  BY <1>1, <1>2, <1>13 DEF Answer, Domains, Formed, Connected, StoreOf, FileOf, NoCall, ghostVars
<1>14. CASE Save(i)
  BY <1>1, <1>2, <1>14 DEF Save, Domains, Formed, Connected, StoreOf, FileOf, NoCall
<1> QED
  BY <1>3, <1>5, <1>6, <1>7, <1>8, <1>9, <1>10, <1>11, <1>12, <1>13, <1>14 DEF Acts

\* Every step keeps what every instance has well formed.
LEMMA ShapeStep ==
    ASSUME Shape, [Next]_vars
    PROVE  Shape'
<1>1. ASSUME NEW i \in Instances, Acts(i)
      PROVE  Shape'
  <2>1. Domains' /\ \A j \in Instances \ {i} : Stays(j)
    BY <1>1, OthersStay DEF Shape
  <2>2. Formed(i)'
    BY <1>1, FormedStep
  <2>3. ASSUME NEW j \in Instances \ {i}
        PROVE  Formed(j)'
    BY <1>1, <2>1, <2>3, SettledIsBoolean
    DEF Shape, Formed, Stays, Connected, StoreOf, FileOf
  <2> QED
    BY <2>1, <2>2, <2>3 DEF Shape
<1>2. CASE UNCHANGED vars
  BY <1>2 DEF vars, ghostVars, Shape, Domains, Formed, Connected, StoreOf, FileOf
<1> QED
  BY <1>1, <1>2 DEF Next, Acts

\* The first state is well formed.
LEMMA ShapeInit == Init => Shape
<1> SUFFICES ASSUME Init PROVE Shape
  OBVIOUS
<1>1. \A i \in Instances : Belongs(i, Nothing)
  BY DEF Belongs, Nothing
<1> QED
  BY <1>1, FleetAssumption DEF Init, Shape, Domains, Formed, Connected, NoCall

\* Whatever the instances do, what each has is well formed.
THEOREM InstancesAreFormed == Spec => []Shape
  BY ShapeInit, ShapeStep, PTL DEF Spec

-----------------------------------------------------------------------------
(* The places of an instance are those that its configuration means *)

\* What Precedence says of a step of one instance.
LEMMA PrecedenceStep ==
    ASSUME Shape, [Next]_vars, NEW i \in Instances,
           NEW in, in = IF phase[i] = "down" THEN inputs'[i] ELSE inputs[i],
           NEW meant,
           meant = [leaf \in Leaves |-> Setting(Environ[in], Content[file[i]], leaf)]
    PROVE  /\ uses'[i].store # uses[i].store /\ phase'[i] = "built"
                 => uses'[i].store = StorePlace(i, meant)
           /\ uses'[i].file # uses[i].file /\ phase'[i] = "connected"
                 => uses'[i].file = FilePlace(i, meant)
<1>1. Domains /\ Formed(i) /\ file[i] \in Files[i]
  BY DEF Shape, Formed
<1>2. CASE uses'[i] = uses[i] \/ phase'[i] = "down"
  BY <1>2
<1>3. CASE Construct(i) /\ ~Ends(i)
  <2>1. PICK begun \in Inputs[i] :
           LET result == Loaded[i][begun][file[i]]
           IN  /\ result.validStore
               /\ inputs' = [inputs EXCEPT ![i] = begun]
               /\ uses' = [uses EXCEPT ![i].store = result.store, ![i].name = result.name]
               /\ phase' = [phase EXCEPT ![i] = "built"]
    BY <1>3 DEF Construct
  <2>2. phase[i] = "down" /\ phase'[i] = "built" /\ inputs'[i] = begun
    BY <1>1, <1>3, <2>1 DEF Construct, Domains
  <2>3. in = begun
    BY <2>2
  <2>4. Loaded[i][begun][file[i]].store = StorePlace(i, meant)
    BY <1>1, <2>1, <2>3, LoadedPlaces
  <2>5. PICK store, name : store = Loaded[i][begun][file[i]].store
                           /\ name = Loaded[i][begun][file[i]].name
    OBVIOUS
  <2>6. uses'[i] = [[uses[i] EXCEPT !.store = store] EXCEPT !.name = name]
    <3>1. uses' = [uses EXCEPT ![i] = [[@ EXCEPT !.store = store] EXCEPT !.name = name]]
      BY <2>1, <2>5
    <3> QED
      BY <1>1, <3>1 DEF Domains
  <2>7. uses'[i].store = store
    <3>1. uses[i] = [store |-> uses[i].store, file |-> uses[i].file, name |-> uses[i].name]
      BY <1>1 DEF Formed, Belongs
    <3>2. PICK placed : placed = [uses[i] EXCEPT !.store = store]
      OBVIOUS
    <3>3. placed = [store |-> store, file |-> uses[i].file, name |-> uses[i].name]
      BY <3>1, <3>2
    <3>4. [placed EXCEPT !.name = name].store = store
      BY <3>3
    <3> QED
      BY <2>6, <3>2, <3>4
  <2> QED
    BY <2>2, <2>4, <2>5, <2>7
<1>4. CASE Connect(i) /\ ~Ends(i)
  <2>1. PICK place : place = Loaded[i][inputs[i]][file[i]].file
    OBVIOUS
  <2>2. /\ Loaded[i][inputs[i]][file[i]].validClient
        /\ uses' = [uses EXCEPT ![i].file = place]
        /\ phase'[i] = "connected" /\ phase[i] = "listening"
    BY <1>1, <1>4, <2>1 DEF Connect, Domains
  <2>3. inputs[i] \in Inputs[i] /\ in = inputs[i]
    BY <1>1, <2>2 DEF Formed
  <2>4. place = FilePlace(i, meant)
    BY <1>1, <2>1, <2>2, <2>3, LoadedPlaces
  <2>5. uses'[i] = [store |-> uses[i].store, file |-> place, name |-> uses[i].name]
    <3>1. uses[i] = [store |-> uses[i].store, file |-> uses[i].file, name |-> uses[i].name]
      BY <1>1 DEF Formed, Belongs
    <3> QED
      BY <1>1, <2>2, <3>1 DEF Domains
  <2> QED
    BY <2>2, <2>4, <2>5
<1>5. ASSUME NEW j \in Instances, Acts(j)
      PROVE  \/ uses'[i] = uses[i] \/ phase'[i] = "down"
             \/ (Construct(i) \/ Connect(i)) /\ ~Ends(i)
  <2>1. CASE j # i
    BY <1>1, <1>5, <2>1, OthersStay DEF Stays
  <2>2. ASSUME Ends(i)
        PROVE  phase'[i] = "down"
    BY <1>1, <2>2 DEF Ends, Domains
  <2>3. CASE j = i
    BY <1>5, <2>2, <2>3
    DEF Acts, EditFile, Listen, Sync, Stop, Load, Seed, Answer, Save
  <2> QED
    BY <2>1, <2>3
<1>6. CASE UNCHANGED vars
  BY <1>2, <1>6 DEF vars
<1> QED
  BY <1>2, <1>3, <1>4, <1>5, <1>6 DEF Next, Acts

\* In every behaviour the store and the file that an instance comes to use are
\* those of the settings that its variables, the layers and the flag mean,
\* whatever was edited between the loads.
THEOREM PlacesAreMeant == Spec => Precedence
<1>1. Shape /\ [Next]_vars =>
        [\A i \in Instances :
          LET in == IF phase[i] = "down" THEN inputs'[i] ELSE inputs[i]
              meant == [leaf \in Leaves |-> Setting(Environ[in], Content[file[i]], leaf)]
          IN  /\ uses'[i].store # uses[i].store /\ phase'[i] = "built"
                    => uses'[i].store = StorePlace(i, meant)
              /\ uses'[i].file # uses[i].file /\ phase'[i] = "connected"
                    => uses'[i].file = FilePlace(i, meant)]_vars
  BY PrecedenceStep
<1> QED
  BY <1>1, InstancesAreFormed, PTL DEF Spec, Precedence

-----------------------------------------------------------------------------
(* The list of an instance stays with it *)

\* While nothing but its own acknowledgements is to be seen, the places that
\* outlive an instance, what it shows and the call under way hold the list.
Kept(i) ==
    settled[i] =>
      /\ home[i].store.kind = "redis" => ListAt(home[i].store) = acked[i]
      /\ home[i].file # NoPlace => ListAt(home[i].file) = acked[i]
      /\ Connected(i) => Effective(i) = acked[i]
      /\ call[i].at # "none" => call[i].list = acked[i]

AllKept == \A i \in Instances : Kept(i)

\* A step writes to no place but these.
WritesOnly(places) == \A p : p \notin places => ListAt(p)' = ListAt(p)

\* What is put is found, and nothing else is touched.
LEMMA PutWrites ==
    ASSUME NEW list, NEW places, lists' = Put(list, places)
    PROVE  /\ \A p \in places : ListAt(p)' = list
           /\ WritesOnly(places)
  BY DEF Put, WritesOnly, ListAt

\* A process that ends takes no list that outlives it.
LEMMA EndsWrites ==
    ASSUME NEW i \in Instances, Ends(i)
    PROVE  WritesOnly({p \in DOMAIN lists : p.kind = "memory" /\ p.host = <<i>>})
<1>1. lists' = [p \in {q \in DOMAIN lists : ~(q.kind = "memory" /\ q.host = <<i>>)} |-> lists[p]]
  BY DEF Ends
<1> QED
  BY <1>1 DEF WritesOnly, ListAt

\* An instance keeps its list when the writes of a step miss its places.
LEMMA UntouchedKept ==
    ASSUME Shape, NEW j \in Instances, Kept(j), Stays(j),
           settled'[j] => settled[j], NEW places, WritesOnly(places),
           settled'[j] =>
             /\ home[j].store.kind = "redis" => home[j].store \notin places
             /\ home[j].file # NoPlace => home[j].file \notin places
             /\ Connected(j) => StoreOf(j) \notin places /\ FileOf(j) \notin places
    PROVE  Kept(j)'
<1> SUFFICES ASSUME settled'[j] PROVE Kept(j)'
  BY DEF Kept
<1>1. /\ home[j].store.kind = "redis" => ListAt(home[j].store) = acked[j]
      /\ home[j].file # NoPlace => ListAt(home[j].file) = acked[j]
      /\ Connected(j) => Effective(j) = acked[j]
      /\ call[j].at # "none" => call[j].list = acked[j]
  BY DEF Kept
<1>2. \A p : p \notin places =>
         (IF p \in DOMAIN lists' THEN lists'[p] ELSE {}) = ListAt(p)
  BY DEF WritesOnly, ListAt
<1>3. home[j].store.kind = "redis" => ListAt(home[j].store)' = acked'[j]
  BY <1>1, <1>2 DEF Stays, ListAt
<1>4. home[j].file # NoPlace => ListAt(home[j].file)' = acked'[j]
  BY <1>1, <1>2 DEF Stays, ListAt
<1>5. Connected(j) => Effective(j)' = acked'[j]
  BY <1>1, <1>2 DEF Stays, ListAt, Effective, StoreOf, FileOf
<1> QED
  BY <1>1, <1>3, <1>4, <1>5 DEF Kept, Stays, Connected

\* The places of another instance are missed by a write to the file, and to
\* the store unless a like name disturbs it there.
LEMMA ElsewhereKept ==
    ASSUME Shape, NEW i \in Instances, NEW j \in Instances, i # j, Connected(i),
           Kept(j), Stays(j), NEW places, WritesOnly(places),
           settled'[j] => settled[j],
           \/ places = {}
           \/ places = {FileOf(i)}
           \/ /\ places \in {{StoreOf(i)}, {FileOf(i), StoreOf(i)}}
              /\ settled'[j] => j \notin Disturbed(i)
    PROVE  Kept(j)'
<1>1. Belongs(i, uses[i]) /\ Belongs(j, uses[j]) /\ Belongs(j, home[j])
  BY DEF Shape, Formed
<1>2. FileOf(i) # NoPlace /\ StoreOf(i) # NoPlace
  BY DEF Shape, Formed, Connected
<1>3. Connected(j) => phase[j] # "down" /\ FileOf(j) # NoPlace /\ StoreOf(j) # NoPlace
  BY DEF Shape, Formed, Connected
<1>4. /\ home[j].file # NoPlace => home[j].file \notin {StoreOf(i), FileOf(i)}
      /\ FileOf(j) # NoPlace => FileOf(j) \notin {StoreOf(i), FileOf(i)}
      /\ StoreOf(j) # NoPlace => StoreOf(j) # FileOf(i)
      /\ home[j].store # NoPlace => home[j].store # FileOf(i)
  BY <1>1, PlacesApart DEF StoreOf, FileOf
<1>5. home[j].store.kind = "redis" /\ home[j].store = StoreOf(i) => j \in Disturbed(i)
  <2>1. home[j].store.kind = "redis" /\ home[j].store = StoreOf(i) => home[j].name = uses[i].name
    BY <1>1, SharersAreAlike DEF StoreOf
  <2> QED
    BY <2>1 DEF Disturbed
<1>6. Connected(j) /\ StoreOf(j) = StoreOf(i) => j \in Disturbed(i)
  <2>1. Connected(j) /\ StoreOf(j) = StoreOf(i) => StoreOf(i).kind = "redis"
    BY <1>1, <1>3, PlacesApart DEF StoreOf
  <2>2. Connected(j) /\ StoreOf(j) = StoreOf(i) => uses[j].name = uses[i].name
    BY <1>1, <2>1, SharersAreAlike DEF StoreOf
  <2> QED
    BY <1>3, <2>1, <2>2 DEF Disturbed
<1>7. home[j].store.kind = "redis" => home[j].store # NoPlace
  BY DEF NoPlace
<1>8. settled'[j] =>
        /\ home[j].store.kind = "redis" => home[j].store \notin places
        /\ home[j].file # NoPlace => home[j].file \notin places
        /\ Connected(j) => StoreOf(j) \notin places /\ FileOf(j) \notin places
  BY <1>3, <1>4, <1>5, <1>6, <1>7
<1> QED
  BY <1>8, UntouchedKept

\* A process that ends leaves every list that outlives it.
LEMMA EndsKept ==
    ASSUME Shape, AllKept, NEW i \in Instances, Ends(i),
           \A j \in Instances \ {i} : Stays(j)
    PROVE  AllKept'
<1> DEFINE places == {p \in DOMAIN lists : p.kind = "memory" /\ p.host = <<i>>}
<1>1. WritesOnly(places)
  BY EndsWrites
<1>2. settled' = settled /\ acked' = acked /\ home' = home
  BY DEF Ends, ghostVars
<1>3. \A j \in Instances : Belongs(j, uses[j]) /\ Belongs(j, home[j])
  BY DEF Shape, Formed
<1>4. \A j \in Instances : home[j].file # NoPlace => home[j].file \notin places
  BY <1>3, KindsOfPlaces
<1>5. \A j \in Instances : home[j].store.kind = "redis" => home[j].store \notin places
  OBVIOUS
<1>6. ASSUME NEW j \in Instances \ {i}
      PROVE  Kept(j)'
  <2>1. Connected(j) => FileOf(j) # NoPlace /\ StoreOf(j) # NoPlace
    BY DEF Shape, Formed, Connected
  <2>2. Connected(j) => StoreOf(j) \notin places /\ FileOf(j) \notin places
    BY <1>3, <2>1, KindsOfPlaces DEF StoreOf, FileOf
  <2>3. Kept(j) /\ Stays(j)
    BY DEF AllKept
  <2> HIDE DEF places
  <2> QED
    BY <1>1, <1>2, <1>4, <1>5, <2>2, <2>3, UntouchedKept
<1>7. Kept(i)'
  <2>1. phase'[i] = "down" /\ call'[i].at = "none"
    BY DEF Ends, Shape, Domains, NoCall
  <2>2. Kept(i)
    BY DEF AllKept
  <2>3. \A p : p \notin places =>
           (IF p \in DOMAIN lists' THEN lists'[p] ELSE {}) = ListAt(p)
    BY <1>1 DEF WritesOnly, ListAt
  <2> HIDE DEF places
  <2> QED
    BY <1>2, <1>4, <1>5, <2>1, <2>2, <2>3 DEF Kept, Connected, ListAt
<1> QED
  BY <1>6, <1>7 DEF AllKept

\* An instance that comes to use its file is settled only if it finds its list
\* there or in its store.
LEMMA ConnectKept ==
    ASSUME Shape, NEW i \in Instances, Kept(i), Connect(i), ~Ends(i)
    PROVE  Kept(i)'
<1>1. Domains /\ Formed(i)
  BY DEF Shape
<1>2. PICK in \in Inputs[i], content \in Files[i] : in = inputs[i] /\ content = file[i]
  BY <1>1 DEF Formed, Connect
<1>3. PICK place : place = Loaded[i][in][content].file
  OBVIOUS
<1>4. /\ uses' = [uses EXCEPT ![i].file = place]
      /\ phase[i] = "listening"
      /\ settled' = [settled EXCEPT ![i] = @ /\ Carried(i, StoreOf(i), place)]
      /\ UNCHANGED <<lists, call, acked, home>>
  BY <1>1, <1>2, <1>3, <1>1 DEF Connect
<1>5. uses'[i] = [store |-> uses[i].store, file |-> place, name |-> uses[i].name]
  <2>1. uses[i] = [store |-> uses[i].store, file |-> uses[i].file, name |-> uses[i].name]
    BY <1>1 DEF Formed, Belongs
  <2> QED
    BY <1>1, <1>4, <2>1 DEF Domains
<1>6. settled'[i] => settled[i] /\ Carried(i, StoreOf(i), place)
  BY <1>1, <1>4 DEF Domains
<1>7. call'[i].at = "none"
  BY <1>1, <1>4 DEF Formed, Connected
<1>8. place # NoPlace
  BY <1>3, KindsLoaded
<1>9. ASSUME settled'[i]
      PROVE  Effective(i)' = acked'[i]
  <2>1. Effective(i)' = IF ListAt(uses[i].store) # {} THEN ListAt(uses[i].store) ELSE ListAt(place)
    BY <1>4, <1>5 DEF Effective, ListAt, StoreOf, FileOf
  <2>2. /\ home[i].store.kind = "redis" => ListAt(home[i].store) = acked[i]
        /\ home[i].file # NoPlace => ListAt(home[i].file) = acked[i]
    BY <1>6, <1>9 DEF Kept
  <2> QED
    BY <1>4, <1>6, <1>8, <1>9, <2>1, <2>2 DEF Carried, ListAt, StoreOf
<1> QED
  BY <1>4, <1>6, <1>7, <1>9 DEF Kept, ListAt

\* The file comes to hold the list that the store holds, which is the one shown.
LEMMA SyncKept ==
    ASSUME Shape, NEW i \in Instances, Kept(i), Sync(i)
    PROVE  Kept(i)' /\ (WritesOnly({FileOf(i)}) \/ WritesOnly({}))
<1>1. Domains /\ Formed(i) /\ Connected(i) /\ call[i].at = "none"
  BY DEF Shape, Sync, Connected, NoCall
<1>2. PICK store, place : store = StoreOf(i) /\ place = FileOf(i)
  OBVIOUS
<1>3. store # NoPlace /\ place # NoPlace /\ store # place
  BY <1>1, <1>2, StoreIsNotFile DEF Formed, Connected, StoreOf, FileOf
<1>4. uses' = uses /\ call' = call /\ acked' = acked /\ settled' = settled
  BY DEF Sync
<1>5. CASE ListAt(store) = {}
  <2>1. lists' = lists /\ home' = home
    BY <1>2, <1>5 DEF Sync
  <2> QED
    BY <1>1, <1>4, <2>1 DEF Kept, Effective, StoreOf, FileOf, ListAt, Connected, WritesOnly
<1>6. CASE ListAt(store) # {}
  <2>1. PICK list : list = ListAt(store)
    OBVIOUS
  <2>2. lists' = Put(list, {place}) /\ home' = [home EXCEPT ![i].file = place]
    BY <1>2, <1>6, <2>1 DEF Sync
  <2>3. ListAt(place)' = list /\ WritesOnly({place})
    BY <2>2, PutWrites
  <2>4. \A p : p # place => (IF p \in DOMAIN lists' THEN lists'[p] ELSE {}) = ListAt(p)
    BY <2>3 DEF WritesOnly, ListAt
  <2>5. home'[i] = [store |-> home[i].store, file |-> place, name |-> home[i].name]
    <3>1. home[i] = [store |-> home[i].store, file |-> home[i].file, name |-> home[i].name]
      BY <1>1 DEF Formed, Belongs
    <3> QED
      BY <1>1, <2>2, <3>1 DEF Domains
  <2>6. settled[i] => list = acked[i]
    BY <1>1, <1>2, <1>6, <2>1 DEF Kept, Effective
  <2>7. home[i].store # NoPlace => home[i].store # place
    BY <1>1, <1>2, <1>3, StoreIsNotFile DEF Formed, FileOf
  <2>8. home[i].store.kind = "redis" => home[i].store # NoPlace
    BY DEF NoPlace
  <2>9. settled[i] /\ home[i].store.kind = "redis" => ListAt(home[i].store)' = acked[i]
    BY <2>4, <2>5, <2>7, <2>8 DEF Kept, ListAt
  <2>10. settled[i] => ListAt(home[i].file)' = acked[i]
    BY <2>3, <2>5, <2>6 DEF ListAt
  <2>11. settled[i] => Effective(i)' = acked[i]
    BY <1>2, <1>3, <1>4, <1>6, <2>1, <2>4, <2>6 DEF Effective, StoreOf, FileOf, ListAt
  <2>12. Kept(i)'
    BY <1>1, <1>4, <2>5, <2>9, <2>10, <2>11 DEF Kept
  <2> QED
    BY <1>2, <2>3, <2>12
<1> QED
  BY <1>5, <1>6

\* A call reads the list that is shown.
LEMMA LoadKept ==
    ASSUME Shape, NEW i \in Instances, Kept(i), Load(i)
    PROVE  Kept(i)'
<1>1. DOMAIN call = Instances /\ Connected(i)
  BY DEF Shape, Domains, Load
<1>2. call'[i].list = Effective(i)
  BY <1>1 DEF Load, Effective
<1> QED
  BY <1>1, <1>2 DEF Load, ghostVars, Kept, Connected, Effective, StoreOf, FileOf, ListAt

\* The seed of a store is the list that was shown.
LEMMA SeedKept ==
    ASSUME Shape, NEW i \in Instances, Kept(i), Seed(i)
    PROVE  Kept(i)' /\ WritesOnly({StoreOf(i)})
<1>1. Domains /\ Formed(i) /\ Connected(i)
  BY DEF Shape, Seed, Formed
<1>2. PICK store, place, list : store = StoreOf(i) /\ place = FileOf(i) /\ list = call[i].list
  OBVIOUS
<1>3. store # NoPlace /\ place # NoPlace /\ store # place
  BY <1>1, <1>2, StoreIsNotFile DEF Formed, Connected, StoreOf, FileOf
<1>4. /\ uses' = uses /\ acked' = acked /\ phase' = phase
      /\ lists' = Put(list, {store})
      /\ home' = [home EXCEPT ![i].store = store, ![i].name = uses[i].name]
      /\ settled'[i] => settled[i]
  BY <1>2 DEF Seed
<1>5. ListAt(store)' = list /\ WritesOnly({store})
  BY <1>4, PutWrites
<1>6. \A p : p # store => (IF p \in DOMAIN lists' THEN lists'[p] ELSE {}) = ListAt(p)
  BY <1>5 DEF WritesOnly, ListAt
<1>7. home'[i] = [store |-> store, file |-> home[i].file, name |-> uses[i].name]
  <2>1. home[i] = [store |-> home[i].store, file |-> home[i].file, name |-> home[i].name]
    BY <1>1 DEF Formed, Belongs
  <2> QED
    BY <1>1, <1>4, <2>1 DEF Domains
<1>8. call'[i].list = list
  <2>1. call[i] = [at |-> call[i].at, list |-> list]
    BY <1>1, <1>2 DEF Formed
  <2> QED
    BY <1>1, <2>1 DEF Seed, Domains
<1>9. settled[i] =>
        /\ home[i].file # NoPlace => ListAt(home[i].file) = acked[i]
        /\ Effective(i) = acked[i]
        /\ list = acked[i]
  BY <1>1, <1>2 DEF Kept, Seed
<1>10. home[i].file # NoPlace => home[i].file # store
  BY <1>1, <1>2, <1>3, StoreIsNotFile DEF Formed, StoreOf
<1>11. settled[i] /\ home[i].file # NoPlace => ListAt(home[i].file)' = acked[i]
  BY <1>6, <1>7, <1>9, <1>10 DEF ListAt
<1>12. settled[i] => ListAt(home[i].store)' = acked[i]
  BY <1>5, <1>7, <1>9 DEF ListAt
<1>13. settled[i] => Effective(i)' = acked[i]
  <2>1. Effective(i)' = IF list # {} THEN list ELSE ListAt(place)
    BY <1>2, <1>3, <1>4, <1>5, <1>6 DEF Effective, StoreOf, FileOf, ListAt
  <2> QED
    BY <1>2, <1>9, <2>1 DEF Effective
<1> QED
  BY <1>2, <1>4, <1>5, <1>7, <1>8, <1>9, <1>11, <1>12, <1>13 DEF Kept

\* What is saved is in both places, and is shown.
LEMMA SaveKept ==
    ASSUME Shape, NEW i \in Instances, Save(i)
    PROVE  Kept(i)' /\ WritesOnly({FileOf(i), StoreOf(i)})
<1>1. Domains
  BY DEF Shape
<1>2. PICK store, place : store = StoreOf(i) /\ place = FileOf(i)
  OBVIOUS
<1>3. PICK list : lists' = Put(list, {place, store}) /\ acked' = [acked EXCEPT ![i] = list]
  BY <1>2 DEF Save
<1>4. ListAt(store)' = list /\ ListAt(place)' = list /\ WritesOnly({place, store})
  BY <1>3, PutWrites
<1>5. acked'[i] = list /\ home'[i] = uses[i] /\ uses'[i] = uses[i] /\ call'[i].at = "none"
  BY <1>1, <1>3 DEF Save, Domains, NoCall
<1>6. ListAt(home[i].store)' = list /\ ListAt(home[i].file)' = list
  BY <1>2, <1>4, <1>5 DEF ListAt, StoreOf, FileOf
<1>7. Effective(i)' = list
  BY <1>2, <1>4, <1>5 DEF Effective, ListAt, StoreOf, FileOf
<1> QED
  BY <1>2, <1>4, <1>5, <1>6, <1>7 DEF Kept

\* Every step keeps the list of every settled instance.
LEMMA KeptStep ==
    ASSUME Shape, AllKept, [Next]_vars
    PROVE  AllKept'
<1>1. ASSUME NEW i \in Instances, Acts(i)
      PROVE  AllKept'
  <2>1. Domains /\ \A j \in Instances \ {i} : Stays(j)
    BY <1>1, OthersStay DEF Shape
  <2>2. \A j \in Instances : Kept(j)
    BY DEF AllKept
  <2>3. CASE Ends(i)
    BY <2>1, <2>3, EndsKept
  <2>4. ASSUME Connected(i), Kept(i)', NEW places, WritesOnly(places),
               \/ places = {} /\ settled' = settled
               \/ places = {FileOf(i)} /\ settled' = settled
               \/ /\ places \in {{StoreOf(i)}, {FileOf(i), StoreOf(i)}}
                  /\ \A j \in Instances \ {i} : settled'[j] => settled[j] /\ j \notin Disturbed(i)
        PROVE  AllKept'
    <3>1. ASSUME NEW j \in Instances \ {i}
          PROVE  Kept(j)'
      BY <2>1, <2>2, <2>4, ElsewhereKept
    <3> QED
      BY <2>4, <3>1 DEF AllKept
  <2>5. ASSUME lists' = lists, Kept(i)',
               \A j \in Instances \ {i} : settled'[j] => settled[j]
        PROVE  AllKept'
    <3>1. WritesOnly({})
      BY <2>5 DEF WritesOnly, ListAt
    <3>2. ASSUME NEW j \in Instances \ {i}
          PROVE  Kept(j)'
      BY <2>1, <2>2, <2>5, <3>1, UntouchedKept
    <3> QED
      BY <2>5, <3>2 DEF AllKept
  <2>6. CASE EditFile(i) \/ Answer(i)
    <3>1. /\ uses' = uses /\ lists' = lists /\ phase' = phase
          /\ acked' = acked /\ home' = home /\ settled' = settled
          /\ call'[i] = call[i] \/ call'[i].at = "none"
      BY <2>1, <2>6 DEF EditFile, Answer, Domains, NoCall, ghostVars
    <3>2. Effective(i)' = Effective(i)
      BY <3>1 DEF Effective, StoreOf, FileOf, ListAt
    <3>3. Kept(i)'
      BY <2>2, <3>1, <3>2 DEF Kept, Connected, ListAt
    <3> QED
      BY <2>5, <3>1, <3>3
  <2>7. CASE (Construct(i) \/ Listen(i)) /\ ~Ends(i)
    <3>1. /\ lists' = lists /\ call' = call /\ acked' = acked /\ home' = home
          /\ settled' = settled /\ phase'[i] \in {"built", "listening"}
      BY <2>1, <2>7 DEF Construct, Listen, Domains, ghostVars
    <3>2. Kept(i)'
      BY <2>2, <3>1 DEF Kept, Connected, ListAt
    <3> QED
      BY <2>5, <3>1, <3>2
  <2>8. CASE Connect(i) /\ ~Ends(i)
    <3>1. Kept(i)'
      BY <2>2, <2>8, ConnectKept
    <3>2. lists' = lists /\ \A j \in Instances \ {i} : settled'[j] => settled[j]
      BY <2>1, <2>8 DEF Connect, Domains
    <3> QED
      BY <2>5, <3>1, <3>2
  <2>9. CASE Sync(i)
    <3>1. Kept(i)' /\ (WritesOnly({FileOf(i)}) \/ WritesOnly({}))
      BY <2>2, <2>9, SyncKept
    <3>2. Connected(i) /\ settled' = settled
      BY <2>9 DEF Sync, Connected
    <3> QED
      BY <2>4, <3>1, <3>2
  <2>10. CASE Stop(i)
    BY <2>3, <2>10 DEF Stop
  <2>11. CASE Load(i)
    BY <2>2, <2>5, <2>11, LoadKept DEF Load, ghostVars
  <2>12. CASE Seed(i)
    <3>1. Kept(i)' /\ WritesOnly({StoreOf(i)})
      BY <2>2, <2>12, SeedKept
    <3>2. Connected(i)
      BY <2>12 DEF Shape, Formed, Seed
    <3>3. \A j \in Instances \ {i} : settled'[j] => settled[j] /\ j \notin Disturbed(i)
      BY <2>12 DEF Seed
    <3> QED
      BY <2>4, <3>1, <3>2, <3>3
  <2>13. CASE Save(i)
    <3>1. Kept(i)' /\ WritesOnly({FileOf(i), StoreOf(i)})
      BY <2>13, SaveKept
    <3>2. Connected(i)
      BY <2>13 DEF Shape, Formed, Save
    <3>3. \A j \in Instances \ {i} : settled'[j] => settled[j] /\ j \notin Disturbed(i)
      BY <2>13 DEF Save
    <3> QED
      BY <2>4, <3>1, <3>2, <3>3
  <2> QED
    BY <1>1, <2>3, <2>6, <2>7, <2>8, <2>9, <2>10, <2>11, <2>12, <2>13 DEF Acts
<1>2. CASE UNCHANGED vars
  BY <1>2 DEF vars, ghostVars, AllKept, Kept, Connected, Effective, StoreOf, FileOf, ListAt
<1> QED
  BY <1>1, <1>2 DEF Next, Acts

\* However many instances there are and whatever they are called, through
\* restarts, moves and edits, an instance that nothing else disturbed shows the
\* list it acknowledged last.
THEOREM OwnListStays == Spec => []OwnListKept
<1>1. Init => AllKept
  BY DEF Init, AllKept, Kept, Connected, Nothing, NoPlace, NoCall
<1>2. AllKept => OwnListKept
  BY DEF AllKept, Kept, OwnListKept
<1> QED
  BY <1>1, <1>2, KeptStep, InstancesAreFormed, PTL DEF Spec
=============================================================================
