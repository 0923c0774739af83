----------------------- MODULE ConfigurationApiProofs -----------------------
(***************************************************************************)
(* Proofs about ConfigurationApi, for any messages and texts.  The first   *)
(* part is about the backends of a message, which go through a loop; the   *)
(* second about one message on its way to a stored configuration and back; *)
(* the third is the inductive invariant.                                   *)
(***************************************************************************)
EXTENDS ConfigurationApi, Induction, SequenceTheorems

-----------------------------------------------------------------------------
(* Sequences of sequences *)

\* What the first pieces are together, for each number of them.
PieceRun(run, pieces) ==
    /\ run[0] = <<>>
    /\ \A n \in DOMAIN pieces : run[n] = run[n - 1] \o pieces[n]

\* FlattenSeq puts the pieces together one after the other.
LEMMA PiecesInOrder ==
    ASSUME NEW S, NEW pieces \in Seq(Seq(S))
    PROVE  \E run : PieceRun(run, pieces) /\ FlattenSeq(pieces) = run[Len(pieces)]
<1> DEFINE N == Len(pieces)
           Step(f, n) == IF n = 1 THEN pieces[n] ELSE f[n - 1] \o pieces[n]
           T == {n \in 0 .. N : \E f : f = [m \in 1 .. n |-> Step(f, m)]}
<1>1. N \in Nat /\ DOMAIN pieces = 1 .. N /\ \A n \in 1 .. N : pieces[n] \in Seq(S)
  OBVIOUS
<1> HIDE DEF N
<1>2. 0 \in T
  <2>1. PICK f : f = [m \in 1 .. 0 |-> <<>>]
    OBVIOUS
  <2>2. f = [m \in 1 .. 0 |-> Step(f, m)]
    BY <2>1
  <2>3. 0 \in 0 .. N
    BY <1>1
  <2> HIDE DEF Step
  <2> QED
    BY <2>2, <2>3
<1>3. ASSUME NEW n \in 0 .. N - 1, n \in T
      PROVE  n + 1 \in T
  <2>1. PICK f : f = [m \in 1 .. n |-> Step(f, m)]
    BY <1>3
  <2>2. PICK g : g = [m \in 1 .. n + 1 |-> Step(f, m)]
    OBVIOUS
  <2>3. n \in Nat /\ n + 1 \in 0 .. N
    BY <1>1
  <2>4. \A m \in 1 .. n : g[m] = f[m]
    <3>1. \A m \in 1 .. n : m \in 1 .. n + 1
      BY <2>3
    <3> HIDE DEF Step
    <3> QED
      BY <2>1, <2>2, <3>1
  <2>5. ASSUME NEW m \in 1 .. n + 1
        PROVE  Step(f, m) = Step(g, m)
    <3>1. m = 1 \/ m - 1 \in 1 .. n
      BY <2>3
    <3> QED
      BY <2>4, <3>1
  <2>6. g = [m \in 1 .. n + 1 |-> Step(g, m)]
    <3> HIDE DEF Step
    <3> QED
      BY <2>2, <2>5
  <2> HIDE DEF Step
  <2> QED
    BY <2>3, <2>6
<1>4. \E f : f = [m \in 1 .. N |-> Step(f, m)]
  <2>1. N \in 0 .. N
    BY <1>1
  <2>2. N \in T
    <3> HIDE DEF T
    <3>1. 0 .. N \subseteq T
      BY <1>1, <1>2, <1>3, Counting
    <3> QED
      BY <2>1, <3>1
  <2> HIDE DEF Step
  <2> QED
    BY <2>2
<1> DEFINE flat == CHOOSE f : f = [m \in 1 .. N |-> Step(f, m)]
<1>5. flat = [m \in 1 .. N |-> Step(flat, m)]
  <2> HIDE DEF Step
  <2> QED
    BY <1>4
<1>6. FlattenSeq(pieces) = IF N = 0 THEN pieces ELSE flat[N]
  BY DEF FlattenSeq, N
<1> HIDE DEF flat
<1> DEFINE run == [n \in 0 .. N |-> IF n = 0 THEN <<>> ELSE flat[n]]
<1>7. run[0] = <<>> /\ \A n \in 1 .. N : run[n] = flat[n]
  BY <1>1
<1>8. \A n \in 1 .. N : flat[n] = Step(flat, n)
  <2> HIDE DEF Step
  <2> QED
    BY <1>5
<1>9. \A n \in 1 .. N : run[n] = run[n - 1] \o pieces[n]
  <2> SUFFICES ASSUME NEW n \in 1 .. N PROVE run[n] = run[n - 1] \o pieces[n]
    OBVIOUS
  <2> HIDE DEF run
  <2>1. CASE n = 1
    <3>1. run[1] = pieces[1]
      BY <1>7, <1>8, <2>1
    <3>2. pieces[1] \in Seq(S)
      BY <1>1, <2>1
    <3>3. <<>> \o pieces[1] = pieces[1]
      BY <3>2
    <3>4. n - 1 = 0
      BY <2>1
    <3>5. run[n - 1] = <<>>
      BY <1>7, <3>4
    <3> QED
      BY <2>1, <3>1, <3>3, <3>5
  <2>2. CASE n # 1
    <3>1. n - 1 \in 1 .. N
      BY <1>1, <2>2
    <3> QED
      BY <1>7, <1>8, <2>2, <3>1
  <2> QED
    BY <2>1, <2>2
<1>10. FlattenSeq(pieces) = run[N]
  <2>1. CASE N = 0
    <3>1. pieces = <<>>
      BY <2>1 DEF N
    <3> QED
      BY <1>6, <1>7, <2>1, <3>1
  <2>2. CASE N # 0
    BY <1>1, <1>6, <1>7, <2>2
  <2> QED
    BY <2>1, <2>2
<1> HIDE DEF run
<1> QED
  BY <1>1, <1>7, <1>9, <1>10 DEF PieceRun, N

\* Together they are a sequence of the same elements.
LEMMA FlattenIsSeq ==
    ASSUME NEW S, NEW pieces \in Seq(Seq(S))
    PROVE  FlattenSeq(pieces) \in Seq(S)
<1> DEFINE N == Len(pieces)
<1>1. PICK run : PieceRun(run, pieces) /\ FlattenSeq(pieces) = run[N]
  BY PiecesInOrder
<1>2. N \in Nat /\ DOMAIN pieces = 1 .. N /\ \A n \in 1 .. N : pieces[n] \in Seq(S)
  OBVIOUS
<1> HIDE DEF N
<1> DEFINE T == {n \in 0 .. N : run[n] \in Seq(S)}
<1>3. 0 \in T
  <2>1. <<>> \in Seq(S) /\ 0 \in 0 .. N
    BY <1>2
  <2> QED
    BY <1>1, <2>1 DEF PieceRun
<1>4. ASSUME NEW n \in 0 .. N - 1, n \in T
      PROVE  n + 1 \in T
  <2>1. n + 1 \in 1 .. N /\ n + 1 \in 0 .. N /\ (n + 1) - 1 = n
    BY <1>2
  <2>2. run[n + 1] = run[n] \o pieces[n + 1]
    BY <1>1, <1>2, <2>1 DEF PieceRun
  <2>3. run[n] \in Seq(S) /\ pieces[n + 1] \in Seq(S)
    BY <1>2, <1>4, <2>1
  <2>4. run[n + 1] \in Seq(S)
    BY <2>2, <2>3
  <2> QED
    BY <2>1, <2>4
<1> HIDE DEF T
<1>5. 0 .. N \subseteq T
  BY <1>2, <1>3, <1>4, Counting
<1>6. N \in T
  BY <1>2, <1>5
<1> QED
  BY <1>1, <1>6 DEF T

\* Putting pieces together and wrapping every element commute.
LEMMA FlattenWraps ==
    ASSUME NEW S, NEW pieces \in Seq(Seq(S)), NEW wrapped,
           wrapped = [n \in DOMAIN pieces |-> ToProtoBackendTargets(pieces[n])]
    PROVE  FlattenSeq(wrapped) = ToProtoBackendTargets(FlattenSeq(pieces))
<1> DEFINE N == Len(pieces)
           W == {{s} : s \in S}
<1>1. N \in Nat /\ DOMAIN pieces = 1 .. N /\ \A n \in 1 .. N : pieces[n] \in Seq(S)
  OBVIOUS
<1>2. \A s \in Seq(S) : /\ ToProtoBackendTargets(s) \in Seq(W)
                        /\ Len(ToProtoBackendTargets(s)) = Len(s)
  BY DEF ToProtoBackendTargets
<1> HIDE DEF W, N
<1>3. wrapped \in Seq(Seq(W)) /\ Len(wrapped) = N /\ DOMAIN wrapped = 1 .. N
  BY <1>1, <1>2
<1>4. PICK f : PieceRun(f, pieces) /\ FlattenSeq(pieces) = f[N]
  BY PiecesInOrder DEF N
<1>5. PICK g : PieceRun(g, wrapped) /\ FlattenSeq(wrapped) = g[N]
  BY <1>3, PiecesInOrder
<1> DEFINE T == {n \in 0 .. N : f[n] \in Seq(S) /\ g[n] = ToProtoBackendTargets(f[n])}
<1>6. 0 \in T
  <2>1. <<>> \in Seq(S) /\ 0 \in 0 .. N
    BY <1>1
  <2>2. ToProtoBackendTargets(<<>>) = <<>>
    BY DEF ToProtoBackendTargets
  <2> QED
    BY <1>4, <1>5, <2>1, <2>2 DEF PieceRun
<1>7. ASSUME NEW n \in 0 .. N - 1, n \in T
      PROVE  n + 1 \in T
  <2>1. n + 1 \in 1 .. N /\ n + 1 \in 0 .. N /\ (n + 1) - 1 = n
    BY <1>1
  <2>2. f[n + 1] = f[n] \o pieces[n + 1] /\ g[n + 1] = g[n] \o wrapped[n + 1]
    BY <1>1, <1>3, <1>4, <1>5, <2>1 DEF PieceRun
  <2>3. f[n] \in Seq(S) /\ pieces[n + 1] \in Seq(S)
    BY <1>1, <1>7, <2>1
  <2>4. f[n + 1] \in Seq(S)
    BY <2>2, <2>3
  <2>5. \A s, t \in Seq(S) : ToProtoBackendTargets(s) \o ToProtoBackendTargets(t)
                                = ToProtoBackendTargets(s \o t)
    <3> TAKE s, t \in Seq(S)
    <3>1. PICK joined : joined = s \o t
      OBVIOUS
    <3>2. /\ joined \in Seq(S) /\ Len(joined) = Len(s) + Len(t)
          /\ \A k \in 1 .. Len(s) + Len(t) :
                joined[k] = IF k <= Len(s) THEN s[k] ELSE t[k - Len(s)]
      BY <3>1, ConcatProperties
    <3>3. \A v \in Seq(S) : \A k \in 1 .. Len(v) : ToProtoBackendTargets(v)[k] = {v[k]}
      BY DEF ToProtoBackendTargets
    <3>4. PICK a, b, c : /\ a = ToProtoBackendTargets(s) /\ b = ToProtoBackendTargets(t)
                         /\ c = ToProtoBackendTargets(joined)
      OBVIOUS
    <3>5. /\ a \in Seq(W) /\ Len(a) = Len(s) /\ \A k \in 1 .. Len(s) : a[k] = {s[k]}
          /\ b \in Seq(W) /\ Len(b) = Len(t) /\ \A k \in 1 .. Len(t) : b[k] = {t[k]}
          /\ c \in Seq(W) /\ Len(c) = Len(s) + Len(t)
      BY <1>2, <3>2, <3>3, <3>4
    <3>6. \A k \in 1 .. Len(s) + Len(t) : c[k] = {joined[k]}
      BY <3>2, <3>3, <3>4
    <3>7. /\ a \o b \in Seq(W) /\ Len(a \o b) = Len(s) + Len(t)
          /\ \A k \in 1 .. Len(s) + Len(t) :
                (a \o b)[k] = IF k <= Len(s) THEN a[k] ELSE b[k - Len(s)]
      <4>1. a \in Seq(W) /\ b \in Seq(W)
        BY <3>5
      <4>2. /\ a \o b \in Seq(W) /\ Len(a \o b) = Len(a) + Len(b)
            /\ \A k \in 1 .. Len(a) + Len(b) :
                  (a \o b)[k] = IF k <= Len(a) THEN a[k] ELSE b[k - Len(a)]
        BY <4>1, ConcatProperties
      <4> QED
        BY <3>5, <4>2
    <3>8. PICK d : d = a \o b
      OBVIOUS
    <3>9. ASSUME NEW k \in 1 .. Len(s) + Len(t)
          PROVE  d[k] = c[k]
      <4>1. Len(s) \in Nat /\ Len(t) \in Nat
        OBVIOUS
      <4>2. CASE k <= Len(s)
        <5>1. k \in 1 .. Len(s)
          BY <4>1, <4>2
        <5> QED
          BY <3>2, <3>5, <3>6, <3>7, <3>8, <4>2, <5>1
      <4>3. CASE ~(k <= Len(s))
        <5>1. k - Len(s) \in 1 .. Len(t)
          BY <4>1, <4>3
        <5> QED
          BY <3>2, <3>5, <3>6, <3>7, <3>8, <4>3, <5>1
      <4> QED
        BY <4>2, <4>3
    <3>10. d = c
      BY <3>5, <3>7, <3>8, <3>9, SeqEqual
    <3> QED
      BY <3>1, <3>4, <3>8, <3>10
  <2>6. wrapped[n + 1] = ToProtoBackendTargets(pieces[n + 1])
    BY <1>1, <2>1
  <2>7. g[n + 1] = ToProtoBackendTargets(f[n + 1])
    BY <1>7, <2>2, <2>3, <2>5, <2>6
  <2> QED
    BY <2>1, <2>4, <2>7
<1> HIDE DEF T
<1>8. 0 .. N \subseteq T
  BY <1>1, <1>6, <1>7, Counting
<1>9. N \in T
  BY <1>1, <1>8
<1> QED
  BY <1>4, <1>5, <1>9 DEF T

\* Pieces of one element each are the elements, in order.
LEMMA FlattenSingles ==
    ASSUME NEW S, NEW s \in Seq(S), NEW pieces, pieces = [n \in DOMAIN s |-> <<s[n]>>]
    PROVE  FlattenSeq(pieces) = s
<1> DEFINE N == Len(s)
<1>1. N \in Nat /\ DOMAIN s = 1 .. N /\ \A n \in 1 .. N : s[n] \in S
  OBVIOUS
<1>2. pieces \in Seq(Seq(S)) /\ Len(pieces) = N /\ DOMAIN pieces = 1 .. N
  BY <1>1
<1>3. PICK run : PieceRun(run, pieces) /\ FlattenSeq(pieces) = run[N]
  BY <1>2, PiecesInOrder
<1> DEFINE T == {n \in 0 .. N : run[n] = SubSeq(s, 1, n)}
<1>4. SubSeq(s, 1, 0) = <<>> /\ SubSeq(s, 1, N) = s
  OBVIOUS
<1>5. \A n \in 0 .. N - 1 : SubSeq(s, 1, n) \o <<s[n + 1]>> = SubSeq(s, 1, n + 1)
  OBVIOUS
<1> HIDE DEF N
<1>6. 0 \in T
  <2>1. 0 \in 0 .. N
    BY <1>1
  <2> QED
    BY <1>3, <1>4, <2>1 DEF PieceRun
<1>7. ASSUME NEW n \in 0 .. N - 1, n \in T
      PROVE  n + 1 \in T
  <2>1. n + 1 \in 1 .. N /\ n + 1 \in 0 .. N /\ (n + 1) - 1 = n
    BY <1>1
  <2>2. run[n + 1] = run[n] \o pieces[n + 1]
    BY <1>2, <1>3, <2>1 DEF PieceRun
  <2>3. pieces[n + 1] = <<s[n + 1]>>
    BY <1>1, <2>1
  <2> QED
    BY <1>5, <1>7, <2>1, <2>2, <2>3
<1> HIDE DEF T
<1>8. 0 .. N \subseteq T
  BY <1>1, <1>6, <1>7, Counting
<1>9. N \in T
  BY <1>1, <1>8
<1> QED
  BY <1>3, <1>4, <1>9 DEF T

\* A pointer to a value becomes a piece of one element, nil an empty one.
LEMMA PointerToSeq ==
    ASSUME NEW S, NEW p \in Pointer(S)
    PROVE  /\ p = {} \/ \E x \in S : p = {x}
           /\ p = {} => SetToSeq(p) = <<>>
           /\ \A x : p = {x} => SetToSeq(p) = <<x>>
           /\ SetToSeq(p) \in Seq(S)
<1>1. p = {} \/ \E x \in S : p = {x}
  BY DEF Pointer
<1>2. SetToSeq({}) = <<>>
  <2>1. Cardinality({}) = 0
    BY FS_EmptySet
  <2>2. \A f \in [1 .. 0 -> {}] : f = <<>>
    OBVIOUS
  <2>3. \E f \in [1 .. 0 -> {}] : IsInjective(f)
    <3>1. <<>> \in [1 .. 0 -> {}] /\ IsInjective(<<>>)
      BY DEF IsInjective
    <3> QED
      BY <3>1
  <2> QED
    BY <2>1, <2>2, <2>3 DEF SetToSeq
<1>3. \A x : SetToSeq({x}) = <<x>>
  <2> TAKE x
  <2>1. Cardinality({x}) = 1
    BY FS_Singleton
  <2>2. \A f \in [1 .. 1 -> {x}] : f = <<x>>
    OBVIOUS
  <2>3. \E f \in [1 .. 1 -> {x}] : IsInjective(f)
    <3>1. <<x>> \in [1 .. 1 -> {x}] /\ IsInjective(<<x>>)
      BY DEF IsInjective
    <3> QED
      BY <3>1
  <2> QED
    BY <2>1, <2>2, <2>3 DEF SetToSeq
<1>4. SetToSeq(p) \in Seq(S)
  <2>1. CASE p = {}
    <3>1. SetToSeq(p) = <<>> /\ <<>> \in Seq(S)
      BY <1>2, <2>1
    <3> QED
      BY <3>1
  <2>2. ASSUME NEW x \in S, p = {x}
        PROVE  SetToSeq(p) \in Seq(S)
    <3>1. SetToSeq(p) = <<x>>
      BY <1>3, <2>2
    <3>2. <<x>> \in Seq(S)
      OBVIOUS
    <3> QED
      BY <3>1, <3>2
  <2> QED
    BY <1>1, <2>1, <2>2
<1>5. \A x : p = {x} => SetToSeq(p) = <<x>>
  BY <1>3
<1> QED
  BY <1>1, <1>2, <1>4, <1>5

-----------------------------------------------------------------------------
(* A message on its way to a configuration and back *)

\* Backends become a sequence of targets; shown again, they are the entries
\* that were not nil, in order.
LEMMA BackendsThrough ==
    ASSUME NEW items \in Seq(Pointer(BackendTarget))
    PROVE  /\ ToServiceBackendTargets(items) \in Seq(BackendTarget)
           /\ ToProtoBackendTargets(ToServiceBackendTargets(items))
                 = FlattenSeq([n \in DOMAIN items |->
                                  IF items[n] = {} THEN <<>> ELSE <<items[n]>>])
<1> DEFINE pieces == [n \in DOMAIN items |-> SetToSeq(items[n])]
           wrapped == [n \in DOMAIN items |-> IF items[n] = {} THEN <<>> ELSE <<items[n]>>]
<1>1. \A n \in DOMAIN items : items[n] \in Pointer(BackendTarget)
  OBVIOUS
<1>2. pieces \in Seq(Seq(BackendTarget))
  <2>1. \A n \in DOMAIN items : SetToSeq(items[n]) \in Seq(BackendTarget)
    BY <1>1, PointerToSeq
  <2> QED
    BY <2>1
<1>3. \A n \in DOMAIN items :
         (IF items[n] = {} THEN <<>> ELSE <<items[n]>>) = ToProtoBackendTargets(SetToSeq(items[n]))
  <2> TAKE n \in DOMAIN items
  <2>1. CASE items[n] = {}
    <3>1. SetToSeq(items[n]) = <<>>
      BY <1>1, <2>1, PointerToSeq
    <3> QED
      BY <2>1, <3>1 DEF ToProtoBackendTargets
  <2>2. ASSUME NEW x \in BackendTarget, items[n] = {x}
        PROVE  (IF items[n] = {} THEN <<>> ELSE <<items[n]>>)
                  = ToProtoBackendTargets(SetToSeq(items[n]))
    <3>1. SetToSeq(items[n]) = <<x>>
      BY <1>1, <2>2, PointerToSeq
    <3>2. ToProtoBackendTargets(<<x>>) = << {x} >>
      BY DEF ToProtoBackendTargets
    <3> QED
      BY <2>2, <3>1, <3>2
  <2> QED
    BY <1>1, <2>1, <2>2, PointerToSeq
<1>4. DOMAIN pieces = DOMAIN items /\ \A n \in DOMAIN items : pieces[n] = SetToSeq(items[n])
  OBVIOUS
<1>5. ToServiceBackendTargets(items) = FlattenSeq(pieces)
  BY DEF ToServiceBackendTargets
<1>6. wrapped = [n \in DOMAIN pieces |-> ToProtoBackendTargets(pieces[n])]
  <2> HIDE DEF pieces
  <2> QED
    BY <1>3, <1>4
<1> HIDE DEF pieces, wrapped
<1>7. FlattenSeq(wrapped) = ToProtoBackendTargets(FlattenSeq(pieces))
  BY <1>2, <1>6, FlattenWraps
<1>8. FlattenSeq(pieces) \in Seq(BackendTarget)
  BY <1>2, FlattenIsSeq
<1> QED
  BY <1>5, <1>7, <1>8 DEF wrapped

\* Targets that are shown and sent back are the same targets.
LEMMA BackendsReturn ==
    ASSUME NEW s \in Seq(BackendTarget)
    PROVE  /\ ToProtoBackendTargets(s) \in Seq(Pointer(BackendTarget))
           /\ ToServiceBackendTargets(ToProtoBackendTargets(s)) = s
<1>1. PICK items : items = ToProtoBackendTargets(s)
  OBVIOUS
<1>2. \A n \in DOMAIN s : {s[n]} \in Pointer(BackendTarget)
  BY DEF Pointer
<1>3. items \in Seq(Pointer(BackendTarget)) /\ DOMAIN items = DOMAIN s
      /\ \A n \in DOMAIN s : items[n] = {s[n]}
  BY <1>1, <1>2 DEF ToProtoBackendTargets
<1>4. \A n \in DOMAIN s : SetToSeq(items[n]) = <<s[n]>>
  BY <1>2, <1>3, PointerToSeq
<1>5. PICK pieces : pieces = [n \in DOMAIN s |-> <<s[n]>>]
  OBVIOUS
<1>6. ToServiceBackendTargets(items) = FlattenSeq(pieces)
  <2>1. [n \in DOMAIN items |-> SetToSeq(items[n])] = pieces
    BY <1>3, <1>4, <1>5
  <2> QED
    BY <2>1 DEF ToServiceBackendTargets
<1>7. FlattenSeq(pieces) = s
  BY <1>5, FlattenSingles
<1> QED
  BY <1>1, <1>3, <1>6, <1>7

\* Enum values and their strings lead to each other.
LEMMA EnumsReturn ==
    /\ \A n \in DOMAIN TrafficModes :
          EnumOf(TrafficModes, TrafficModes[n]) = n
    /\ \A n \in DOMAIN LoadBalancingStrategies :
          EnumOf(LoadBalancingStrategies, LoadBalancingStrategies[n]) = n
<1>1. DOMAIN TrafficModes = {1, 2} /\ DOMAIN LoadBalancingStrategies = {1, 2, 3}
  BY DEF TrafficModes, LoadBalancingStrategies
<1>2. /\ TrafficModes[1] = "http" /\ TrafficModes[2] = "tcp"
      /\ LoadBalancingStrategies[1] = "roundrobin"
      /\ LoadBalancingStrategies[2] = "leastconn"
      /\ LoadBalancingStrategies[3] = "source"
  BY DEF TrafficModes, LoadBalancingStrategies
<1>3. \A n, k \in DOMAIN TrafficModes : TrafficModes[n] = TrafficModes[k] => n = k
  BY <1>1, <1>2
<1>4. \A n, k \in DOMAIN LoadBalancingStrategies :
         LoadBalancingStrategies[n] = LoadBalancingStrategies[k] => n = k
  BY <1>1, <1>2
<1> QED
  BY <1>3, <1>4 DEF EnumOf

\* What the service keeps of a message that it accepts.
Kept(m) ==
    EnsureCertificatePath([ToService(m) EXCEPT !.name = NormalizeConfigurationName(m.name)])

Moved(key, t) ==
    IF IsInline(t)
      THEN [t EXCEPT !.certificatePath = CertFile[key], !.certificatePEM = "", !.privateKeyPEM = ""]
      ELSE t

\* Field by field.
LEMMA KeptFields ==
    ASSUME NEW m \in Message
    PROVE  Kept(m) =
             [name |-> TrimSpace[m.name], frontendName |-> m.frontendName,
              bindAddress |-> m.bindAddress, bindPort |-> m.bindPort, url |-> m.url,
              loadBalancing |-> LoadBalancingStrategies[m.loadBalancing],
              backendName |-> m.backendName, backends |-> ToServiceBackendTargets(m.backends),
              trafficMode |-> TrafficModes[m.trafficMode],
              autoHTTPSRedirect |-> m.autoHTTPSRedirect,
              tls |-> {Moved(TrimSpace[m.name], t) : t \in m.tls}]
<1>1. PICK strategy, mode, targets, key :
         /\ strategy = LoadBalancingStrategies[m.loadBalancing]
         /\ mode = TrafficModes[m.trafficMode]
         /\ targets = ToServiceBackendTargets(m.backends)
         /\ key = TrimSpace[m.name]
  OBVIOUS
<1>2. m = [name |-> m.name, frontendName |-> m.frontendName,
           bindAddress |-> m.bindAddress, bindPort |-> m.bindPort, url |-> m.url,
           loadBalancing |-> m.loadBalancing, backendName |-> m.backendName,
           backends |-> m.backends, trafficMode |-> m.trafficMode,
           autoHTTPSRedirect |-> m.autoHTTPSRedirect, tls |-> m.tls]
  BY DEF Message
<1>3. PICK served : served = ToService(m)
  OBVIOUS
<1>4. served = [name |-> m.name, frontendName |-> m.frontendName,
                bindAddress |-> m.bindAddress, bindPort |-> m.bindPort, url |-> m.url,
                loadBalancing |-> strategy, backendName |-> m.backendName,
                backends |-> targets, trafficMode |-> mode,
                autoHTTPSRedirect |-> m.autoHTTPSRedirect, tls |-> m.tls]
  BY <1>1, <1>2, <1>3 DEF ToService
<1>5. PICK stored : stored = [served EXCEPT !.name = key]
  OBVIOUS
<1>6. stored = [name |-> key, frontendName |-> m.frontendName,
                bindAddress |-> m.bindAddress, bindPort |-> m.bindPort, url |-> m.url,
                loadBalancing |-> strategy, backendName |-> m.backendName,
                backends |-> targets, trafficMode |-> mode,
                autoHTTPSRedirect |-> m.autoHTTPSRedirect, tls |-> m.tls]
  BY <1>4, <1>5
<1>7. PICK tls : tls = {Moved(key, t) : t \in m.tls}
  OBVIOUS
<1>8. EnsureCertificatePath(stored) = [stored EXCEPT !.tls = tls]
  <2>1. stored.name = key /\ stored.tls = m.tls
    BY <1>6
  <2>2. {IF IsInline(t)
           THEN [t EXCEPT !.certificatePath = CertFile[stored.name],
                          !.certificatePEM = "", !.privateKeyPEM = ""]
           ELSE t : t \in stored.tls} = tls
    BY <1>7, <2>1 DEF Moved
  <2>3. EnsureCertificatePath(stored) = [stored EXCEPT !.tls =
          {IF IsInline(t)
             THEN [t EXCEPT !.certificatePath = CertFile[stored.name],
                            !.certificatePEM = "", !.privateKeyPEM = ""]
             ELSE t : t \in stored.tls}]
    BY DEF EnsureCertificatePath
  <2> QED
    BY <2>2, <2>3
<1>9. Kept(m) = EnsureCertificatePath(stored)
  BY <1>1, <1>3, <1>5 DEF Kept, NormalizeConfigurationName
<1> QED
  BY <1>1, <1>6, <1>7, <1>8, <1>9

\* What is shown of a configuration, field by field.
LEMMA ShownFields ==
    ASSUME NEW c,
           c = [name |-> c.name, frontendName |-> c.frontendName,
                bindAddress |-> c.bindAddress, bindPort |-> c.bindPort, url |-> c.url,
                loadBalancing |-> c.loadBalancing, backendName |-> c.backendName,
                backends |-> c.backends, trafficMode |-> c.trafficMode,
                autoHTTPSRedirect |-> c.autoHTTPSRedirect, tls |-> c.tls]
    PROVE  ToProtoConfiguration(c) =
             [name |-> c.name, frontendName |-> c.frontendName,
              bindAddress |-> c.bindAddress, bindPort |-> c.bindPort, url |-> c.url,
              loadBalancing |-> EnumOf(LoadBalancingStrategies, c.loadBalancing),
              backendName |-> c.backendName, backends |-> ToProtoBackendTargets(c.backends),
              trafficMode |-> EnumOf(TrafficModes, c.trafficMode),
              autoHTTPSRedirect |-> c.autoHTTPSRedirect, tls |-> c.tls]
<1>1. PICK strategy, mode, targets :
         /\ strategy = EnumOf(LoadBalancingStrategies, c.loadBalancing)
         /\ mode = EnumOf(TrafficModes, c.trafficMode)
         /\ targets = ToProtoBackendTargets(c.backends)
  OBVIOUS
<1>2. ToProtoConfiguration(c) =
         [c EXCEPT !.loadBalancing = strategy, !.trafficMode = mode, !.backends = targets]
  BY <1>1 DEF ToProtoConfiguration
<1> QED
  BY <1>1, <1>2

\* A message that is accepted and converted has these parts.
LEMMA ServedFields ==
    ASSUME NEW m \in Message
    PROVE  ToService(m) =
             [name |-> m.name, frontendName |-> m.frontendName,
              bindAddress |-> m.bindAddress, bindPort |-> m.bindPort, url |-> m.url,
              loadBalancing |-> LoadBalancingStrategies[m.loadBalancing],
              backendName |-> m.backendName, backends |-> ToServiceBackendTargets(m.backends),
              trafficMode |-> TrafficModes[m.trafficMode],
              autoHTTPSRedirect |-> m.autoHTTPSRedirect, tls |-> m.tls]
<1>1. PICK strategy, mode, targets :
         /\ strategy = LoadBalancingStrategies[m.loadBalancing]
         /\ mode = TrafficModes[m.trafficMode]
         /\ targets = ToServiceBackendTargets(m.backends)
  OBVIOUS
<1>2. m = [name |-> m.name, frontendName |-> m.frontendName,
           bindAddress |-> m.bindAddress, bindPort |-> m.bindPort, url |-> m.url,
           loadBalancing |-> m.loadBalancing, backendName |-> m.backendName,
           backends |-> m.backends, trafficMode |-> m.trafficMode,
           autoHTTPSRedirect |-> m.autoHTTPSRedirect, tls |-> m.tls]
  BY DEF Message
<1>3. ToService(m) =
         [m EXCEPT !.loadBalancing = strategy, !.trafficMode = mode, !.backends = targets]
  BY <1>1 DEF ToService
<1> QED
  BY <1>1, <1>2, <1>3

\* Valid TLS settings are off and empty, or name a pair of files, or hold an
\* inline pair and no path.
LEMMA ValidTLS ==
    ASSUME NEW t \in TLSConfiguration, ValidateTLSConfiguration(t)
    PROVE  \/ /\ ~t.enabled /\ ~IsInline(t)
              /\ Blank(t.certificatePEM) /\ Blank(t.certificatePath)
           \/ /\ t.enabled /\ ~IsInline(t)
              /\ ~Blank(t.certificatePath) /\ ~Blank(t.privateKeyPath)
              /\ Blank(t.certificatePEM) /\ Blank(t.privateKeyPEM)
           \/ /\ t.enabled /\ IsInline(t)
              /\ Blank(t.certificatePath) /\ Blank(t.privateKeyPath)
              /\ ~Blank(t.certificatePEM) /\ ~Blank(t.privateKeyPEM)
<1>1. "" \notin DOMAIN PemType
  BY TextAssumption
<1>2. ValidateCertificatePEM(TrimSpace[t.certificatePEM]) => ~Blank(t.certificatePEM)
  BY <1>1 DEF ValidateCertificatePEM, Blank
<1>3. ValidatePrivateKeyPEM(TrimSpace[t.privateKeyPEM]) => ~Blank(t.privateKeyPEM)
  BY <1>1 DEF ValidatePrivateKeyPEM, Blank
<1>4. t.enabled \in BOOLEAN
  BY DEF TLSConfiguration
<1> QED
  BY <1>2, <1>3, <1>4 DEF ValidateTLSConfiguration, HasPathPair, HasPEMPair, IsInline

\* The move of an inline pair, field by field.
LEMMA MovedFields ==
    ASSUME NEW t \in TLSConfiguration, NEW key, IsInline(t)
    PROVE  Moved(key, t) =
             [enabled |-> t.enabled, certificatePath |-> CertFile[key],
              privateKeyPath |-> t.privateKeyPath, certificatePEM |-> "", privateKeyPEM |-> "",
              skipBackendTLSVerify |-> t.skipBackendTLSVerify]
<1>1. t = [enabled |-> t.enabled, certificatePath |-> t.certificatePath,
           privateKeyPath |-> t.privateKeyPath, certificatePEM |-> t.certificatePEM,
           privateKeyPEM |-> t.privateKeyPEM, skipBackendTLSVerify |-> t.skipBackendTLSVerify]
  BY DEF TLSConfiguration
<1>2. PICK path : path = CertFile[key]
  OBVIOUS
<1>3. Moved(key, t)
        = [t EXCEPT !.certificatePath = path, !.certificatePEM = "", !.privateKeyPEM = ""]
  BY <1>2 DEF Moved
<1> QED
  BY <1>1, <1>2, <1>3

\* The TLS settings of a message that was accepted.
LEMMA AcceptedTLS ==
    ASSUME NEW m \in Message, Acceptable(m), NEW t \in m.tls
    PROVE  t \in TLSConfiguration /\ ValidateTLSConfiguration(t)
<1>1. ToService(m).tls = m.tls
  BY ServedFields
<1>2. m.tls \in Pointer(TLSConfiguration)
  BY DEF Message
<1> QED
  BY <1>1, <1>2 DEF Acceptable, ValidateConfiguration, Pointer

\* What is shown of an accepted message is a message again: the one it means.
LEMMA ShownMeans ==
    ASSUME NEW m \in Message, Acceptable(m)
    PROVE  /\ ToProtoConfiguration(Kept(m)) \in Message
           /\ ToProtoConfiguration(Kept(m)) = Meant(m)
<1>1. PICK c : c = Kept(m)
  OBVIOUS
<1>2. PICK key, targets, tls, entries :
         /\ key = TrimSpace[m.name]
         /\ targets = ToServiceBackendTargets(m.backends)
         /\ entries = FlattenSeq([n \in DOMAIN m.backends |->
                         IF m.backends[n] = {} THEN <<>> ELSE <<m.backends[n]>>])
         /\ tls = {Moved(key, t) : t \in m.tls}
  OBVIOUS
<1>3. c = [name |-> key, frontendName |-> m.frontendName,
           bindAddress |-> m.bindAddress, bindPort |-> m.bindPort, url |-> m.url,
           loadBalancing |-> LoadBalancingStrategies[m.loadBalancing],
           backendName |-> m.backendName, backends |-> targets,
           trafficMode |-> TrafficModes[m.trafficMode],
           autoHTTPSRedirect |-> m.autoHTTPSRedirect, tls |-> tls]
  BY <1>1, <1>2, KeptFields
<1>4. /\ m.loadBalancing \in DOMAIN LoadBalancingStrategies
      /\ m.trafficMode \in DOMAIN TrafficModes
  BY DEF Acceptable, Convertible
<1>5. /\ EnumOf(LoadBalancingStrategies, LoadBalancingStrategies[m.loadBalancing]) = m.loadBalancing
      /\ EnumOf(TrafficModes, TrafficModes[m.trafficMode]) = m.trafficMode
  BY <1>4, EnumsReturn
<1>6. m.backends \in Seq(Pointer(BackendTarget))
  BY DEF Message
<1>7. targets \in Seq(BackendTarget) /\ ToProtoBackendTargets(targets) = entries
  BY <1>2, <1>6, BackendsThrough
<1>8. ToProtoConfiguration(c) =
          [name |-> key, frontendName |-> m.frontendName,
           bindAddress |-> m.bindAddress, bindPort |-> m.bindPort, url |-> m.url,
           loadBalancing |-> m.loadBalancing, backendName |-> m.backendName,
           backends |-> entries, trafficMode |-> m.trafficMode,
           autoHTTPSRedirect |-> m.autoHTTPSRedirect, tls |-> tls]
  <2>1. PICK strategy, mode : /\ strategy = LoadBalancingStrategies[m.loadBalancing]
                              /\ mode = TrafficModes[m.trafficMode]
    OBVIOUS
  <2>2. ToProtoConfiguration(c) =
          [name |-> c.name, frontendName |-> c.frontendName,
           bindAddress |-> c.bindAddress, bindPort |-> c.bindPort, url |-> c.url,
           loadBalancing |-> EnumOf(LoadBalancingStrategies, c.loadBalancing),
           backendName |-> c.backendName, backends |-> ToProtoBackendTargets(c.backends),
           trafficMode |-> EnumOf(TrafficModes, c.trafficMode),
           autoHTTPSRedirect |-> c.autoHTTPSRedirect, tls |-> c.tls]
    BY <1>3, <2>1, ShownFields
  <2>3. /\ c.name = key /\ c.frontendName = m.frontendName
        /\ c.bindAddress = m.bindAddress /\ c.bindPort = m.bindPort /\ c.url = m.url
        /\ c.loadBalancing = strategy /\ c.backendName = m.backendName
        /\ c.backends = targets /\ c.trafficMode = mode
        /\ c.autoHTTPSRedirect = m.autoHTTPSRedirect /\ c.tls = tls
    BY <1>3, <2>1
  <2> QED
    BY <1>5, <1>7, <2>1, <2>2, <2>3
<1>9. ToProtoConfiguration(c) \in Message
  <2>1. key \in Texts
    BY <1>2, TextAssumption DEF Message
  <2>2. entries \in Seq(Pointer(BackendTarget))
    BY <1>7, BackendsReturn
  <2>3. tls \in Pointer(TLSConfiguration)
    <3>1. m.tls \in Pointer(TLSConfiguration)
      BY DEF Message
    <3>2. ASSUME NEW t \in TLSConfiguration
          PROVE  Moved(key, t) \in TLSConfiguration
      <4>1. CASE IsInline(t)
        <5>1. CertFile[key] \in Texts /\ "" \in Texts
          BY <2>1, TextAssumption
        <5>2. /\ t.enabled \in BOOLEAN /\ t.privateKeyPath \in Texts
              /\ t.skipBackendTLSVerify \in BOOLEAN
          BY DEF TLSConfiguration
        <5>3. PICK moved : moved = Moved(key, t)
          OBVIOUS
        <5>4. moved = [enabled |-> t.enabled, certificatePath |-> CertFile[key],
                       privateKeyPath |-> t.privateKeyPath, certificatePEM |-> "",
                       privateKeyPEM |-> "", skipBackendTLSVerify |-> t.skipBackendTLSVerify]
          BY <4>1, <5>3, MovedFields
        <5>5. moved \in TLSConfiguration
          BY <5>1, <5>2, <5>4 DEF TLSConfiguration
        <5> QED
          BY <5>3, <5>5
      <4>2. CASE ~IsInline(t)
        BY <4>2 DEF Moved
      <4> QED
        BY <4>1, <4>2
    <3> QED
      BY <1>2, <3>1, <3>2 DEF Pointer
  <2> QED
    BY <1>8, <2>1, <2>2, <2>3 DEF Message
<1>10. Meant(m) =
          [name |-> key, frontendName |-> m.frontendName,
           bindAddress |-> m.bindAddress, bindPort |-> m.bindPort, url |-> m.url,
           loadBalancing |-> m.loadBalancing, backendName |-> m.backendName,
           backends |-> entries, trafficMode |-> m.trafficMode,
           autoHTTPSRedirect |-> m.autoHTTPSRedirect, tls |-> tls]
  <2>1. PICK asked : asked =
           {IF t.enabled /\ ~Blank(t.certificatePEM)
              THEN [t EXCEPT !.certificatePath = CertFile[key],
                             !.certificatePEM = "", !.privateKeyPEM = ""]
              ELSE t : t \in m.tls}
    OBVIOUS
  <2>2. asked = tls
    <3>1. \A t \in m.tls :
             (IF t.enabled /\ ~Blank(t.certificatePEM)
                THEN [t EXCEPT !.certificatePath = CertFile[key],
                               !.certificatePEM = "", !.privateKeyPEM = ""]
                ELSE t) = Moved(key, t)
      <4> TAKE t \in m.tls
      <4>1. t.enabled /\ ~Blank(t.certificatePEM) <=> IsInline(t)
        BY AcceptedTLS, ValidTLS DEF IsInline
      <4> QED
        BY <4>1 DEF Moved
    <3> QED
      BY <1>2, <2>1, <3>1
  <2>3. m = [name |-> m.name, frontendName |-> m.frontendName,
             bindAddress |-> m.bindAddress, bindPort |-> m.bindPort, url |-> m.url,
             loadBalancing |-> m.loadBalancing, backendName |-> m.backendName,
             backends |-> m.backends, trafficMode |-> m.trafficMode,
             autoHTTPSRedirect |-> m.autoHTTPSRedirect, tls |-> m.tls]
    BY DEF Message
  <2>4. Meant(m) = [m EXCEPT !.name = key, !.backends = entries, !.tls = asked]
    BY <1>2, <2>1 DEF Meant
  <2> QED
    BY <2>2, <2>3, <2>4
<1> QED
  BY <1>1, <1>8, <1>9, <1>10

\* Backends that were accepted have names of their own.
LEMMA DistinctServers ==
    ASSUME NEW s \in Seq(BackendTarget), ValidateBackends(s),
           NEW n \in DOMAIN s, NEW k \in DOMAIN s,
           ToLower[TrimSpace[s[n].name]] = ToLower[TrimSpace[s[k].name]]
    PROVE  n = k
<1>1. Len(s) \in Nat /\ DOMAIN s = 1 .. Len(s)
  OBVIOUS
<1>2. \A x \in DOMAIN s : \A y \in 1 .. x - 1 :
         ToLower[TrimSpace[s[y].name]] # ToLower[TrimSpace[s[x].name]]
  BY DEF ValidateBackends
<1>3. n < k \/ k < n \/ n = k
  BY <1>1
<1>4. CASE n < k
  <2>1. n \in 1 .. k - 1
    BY <1>1, <1>4
  <2> QED
    BY <1>2, <2>1
<1>5. CASE k < n
  <2>1. k \in 1 .. n - 1
    BY <1>1, <1>5
  <2> QED
    BY <1>2, <2>1
<1> QED
  BY <1>3, <1>4, <1>5

\* What was accepted renders soundly.
LEMMA KeptRenders ==
    ASSUME NEW m \in Message, Acceptable(m), NEW c, c = Kept(m)
    PROVE  LET front == RenderFrontendSection(c)
               back == RenderBackendSection(c)
           IN  /\ Renderable(c)
               /\ front.redirect => front.mode = "http" /\ front.crt # {}
               /\ "" \notin front.crt /\ (TLSEnabled(c) => front.crt # {})
               /\ front.default_backend = back.backend /\ front.mode = back.mode
               /\ \A n, k \in DOMAIN back.servers :
                     ToLower[TrimSpace[back.servers[n].name]] = ToLower[TrimSpace[back.servers[k].name]]
                         => n = k
<1>1. PICK key, targets, mode :
         /\ key = TrimSpace[m.name]
         /\ targets = ToServiceBackendTargets(m.backends)
         /\ mode = TrafficModes[m.trafficMode]
  OBVIOUS
<1>2. /\ c.tls = {Moved(key, t) : t \in m.tls} /\ c.backends = targets /\ c.trafficMode = mode
      /\ c.autoHTTPSRedirect = m.autoHTTPSRedirect
  BY <1>1, KeptFields
<1>3. /\ m.autoHTTPSRedirect => mode = "http" /\ \E t \in m.tls : t.enabled
      /\ ValidateBackends(targets)
  <2>1. ValidateConfiguration(ToService(m))
    BY DEF Acceptable
  <2>2. /\ ToService(m).tls = m.tls /\ ToService(m).backends = targets
        /\ ToService(m).trafficMode = mode
        /\ ToService(m).autoHTTPSRedirect = m.autoHTTPSRedirect
    BY <1>1, ServedFields
  <2> QED
    BY <2>1, <2>2 DEF ValidateConfiguration
<1>4. key \in Texts
  BY <1>1, TextAssumption DEF Message
<1>5. ASSUME NEW t \in m.tls
      PROVE  /\ Moved(key, t).enabled = t.enabled
             /\ t.enabled => ~Blank(Moved(key, t).certificatePath)
  <2>1. t \in TLSConfiguration /\ ValidateTLSConfiguration(t)
    BY AcceptedTLS
  <2>2. CASE IsInline(t)
    <3>1. Moved(key, t) = [enabled |-> t.enabled, certificatePath |-> CertFile[key],
              privateKeyPath |-> t.privateKeyPath, certificatePEM |-> "", privateKeyPEM |-> "",
              skipBackendTLSVerify |-> t.skipBackendTLSVerify]
      BY <2>1, <2>2, MovedFields
    <3>2. ~Blank(CertFile[key])
      BY <1>4, TextAssumption DEF Blank
    <3>3. PICK moved, path : moved = Moved(key, t) /\ path = CertFile[key]
      OBVIOUS
    <3>4. PICK on, keyPath, skips : /\ on = t.enabled /\ keyPath = t.privateKeyPath
                                    /\ skips = t.skipBackendTLSVerify
      OBVIOUS
    <3>5. moved = [enabled |-> on, certificatePath |-> path, privateKeyPath |-> keyPath,
                   certificatePEM |-> "", privateKeyPEM |-> "", skipBackendTLSVerify |-> skips]
      BY <3>1, <3>3, <3>4
    <3>6. moved.enabled = on /\ moved.certificatePath = path
      BY <3>5
    <3> QED
      BY <3>2, <3>3, <3>4, <3>6
  <2>3. CASE ~IsInline(t)
    <3>1. Moved(key, t) = t
      BY <2>3 DEF Moved
    <3> QED
      BY <2>1, <2>3, <3>1, ValidTLS
  <2> QED
    BY <2>2, <2>3
<1>6. Renderable(c)
  BY <1>2, <1>5 DEF Renderable
<1>7. PICK crt : crt = {TrimSpace[t.certificatePath] : t \in {u \in c.tls : u.enabled}}
  OBVIOUS
<1>8. "" \notin crt /\ (TLSEnabled(c) => crt # {})
  BY <1>6, <1>7 DEF Renderable, TLSEnabled, Blank
<1>9. m.autoHTTPSRedirect => TLSEnabled(c)
  BY <1>2, <1>3, <1>5 DEF TLSEnabled
<1>10. /\ RenderFrontendSection(c).crt = crt
       /\ RenderFrontendSection(c).mode = mode
       /\ RenderFrontendSection(c).redirect = m.autoHTTPSRedirect
       /\ RenderFrontendSection(c).default_backend = RenderBackendSection(c).backend
       /\ RenderBackendSection(c).mode = mode
  BY <1>2, <1>7 DEF RenderFrontendSection, RenderBackendSection
<1>11. targets \in Seq(BackendTarget)
  <2>1. m.backends \in Seq(Pointer(BackendTarget))
    BY DEF Message
  <2> QED
    BY <1>1, <2>1, BackendsThrough
<1>12. PICK servers : servers = RenderBackendSection(c).servers
  OBVIOUS
<1>13. servers = [n \in DOMAIN targets |-> [targets[n] EXCEPT !.address = TrimSpace[@]]]
  BY <1>2, <1>12 DEF RenderBackendSection
<1>14. /\ DOMAIN servers = DOMAIN targets
       /\ \A n \in DOMAIN targets : servers[n].name = targets[n].name
  <2>1. \A n \in DOMAIN targets : targets[n] \in BackendTarget
    BY <1>11
  <2>2. \A b \in BackendTarget : [b EXCEPT !.address = TrimSpace[@]].name = b.name
    BY DEF BackendTarget
  <2> QED
    BY <1>13, <2>1, <2>2
<1>15. \A n, k \in DOMAIN servers :
          ToLower[TrimSpace[servers[n].name]] = ToLower[TrimSpace[servers[k].name]] => n = k
  BY <1>3, <1>11, <1>14, DistinctServers
<1> QED
  BY <1>3, <1>6, <1>8, <1>9, <1>10, <1>12, <1>15

\* What is shown of an accepted message is accepted again, and changes nothing,
\* just if its certificate was not inline.
LEMMA KeptSendsBack ==
    ASSUME NEW m \in Message, Acceptable(m), NEW c, c = Kept(m)
    PROVE  LET shown == ToProtoConfiguration(c)
               inline == \E t \in m.tls : IsInline(t)
           IN  /\ Acceptable(shown) <=> ~inline
               /\ ~inline => EnsureCertificatePath(ToService(shown)) = c
<1>1. PICK shown : shown = ToProtoConfiguration(c)
  OBVIOUS
<1>2. PICK key, targets, strategy, mode, tls :
         /\ key = TrimSpace[m.name] /\ targets = ToServiceBackendTargets(m.backends)
         /\ strategy = LoadBalancingStrategies[m.loadBalancing]
         /\ mode = TrafficModes[m.trafficMode]
         /\ tls = {Moved(key, t) : t \in m.tls}
  OBVIOUS
<1>3. c = [name |-> key, frontendName |-> m.frontendName,
           bindAddress |-> m.bindAddress, bindPort |-> m.bindPort, url |-> m.url,
           loadBalancing |-> strategy, backendName |-> m.backendName, backends |-> targets,
           trafficMode |-> mode, autoHTTPSRedirect |-> m.autoHTTPSRedirect, tls |-> tls]
  BY <1>2, KeptFields
<1>4. /\ m.loadBalancing \in DOMAIN LoadBalancingStrategies
      /\ m.trafficMode \in DOMAIN TrafficModes
  BY DEF Acceptable, Convertible
<1>5. /\ EnumOf(LoadBalancingStrategies, strategy) = m.loadBalancing
      /\ EnumOf(TrafficModes, mode) = m.trafficMode
  BY <1>2, <1>4, EnumsReturn
<1>6. targets \in Seq(BackendTarget)
  <2>1. m.backends \in Seq(Pointer(BackendTarget))
    BY DEF Message
  <2> QED
    BY <1>2, <2>1, BackendsThrough
<1>7. PICK entries : entries = ToProtoBackendTargets(targets)
  OBVIOUS
<1>8. shown = [name |-> key, frontendName |-> m.frontendName,
               bindAddress |-> m.bindAddress, bindPort |-> m.bindPort, url |-> m.url,
               loadBalancing |-> m.loadBalancing, backendName |-> m.backendName,
               backends |-> entries, trafficMode |-> m.trafficMode,
               autoHTTPSRedirect |-> m.autoHTTPSRedirect, tls |-> tls]
  <2>1. shown =
          [name |-> c.name, frontendName |-> c.frontendName,
           bindAddress |-> c.bindAddress, bindPort |-> c.bindPort, url |-> c.url,
           loadBalancing |-> EnumOf(LoadBalancingStrategies, c.loadBalancing),
           backendName |-> c.backendName, backends |-> ToProtoBackendTargets(c.backends),
           trafficMode |-> EnumOf(TrafficModes, c.trafficMode),
           autoHTTPSRedirect |-> c.autoHTTPSRedirect, tls |-> c.tls]
    BY <1>1, <1>3, ShownFields
  <2>2. /\ c.name = key /\ c.frontendName = m.frontendName
        /\ c.bindAddress = m.bindAddress /\ c.bindPort = m.bindPort /\ c.url = m.url
        /\ c.loadBalancing = strategy /\ c.backendName = m.backendName
        /\ c.backends = targets /\ c.trafficMode = mode
        /\ c.autoHTTPSRedirect = m.autoHTTPSRedirect /\ c.tls = tls
    BY <1>3
  <2> QED
    BY <1>5, <1>7, <2>1, <2>2
<1>9. ToService(shown) = c
  <2>1. shown \in Message
    BY <1>1, ShownMeans
  <2>2. ToServiceBackendTargets(entries) = targets
    BY <1>6, <1>7, BackendsReturn
  <2>3. /\ shown.name = key /\ shown.frontendName = m.frontendName
        /\ shown.bindAddress = m.bindAddress /\ shown.bindPort = m.bindPort /\ shown.url = m.url
        /\ shown.loadBalancing = m.loadBalancing /\ shown.backendName = m.backendName
        /\ shown.backends = entries /\ shown.trafficMode = m.trafficMode
        /\ shown.autoHTTPSRedirect = m.autoHTTPSRedirect /\ shown.tls = tls
    BY <1>8
  <2>4. ToService(shown) =
           [name |-> shown.name, frontendName |-> shown.frontendName,
            bindAddress |-> shown.bindAddress, bindPort |-> shown.bindPort, url |-> shown.url,
            loadBalancing |-> LoadBalancingStrategies[shown.loadBalancing],
            backendName |-> shown.backendName,
            backends |-> ToServiceBackendTargets(shown.backends),
            trafficMode |-> TrafficModes[shown.trafficMode],
            autoHTTPSRedirect |-> shown.autoHTTPSRedirect, tls |-> shown.tls]
    BY <2>1, ServedFields
  <2> QED
    BY <1>2, <1>3, <2>2, <2>3, <2>4
<1>10. Convertible(shown)
  <2>1. shown.loadBalancing = m.loadBalancing /\ shown.trafficMode = m.trafficMode
    BY <1>8
  <2> QED
    BY <1>4, <2>1 DEF Convertible
<1>11. PICK served : served = ToService(m)
  OBVIOUS
<1>12. /\ served.name = m.name /\ served.frontendName = m.frontendName
       /\ served.bindAddress = m.bindAddress /\ served.bindPort = m.bindPort
       /\ served.url = m.url /\ served.backendName = m.backendName
       /\ served.backends = targets /\ served.trafficMode = mode
       /\ served.autoHTTPSRedirect = m.autoHTTPSRedirect /\ served.tls = m.tls
  <2>1. served =
             [name |-> m.name, frontendName |-> m.frontendName,
              bindAddress |-> m.bindAddress, bindPort |-> m.bindPort, url |-> m.url,
              loadBalancing |-> strategy,
              backendName |-> m.backendName, backends |-> targets,
              trafficMode |-> mode,
              autoHTTPSRedirect |-> m.autoHTTPSRedirect, tls |-> m.tls]
    BY <1>2, <1>11, ServedFields
  <2> QED
    BY <2>1
<1>13. /\ c.name = key /\ c.frontendName = m.frontendName
       /\ c.bindAddress = m.bindAddress /\ c.bindPort = m.bindPort /\ c.url = m.url
       /\ c.backendName = m.backendName /\ c.backends = targets /\ c.trafficMode = mode
       /\ c.autoHTTPSRedirect = m.autoHTTPSRedirect /\ c.tls = tls
  BY <1>3
<1>14. ValidateConfiguration(served)
  BY <1>11 DEF Acceptable
<1>15. Blank(key) = Blank(m.name)
  BY <1>2, TextAssumption DEF Blank, Message
<1>16. CASE \A t \in m.tls : ~IsInline(t)
  <2>1. tls = m.tls
    BY <1>2, <1>16 DEF Moved
  <2>2. ValidateConfiguration(c)
    BY <1>12, <1>13, <1>14, <1>15, <2>1 DEF ValidateConfiguration
  <2>3. EnsureCertificatePath(c) = [c EXCEPT !.tls = tls]
    <3>1. {IF IsInline(t)
             THEN [t EXCEPT !.certificatePath = CertFile[c.name],
                            !.certificatePEM = "", !.privateKeyPEM = ""]
             ELSE t : t \in c.tls} = tls
      BY <1>13, <1>16, <2>1
    <3>2. EnsureCertificatePath(c) = [c EXCEPT !.tls =
             {IF IsInline(t)
                THEN [t EXCEPT !.certificatePath = CertFile[c.name],
                               !.certificatePEM = "", !.privateKeyPEM = ""]
                ELSE t : t \in c.tls}]
      BY DEF EnsureCertificatePath
    <3> QED
      BY <3>1, <3>2
  <2>4. [c EXCEPT !.tls = tls] = c
    BY <1>3
  <2> QED
    BY <1>1, <1>9, <1>10, <1>16, <2>2, <2>3, <2>4 DEF Acceptable
<1>17. ASSUME NEW t \in m.tls, IsInline(t)
       PROVE  ~ValidateConfiguration(c)
  <2>1. t \in TLSConfiguration /\ ValidateTLSConfiguration(t)
    BY AcceptedTLS
  <2>2. t.enabled /\ Blank(t.privateKeyPath)
    BY <1>17, <2>1, ValidTLS
  <2>3. PICK moved : moved = Moved(key, t)
    OBVIOUS
  <2>4. moved = [enabled |-> t.enabled, certificatePath |-> CertFile[key],
              privateKeyPath |-> t.privateKeyPath, certificatePEM |-> "", privateKeyPEM |-> "",
              skipBackendTLSVerify |-> t.skipBackendTLSVerify]
    BY <1>17, <2>1, <2>3, MovedFields
  <2>5. ~Blank(CertFile[key])
    BY <1>2, TextAssumption DEF Blank, Message
  <2>6. ~ValidateTLSConfiguration(moved)
    BY <2>2, <2>4, <2>5 DEF ValidateTLSConfiguration, HasPathPair
  <2>7. moved \in c.tls
    BY <1>2, <1>13, <2>3
  <2> QED
    BY <2>6, <2>7 DEF ValidateConfiguration
<1> QED
  BY <1>1, <1>9, <1>10, <1>16, <1>17 DEF Acceptable

-----------------------------------------------------------------------------
(* The invariant *)

\* Every configuration is what its message asked for.
Faithful ==
    \A c \in configurations :
        /\ c.name \in DOMAIN sent
        /\ sent[c.name] \in Message
        /\ Acceptable(sent[c.name])
        /\ c = Kept(sent[c.name])

\* What is shown is managed.
ShownIsManaged == \A m \in reply.shown : \E c \in configurations : m = ToProtoConfiguration(c)

\* The certificate of a configuration is in its file.
Filed ==
    \A c \in configurations : \A t \in sent[c.name].tls :
        IsInline(t) /\ (\A key \in DOMAIN sent : CertFile[key] = CertFile[c.name] => key = c.name)
            => /\ CertFile[c.name] \in DOMAIN certificates
               /\ certificates[CertFile[c.name]] = InlinePair(t)

Invariant == Faithful /\ ShownIsManaged /\ Filed

\* The name of what is kept, and of a stored configuration, is trimmed.
LEMMA KeptName ==
    ASSUME NEW m \in Message
    PROVE  /\ Kept(m).name = TrimSpace[m.name]
           /\ TrimSpace[Kept(m).name] = Kept(m).name
<1>1. Kept(m).name = TrimSpace[m.name]
  BY KeptFields
<1> QED
  BY <1>1, TextAssumption DEF Message

\* A message that is put replaces the configuration of its name, its
\* certificate and what was sent, and leaves those of other names.
LEMMA PutStep ==
    ASSUME Invariant, NEW m \in Message, Acceptable(m), Put(m)
    PROVE  Invariant'
<1>1. PICK key, kept : key = TrimSpace[m.name] /\ kept = Kept(m)
  OBVIOUS
<1>2. kept.name = key /\ TrimSpace[key] = key
  BY <1>1, KeptName
<1>3. PICK inline : inline = {t \in m.tls : IsInline(t)}
  OBVIOUS
<1>4. /\ configurations' = Others(key) \cup {kept}
      /\ certificates' = Written(key, inline)
      /\ sent' = [k \in DOMAIN sent \cup {key} |-> IF k = key THEN m ELSE sent[k]]
      /\ reply' = [code |-> "OK", shown |-> {ToProtoConfiguration(kept)}]
  <2>1. PICK served, stored : served = ToService(m) /\ stored = [served EXCEPT !.name = key]
    OBVIOUS
  <2>2. stored.tls = m.tls
    <3>1. served =
             [name |-> m.name, frontendName |-> m.frontendName,
              bindAddress |-> m.bindAddress, bindPort |-> m.bindPort, url |-> m.url,
              loadBalancing |-> LoadBalancingStrategies[m.loadBalancing],
              backendName |-> m.backendName, backends |-> ToServiceBackendTargets(m.backends),
              trafficMode |-> TrafficModes[m.trafficMode],
              autoHTTPSRedirect |-> m.autoHTTPSRedirect, tls |-> m.tls]
      BY <2>1, ServedFields
    <3> QED
      BY <2>1, <3>1
  <2>3. kept = EnsureCertificatePath(stored)
    BY <1>1, <2>1 DEF Kept, NormalizeConfigurationName
  <2>4. {t \in stored.tls : IsInline(t)} = inline
    BY <1>3, <2>2
  <2> QED
    BY <1>1, <2>1, <2>3, <2>4 DEF Put, NormalizeConfigurationName
<1>5. ASSUME NEW c \in Others(key)
      PROVE  c \in configurations /\ c.name # key /\ sent'[c.name] = sent[c.name]
             /\ c.name \in DOMAIN sent'
  <2>1. c \in configurations /\ TrimSpace[c.name] # key
    BY DEF Others, NormalizeConfigurationName
  <2>2. c.name \in DOMAIN sent
    BY <2>1 DEF Invariant, Faithful
  <2> QED
    BY <1>2, <1>4, <2>1, <2>2
<1>6. key \in DOMAIN sent' /\ sent'[key] = m
  BY <1>4
<1>7. Faithful'
  <2> SUFFICES ASSUME NEW c \in configurations'
               PROVE  /\ c.name \in DOMAIN sent' /\ sent'[c.name] \in Message
                      /\ Acceptable(sent'[c.name]) /\ c = Kept(sent'[c.name])
    BY DEF Faithful
  <2>1. CASE c \in Others(key)
    BY <1>5, <2>1 DEF Invariant, Faithful
  <2>2. CASE c = kept
    BY <1>1, <1>2, <1>6, <2>2
  <2> QED
    BY <1>4, <2>1, <2>2
<1>8. ShownIsManaged'
  BY <1>4 DEF ShownIsManaged
<1>9. Filed'
  <2> SUFFICES ASSUME NEW c \in configurations', NEW t \in sent'[c.name].tls, IsInline(t),
                      \A k \in DOMAIN sent' : CertFile[k] = CertFile[c.name] => k = c.name
               PROVE  /\ CertFile[c.name] \in DOMAIN certificates'
                      /\ certificates'[CertFile[c.name]] = InlinePair(t)
    BY DEF Filed
  <2>1. /\ DOMAIN certificates' = DOMAIN certificates \cup {CertFile[key] : u \in inline}
        /\ \A p \in DOMAIN certificates' :
              certificates'[p] = IF p = CertFile[key] /\ inline # {}
                                   THEN InlinePair(CHOOSE u \in inline : TRUE) ELSE certificates[p]
    BY <1>4 DEF Written
  <2>2. CASE c \in Others(key)
    <3>1. CertFile[key] # CertFile[c.name]
      BY <1>5, <1>6, <2>2
    <3>2. DOMAIN sent \subseteq DOMAIN sent'
      BY <1>4
    <3>3. /\ CertFile[c.name] \in DOMAIN certificates
          /\ certificates[CertFile[c.name]] = InlinePair(t)
      BY <1>5, <2>2, <3>2 DEF Invariant, Filed
    <3> QED
      BY <2>1, <3>1, <3>3
  <2>3. CASE c = kept
    <3>1. t \in m.tls /\ t \in inline
      BY <1>2, <1>3, <1>6, <2>3
    <3>2. inline = {t}
      <4>1. m.tls \in Pointer(TLSConfiguration)
        BY DEF Message
      <4> QED
        BY <1>3, <3>1, <4>1 DEF Pointer
    <3>3. (CHOOSE u \in inline : TRUE) = t
      BY <3>2
    <3> QED
      BY <1>2, <2>1, <2>3, <3>1, <3>3
  <2> QED
    BY <1>4, <2>2, <2>3
<1> QED
  BY <1>7, <1>8, <1>9 DEF Invariant

\* A call that only changes the answer.
LEMMA AnswerStep ==
    ASSUME Invariant, UNCHANGED <<certificates, sent>>, configurations' \subseteq configurations,
           \A m \in reply'.shown : \E c \in configurations' : m = ToProtoConfiguration(c)
    PROVE  Invariant'
<1>1. Faithful'
  BY DEF Invariant, Faithful
<1>2. Filed'
  BY DEF Invariant, Filed
<1> QED
  BY <1>1, <1>2 DEF Invariant, ShownIsManaged

\* A refusal shows nothing.
LEMMA RefuseStep ==
    ASSUME Invariant, NEW code, Refuse(code)
    PROVE  Invariant'
<1>1. reply'.shown = {}
  BY DEF Refuse
<1> QED
  BY <1>1, AnswerStep DEF Refuse

\* Every call preserves the invariant.
LEMMA InvariantStep ==
    ASSUME Invariant, [Next]_vars
    PROVE  Invariant'
<1>1. CASE UNCHANGED vars
  <2>1. \A m \in reply'.shown : \E c \in configurations' : m = ToProtoConfiguration(c)
    BY <1>1 DEF vars, Invariant, ShownIsManaged
  <2> QED
    BY <1>1, <2>1, AnswerStep DEF vars
<1>2. \A m \in Messages \cup reply.shown : m \in Message
  <2>1. \A m \in reply.shown : m \in Message
    BY ShownMeans DEF Invariant, ShownIsManaged, Faithful
  <2> QED
    BY <2>1, MessageAssumption
<1>3. ASSUME NEW request \in {{}} \cup {{m} : m \in Messages}, CreateConfiguration(request)
      PROVE  Invariant'
  BY <1>2, <1>3, PutStep, RefuseStep DEF CreateConfiguration
<1>4. ASSUME NEW request \in {{}} \cup {{m} : m \in Messages \cup reply.shown},
             UpdateConfiguration(request)
      PROVE  Invariant'
  BY <1>2, <1>4, PutStep, RefuseStep DEF UpdateConfiguration
<1>5. ASSUME NEW name, GetConfiguration(name)
      PROVE  Invariant'
  <2>1. CASE NameError(name) # ""
    BY <1>5, <2>1, RefuseStep DEF GetConfiguration
  <2>2. CASE NameError(name) = ""
    <3>1. PICK found : found = configurations \ Others(NormalizeConfigurationName(name))
      OBVIOUS
    <3>2. PICK shown : shown = {ToProtoConfiguration(c) : c \in found}
      OBVIOUS
    <3>3. /\ reply' = [code |-> "OK", shown |-> shown]
          /\ UNCHANGED <<configurations, certificates, sent>>
      BY <1>5, <2>2, <3>1, <3>2 DEF GetConfiguration
    <3>4. reply'.shown = shown
      BY <3>3
    <3> QED
      BY <3>1, <3>2, <3>3, <3>4, AnswerStep
  <2> QED
    BY <2>1, <2>2
<1>6. ASSUME NEW name, DeleteConfiguration(name)
      PROVE  Invariant'
  <2>1. CASE NameError(name) # ""
    BY <1>6, <2>1, RefuseStep DEF DeleteConfiguration
  <2>2. CASE NameError(name) = ""
    <3>1. /\ configurations' = Others(NormalizeConfigurationName(name))
          /\ reply' = [code |-> "OK", shown |-> {}]
          /\ UNCHANGED <<certificates, sent>>
      BY <1>6, <2>2 DEF DeleteConfiguration
    <3>2. configurations' \subseteq configurations
      BY <3>1 DEF Others
    <3>3. reply'.shown = {}
      BY <3>1
    <3> QED
      BY <3>1, <3>2, <3>3, AnswerStep
  <2> QED
    BY <2>1, <2>2
<1>7. CASE ListConfigurations
  <2>1. /\ reply'.shown = {ToProtoConfiguration(c) : c \in configurations}
        /\ UNCHANGED <<configurations, certificates, sent>>
    BY <1>7 DEF ListConfigurations
  <2> QED
    BY <2>1, AnswerStep
<1> QED
  BY <1>1, <1>3, <1>4, <1>5, <1>6, <1>7 DEF Next

\* Every configuration is what an accepted message asked for, what is shown is
\* managed, and certificates are filed, in every behaviour.
THEOREM ConfigurationsAreFaithful == Spec => []Invariant
<1>1. Init => Invariant
  <2> SUFFICES ASSUME Init PROVE Invariant
    OBVIOUS
  <2>1. configurations = {}
    BY DEF Init
  <2>2. reply.shown = {}
    BY DEF Init
  <2> QED
    BY <2>1, <2>2 DEF Invariant, Faithful, ShownIsManaged, Filed
<1> QED
  BY <1>1, InvariantStep, PTL DEF Spec

\* Whatever messages clients send, each configuration that is shown is the one
\* last sent under its name, through both conversions and the certificate step.
THEOREM ShownIsSent == Spec => []ShownAsSent
<1>1. Invariant => ShownAsSent
  <2> SUFFICES ASSUME Invariant, NEW shown \in reply.shown
               PROVE  shown = Meant(sent[shown.name])
    BY DEF ShownAsSent
  <2>1. PICK c \in configurations : shown = ToProtoConfiguration(c)
    BY DEF Invariant, ShownIsManaged
  <2>2. PICK m \in Message : m = sent[c.name] /\ Acceptable(m) /\ c = Kept(m)
    BY <2>1 DEF Invariant, Faithful
  <2>3. shown = Meant(m)
    BY <2>1, <2>2, ShownMeans
  <2>4. shown.name = c.name
    <3>1. c.name = TrimSpace[m.name]
      BY <2>2, KeptName
    <3>2. Meant(m).name = TrimSpace[m.name]
      BY DEF Meant, Message
    <3> QED
      BY <2>3, <3>1, <3>2
  <2> QED
    BY <2>2, <2>3, <2>4
<1> QED
  BY <1>1, ConfigurationsAreFaithful, PTL

\* A client that sends back what it was shown changes nothing, and is refused
\* just if the certificate was sent inline.
THEOREM ShownComesBack == Spec => []SendsBack
<1>1. Invariant => SendsBack
  BY KeptSendsBack DEF Invariant, Faithful, SendsBack
<1> QED
  BY <1>1, ConfigurationsAreFaithful, PTL

\* Whatever was accepted becomes sections that HAProxy can make sense of.
THEOREM RenderingIsSound == Spec => []RendersSoundly
<1>1. Invariant => RendersSoundly
  BY KeptRenders DEF Invariant, Faithful, RendersSoundly
<1> QED
  BY <1>1, ConfigurationsAreFaithful, PTL

\* An inline certificate is in its file as long as no other name leads there.
THEOREM CertificatesAreFiled == Spec => []CertificatesKeptApart
<1>1. Invariant => CertificatesKeptApart
  BY DEF Invariant, Filed, CertificatesKeptApart
<1> QED
  BY <1>1, ConfigurationsAreFaithful, PTL
=============================================================================
