------------------------------ MODULE Induction ------------------------------
(***************************************************************************)
(* Induction over natural numbers for the proofs about loads, messages and *)
(* files, whose definitions go through sequences.  The principle is stated *)
(* with sets, since a predicate cannot be passed to a theorem here, and    *)
(* rests on the well-foundedness of inclusion.                             *)
(***************************************************************************)
EXTENDS Integers, SequencesExt, FiniteSetTheorems, WellFoundedInduction, TLAPS

\* A set of natural numbers has a least element.
LEMMA LeastElement ==
    ASSUME NEW T \in SUBSET Nat, T # {}
    PROVE  \E n \in T : \A m \in T : n <= m
<1> DEFINE F == {1 .. n : n \in T}
<1>1. F \subseteq FiniteSubsetsOf(Nat) /\ F # {}
  <2>1. ASSUME NEW n \in T
        PROVE  1 .. n \in FiniteSubsetsOf(Nat)
    BY FS_Interval DEF FiniteSubsetsOf
  <2> QED
    BY <2>1
<1>2. PICK X \in F : \A Y \in F : <<Y, X>> \notin StrictSubsetOrdering(Nat)
  <2> HIDE DEF F
  <2> QED
    BY <1>1, WFMin, FS_StrictSubsetOrderingWellFounded
<1>3. PICK n \in T : X = 1 .. n
  OBVIOUS
<1>4. ASSUME NEW m \in T, m < n
      PROVE  FALSE
  <2>1. 1 .. m \in F
    OBVIOUS
  <2>2. 1 .. m \subseteq 1 .. n /\ 1 .. m # 1 .. n
    <3>1. n \in 1 .. n /\ n \notin 1 .. m
      BY <1>4
    <3> QED
      BY <3>1, <1>4
  <2>3. 1 .. m \in SUBSET Nat /\ X \in SUBSET Nat
    BY <1>3
  <2> HIDE DEF F
  <2> QED
    BY <1>2, <1>3, <2>1, <2>2, <2>3 DEF StrictSubsetOrdering
<1> QED
  BY <1>4

\* A bounded one has a greatest element.
LEMMA GreatestElement ==
    ASSUME NEW T \in SUBSET Nat, T # {}, NEW bound \in Nat, \A n \in T : n <= bound
    PROVE  \E n \in T : \A m \in T : m <= n
<1> DEFINE U == {bound - n : n \in T}
<1>1. U \in SUBSET Nat
  <2>1. \A n \in T : bound - n \in Nat
    OBVIOUS
  <2> QED
    BY <2>1
<1>2. U # {}
  OBVIOUS
<1>3. PICK u \in U : \A m \in U : u <= m
  <2> HIDE DEF U
  <2> QED
    BY <1>1, <1>2, LeastElement
<1>4. PICK n \in T : u = bound - n
  OBVIOUS
<1>5. ASSUME NEW m \in T
      PROVE  m <= n
  <2>1. u <= bound - m
    BY <1>3
  <2>2. n \in Nat /\ m \in Nat
    OBVIOUS
  <2> QED
    BY <1>4, <2>1, <2>2
<1> QED
  BY <1>5

\* What holds at 0 and is passed on by each number below the bound holds up
\* to the bound.
LEMMA Counting ==
    ASSUME NEW bound \in Nat, NEW T, 0 \in T,
           \A n \in 0 .. bound - 1 : n \in T => n + 1 \in T
    PROVE  0 .. bound \subseteq T
<1> DEFINE U == (0 .. bound) \ T
<1> SUFFICES ASSUME U # {}
             PROVE  FALSE
  OBVIOUS
<1>1. PICK n \in U : \A m \in U : n <= m
  <2>1. U \in SUBSET Nat
    OBVIOUS
  <2> HIDE DEF U
  <2> QED
    BY <2>1, LeastElement
<1>2. n \in 0 .. bound /\ n # 0
  OBVIOUS
<1>3. n - 1 \in 0 .. bound - 1 /\ n - 1 \in T
  BY <1>1, <1>2
<1>4. n - 1 + 1 = n
  BY <1>2
<1> QED
  BY <1>3, <1>4

\* The greatest element of a set of positions.
LEMMA MaxOf ==
    ASSUME NEW T \in SUBSET Nat, NEW bound \in Nat, T # {}, \A n \in T : n <= bound
    PROVE  Max(T) \in T /\ \A n \in T : n <= Max(T)
<1>1. PICK n \in T : \A m \in T : m <= n
  BY GreatestElement
<1>2. \A m \in T : n >= m
  BY <1>1
<1> QED
  BY <1>2 DEF Max

\* The least element of one.
LEMMA MinOf ==
    ASSUME NEW T \in SUBSET Nat, T # {}
    PROVE  Min(T) \in T /\ \A n \in T : Min(T) <= n
<1>1. \E n \in T : \A m \in T : n <= m
  BY LeastElement
<1> QED
  BY <1>1 DEF Min

\* Adding the next position makes it the greatest.
LEMMA MaxOfPrefix ==
    ASSUME NEW n \in Nat, NEW s \in SUBSET (1 .. n + 1), s # {}
    PROVE  /\ n + 1 \in s => Max(s) = n + 1
           /\ Max(s) \in s
           /\ n + 1 \notin s => s \subseteq 1 .. n
           /\ s \ {Max(s)} \subseteq 1 .. n
<1>1. Max(s) \in s /\ \A m \in s : m <= Max(s)
  <2>1. s \in SUBSET Nat /\ n + 1 \in Nat /\ \A m \in s : m <= n + 1
    OBVIOUS
  <2> QED
    BY <2>1, MaxOf
<1>2. Max(s) \in 1 .. n + 1
  BY <1>1
<1>3. n + 1 \in s => Max(s) = n + 1
  BY <1>1, <1>2
<1>4. \A m \in 1 .. n + 1 : m # n + 1 => m \in 1 .. n
  OBVIOUS
<1>5. s \ {Max(s)} \subseteq 1 .. n
  <2>1. n + 1 \notin s \ {Max(s)}
    BY <1>3
  <2> QED
    BY <1>4, <2>1
<1> QED
  BY <1>1, <1>3, <1>4, <1>5

\* The positions up to one, and those before it.
LEMMA MaxOfInterval ==
    ASSUME NEW n \in Nat, n > 0
    PROVE  /\ 1 .. n # {} /\ Max(1 .. n) = n
           /\ (1 .. n) \ {n} = 1 .. n - 1
<1>1. n \in 1 .. n /\ \A m \in 1 .. n : n >= m
  OBVIOUS
<1>2. \A x \in 1 .. n : (\A m \in 1 .. n : x >= m) => x = n
  BY <1>1
<1>3. Max(1 .. n) = n
  BY <1>1, <1>2 DEF Max
<1>4. (1 .. n) \ {n} = 1 .. n - 1
  OBVIOUS
<1> QED
  BY <1>1, <1>3, <1>4
=============================================================================
