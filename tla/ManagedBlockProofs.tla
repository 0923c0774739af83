------------------------- MODULE ManagedBlockProofs -------------------------
(***************************************************************************)
(* Proofs about ManagedBlock, for any configurations and files.  A merge   *)
(* puts the block between two parts of the file; where the markers of the  *)
(* result are, what its block holds and what stands outside of it follow   *)
(* from those parts.                                                       *)
(***************************************************************************)
EXTENDS ManagedBlock, Induction, SequenceTheorems

-----------------------------------------------------------------------------
(* Sequences *)

\* A slice is the sequence whose elements stand at its positions.
LEMMA SliceIs ==
    ASSUME NEW X, NEW whole \in Seq(X), NEW part \in Seq(X), NEW from \in Nat,
           from + Len(part) <= Len(whole),
           \A n \in 1 .. Len(part) : whole[from + n] = part[n]
    PROVE  SubSeq(whole, from + 1, from + Len(part)) = part
<1>1. PICK slice : slice = SubSeq(whole, from + 1, from + Len(part))
  OBVIOUS
<1>2. PICK N \in Nat : N = Len(part)
  OBVIOUS
<1>3. slice \in Seq(X) /\ Len(slice) = N /\ \A n \in 1 .. N : slice[n] = whole[from + n]
  <2>1. from + 1 \in Nat /\ from + N \in Nat /\ from + N <= Len(whole) /\ Len(whole) \in Nat
    BY <1>2
  <2>2. \A n \in from + 1 .. from + N : n \in 1 .. Len(whole)
    BY <2>1
  <2>3. slice = [n \in 1 .. N |-> whole[from + n]]
    BY <1>1, <1>2, <2>1
  <2>4. \A n \in 1 .. N : whole[from + n] \in X
    BY <2>1
  <2> QED
    BY <2>3, <2>4
<1>4. slice = part
  BY <1>2, <1>3, SeqEqual
<1> QED
  BY <1>1, <1>4

\* Three parts, one after the other.
LEMMA ThreeParts ==
    ASSUME NEW X, NEW a \in Seq(X), NEW b \in Seq(X), NEW c \in Seq(X),
           NEW whole, whole = a \o b \o c
    PROVE  /\ whole \in Seq(X) /\ Len(whole) = Len(a) + Len(b) + Len(c)
           /\ \A n \in 1 .. Len(a) : whole[n] = a[n]
           /\ \A n \in 1 .. Len(b) : whole[Len(a) + n] = b[n]
           /\ \A n \in 1 .. Len(c) : whole[Len(a) + Len(b) + n] = c[n]
<1>1. PICK A, B, C \in Nat : A = Len(a) /\ B = Len(b) /\ C = Len(c)
  OBVIOUS
<1>2. PICK ab : ab = a \o b
  OBVIOUS
<1>3. /\ ab \in Seq(X) /\ Len(ab) = A + B
      /\ \A n \in 1 .. A + B : ab[n] = IF n <= A THEN a[n] ELSE b[n - A]
  BY <1>1, <1>2, ConcatProperties
<1>4. /\ whole \in Seq(X) /\ Len(whole) = A + B + C
      /\ \A n \in 1 .. A + B + C : whole[n] = IF n <= A + B THEN ab[n] ELSE c[n - (A + B)]
  <2>1. /\ ab \o c \in Seq(X) /\ Len(ab \o c) = Len(ab) + Len(c)
        /\ \A n \in 1 .. Len(ab) + Len(c) :
              (ab \o c)[n] = IF n <= Len(ab) THEN ab[n] ELSE c[n - Len(ab)]
    BY <1>3, ConcatProperties
  <2> QED
    BY <1>1, <1>2, <1>3, <2>1
<1>5. ASSUME NEW n \in 1 .. A
      PROVE  whole[n] = a[n]
  <2>1. n \in 1 .. A + B + C /\ n \in 1 .. A + B /\ n <= A /\ n <= A + B
    OBVIOUS
  <2> QED
    BY <1>3, <1>4, <2>1
<1>6. ASSUME NEW n \in 1 .. B
      PROVE  whole[A + n] = b[n]
  <2>1. A + n \in 1 .. A + B + C /\ A + n \in 1 .. A + B /\ ~(A + n <= A) /\ A + n <= A + B
        /\ (A + n) - A = n
    OBVIOUS
  <2> QED
    BY <1>3, <1>4, <2>1
<1>7. ASSUME NEW n \in 1 .. C
      PROVE  whole[A + B + n] = c[n]
  <2>1. A + B + n \in 1 .. A + B + C /\ ~(A + B + n <= A + B) /\ (A + B + n) - (A + B) = n
    OBVIOUS
  <2> QED
    BY <1>4, <2>1
<1> QED
  BY <1>1, <1>4, <1>5, <1>6, <1>7

\* The outer two of three parts, cut out of the whole.
LEMMA OuterParts ==
    ASSUME NEW X, NEW a \in Seq(X), NEW b \in Seq(X), NEW c \in Seq(X),
           NEW whole, whole = a \o b \o c
    PROVE  /\ SubSeq(whole, 1, Len(a)) = a
           /\ SubSeq(whole, Len(a) + Len(b) + 1, Len(whole)) = c
<1>1. /\ whole \in Seq(X) /\ Len(whole) = Len(a) + Len(b) + Len(c)
      /\ \A n \in 1 .. Len(a) : whole[n] = a[n]
      /\ \A n \in 1 .. Len(c) : whole[Len(a) + Len(b) + n] = c[n]
  BY ThreeParts
<1>2. Len(a) \in Nat /\ Len(b) \in Nat /\ Len(c) \in Nat
  OBVIOUS
<1>3. SubSeq(whole, 0 + 1, 0 + Len(a)) = a
  <2>1. 0 + Len(a) <= Len(whole) /\ \A n \in 1 .. Len(a) : whole[0 + n] = a[n]
    BY <1>1, <1>2
  <2> QED
    BY <1>1, <2>1, SliceIs
<1>4. SubSeq(whole, Len(a) + Len(b) + 1, Len(a) + Len(b) + Len(c)) = c
  <2>1. Len(a) + Len(b) \in Nat /\ Len(a) + Len(b) + Len(c) <= Len(whole)
    BY <1>1, <1>2
  <2> QED
    BY <1>1, <2>1, SliceIs
<1> QED
  BY <1>1, <1>2, <1>3, <1>4

-----------------------------------------------------------------------------
(* Lists and blocks *)

Contents ==
    Configs \cup {NoConfig} \cup {[name |-> 0, body |-> u] : u \in UserLines}

\* Any line a file may hold.
AnyLine ==
    [kind : {"start", "end", "blank", "corrupt", "config", "section", "user"}, of : Contents]

\* The lines of the model are among them.
LEMMA LinesOfFiles ==
    /\ ManagedBlockStart \in AnyLine /\ ManagedBlockEnd \in AnyLine
    /\ Blank \in AnyLine /\ Junk \in AnyLine /\ Line("user", NoConfig) \in AnyLine
    /\ \A c \in Configs : ManagedConfigLine(c) \in AnyLine /\ Section(c) \in AnyLine
    /\ \A u \in UserLines : UserLine(u) \in AnyLine
<1> HIDE DEF NoConfig, Configs
<1>1. NoConfig \in Contents /\ Configs \subseteq Contents
  BY DEF Contents
<1>2. \A u \in UserLines : [name |-> 0, body |-> u] \in Contents
  BY DEF Contents
<1> QED
  BY <1>1, <1>2 DEF AnyLine, Line, ManagedBlockStart, ManagedBlockEnd, Blank, Junk,
                    ManagedConfigLine, Section, UserLine

\* The configurations of a list stand at the positions of its sorted sequence,
\* each at one of them.
LEMMA SortedIsList ==
    ASSUME NEW list \in ConfigLists
    PROVE  /\ Cardinality(list) \in Nat
           /\ Sorted(list) = [n \in 1 .. Cardinality(list) |-> Sorted(list)[n]]
           /\ \A n \in 1 .. Cardinality(list) : Sorted(list)[n] \in list
           /\ \A c \in list : \E n \in 1 .. Cardinality(list) : Sorted(list)[n] = c
<1> DEFINE N == Cardinality(list)
           UpTo(c) == {d \in list : d.name <= c.name}
           rank == [c \in list |-> Rank(list, c)]
<1>1. /\ IsFiniteSet(list) /\ N \in Nat
      /\ \A c, d \in list : c.name = d.name => c = d
      /\ \A c \in list : c.name \in Int
  <2>1. list \subseteq Configs /\ IsFiniteSet(list) /\ \A c, d \in list : c.name = d.name => c = d
    BY DEF ConfigLists
  <2>2. \A c \in Configs : c.name \in Int
    BY NamesAssumption DEF Configs
  <2>3. N \in Nat
    BY <2>1, FS_CardinalityType
  <2> QED
    BY <2>1, <2>2, <2>3
<1>2. \A c \in list : /\ UpTo(c) \in SUBSET list /\ c \in UpTo(c)
                      /\ Rank(list, c) = Cardinality(UpTo(c)) /\ IsFiniteSet(UpTo(c))
  <2> SUFFICES ASSUME NEW c \in list
               PROVE  /\ UpTo(c) \in SUBSET list /\ c \in UpTo(c)
                      /\ Rank(list, c) = Cardinality(UpTo(c)) /\ IsFiniteSet(UpTo(c))
    OBVIOUS
  <2>1. UpTo(c) \in SUBSET list /\ c \in UpTo(c)
    BY <1>1
  <2>2. IsFiniteSet(UpTo(c))
    BY <1>1, <2>1, FS_Subset
  <2> QED
    BY <2>1, <2>2 DEF Rank
<1>3. \A c \in list : Rank(list, c) \in 1 .. N
  <2> SUFFICES ASSUME NEW c \in list PROVE Rank(list, c) \in 1 .. N
    OBVIOUS
  <2> HIDE DEF UpTo
  <2>1. Cardinality(UpTo(c)) \in Nat /\ Cardinality(UpTo(c)) <= N
    BY <1>1, <1>2, FS_Subset, FS_CardinalityType
  <2>2. Cardinality(UpTo(c)) # 0
    BY <1>2, FS_EmptySet
  <2> QED
    BY <1>1, <1>2, <2>1, <2>2
<1>4. ASSUME NEW c \in list, NEW d \in list, Rank(list, c) = Rank(list, d), c.name <= d.name
      PROVE  c = d
  <2>1. UpTo(c) \in SUBSET UpTo(d)
    BY <1>1, <1>4
  <2>2. UpTo(d) = UpTo(c)
    <3> HIDE DEF UpTo
    <3> QED
      BY <1>2, <1>4, <2>1, FS_Subset
  <2>3. d \in UpTo(c)
    BY <1>2, <2>2
  <2>4. d.name <= c.name
    BY <2>3
  <2> QED
    BY <1>1, <1>4, <2>4
<1>5. \A c, d \in list : Rank(list, c) = Rank(list, d) => c = d
  <2>1. \A c, d \in list : c.name <= d.name \/ d.name <= c.name
    BY <1>1
  <2> QED
    BY <1>4, <2>1
<1>6. rank \in Injection(list, 1 .. N)
  BY <1>3, <1>5 DEF Injection, IsInjective
<1>7. rank \in Surjection(list, 1 .. N)
  <2>1. IsFiniteSet(1 .. N) /\ Cardinality(1 .. N) = N
    <3>1. N \in Int /\ 1 \in Int
      BY <1>1
    <3>2. IsFiniteSet(1 .. N) /\ Cardinality(1 .. N) = IF 1 > N THEN 0 ELSE N - 1 + 1
      BY <3>1, FS_Interval
    <3> QED
      BY <1>1, <3>2
  <2> HIDE DEF rank
  <2> QED
    BY <1>6, <2>1, FS_Injection
<1>8. \A n \in 1 .. N : \E c \in list : Rank(list, c) = n
  BY <1>7 DEF Surjection
<1>9. \A n \in 1 .. N : Sorted(list)[n] \in list /\ Rank(list, Sorted(list)[n]) = n
  BY <1>8 DEF Sorted
<1>10. \A c \in list : \E n \in 1 .. N : Sorted(list)[n] = c
  <2> SUFFICES ASSUME NEW c \in list PROVE \E n \in 1 .. N : Sorted(list)[n] = c
    OBVIOUS
  <2>1. Sorted(list)[Rank(list, c)] = c
    BY <1>3, <1>5, <1>9
  <2> QED
    BY <1>3, <2>1
<1>11. Sorted(list) = [n \in 1 .. N |-> Sorted(list)[n]]
  BY DEF Sorted
<1> QED
  BY <1>1, <1>9, <1>10, <1>11

\* A block is a start marker, the configurations, their sections and an end
\* marker.
LEMMA BlockShape ==
    ASSUME NEW list \in ConfigLists, NEW block, block = RenderManagedBlock(list),
           NEW N, N = Cardinality(list)
    PROVE  /\ N \in Nat /\ block \in Seq(AnyLine) /\ Len(block) = 2 * N + 2
           /\ block[1] = ManagedBlockStart /\ block[2 * N + 2] = ManagedBlockEnd
           /\ \A n \in 1 .. N : /\ block[1 + n] = ManagedConfigLine(Sorted(list)[n])
                                /\ block[1 + N + n] = Section(Sorted(list)[n])
<1>1. PICK sorted : sorted = Sorted(list)
  OBVIOUS
<1>2. /\ N \in Nat /\ sorted = [n \in 1 .. N |-> sorted[n]]
      /\ \A n \in 1 .. N : sorted[n] \in list
  BY <1>1, SortedIsList
<1>3. DOMAIN sorted = 1 .. N
  BY <1>2
<1>4. \A n \in 1 .. N : sorted[n] \in Configs
  BY <1>2 DEF ConfigLists
<1>5. PICK configs : configs = [i \in 1 .. N |-> ManagedConfigLine(sorted[i])]
  OBVIOUS
<1>6. PICK sections : sections = [i \in 1 .. N |-> Section(sorted[i])]
  OBVIOUS
<1>7. /\ configs \in Seq(AnyLine) /\ Len(configs) = N
      /\ \A n \in 1 .. N : configs[n] = ManagedConfigLine(sorted[n])
  <2>1. \A n \in 1 .. N : ManagedConfigLine(sorted[n]) \in AnyLine
    BY <1>4, LinesOfFiles
  <2> QED
    BY <1>2, <1>5, <2>1
<1>8. /\ sections \in Seq(AnyLine) /\ Len(sections) = N
      /\ \A n \in 1 .. N : sections[n] = Section(sorted[n])
  <2>1. \A n \in 1 .. N : Section(sorted[n]) \in AnyLine
    BY <1>4, LinesOfFiles
  <2> QED
    BY <1>2, <1>6, <2>1
<1>9. PICK head : head = <<ManagedBlockStart>>
  OBVIOUS
<1>10. PICK last : last = <<ManagedBlockEnd>>
  OBVIOUS
<1>11. /\ head \in Seq(AnyLine) /\ Len(head) = 1 /\ head[1] = ManagedBlockStart
       /\ last \in Seq(AnyLine) /\ Len(last) = 1 /\ last[1] = ManagedBlockEnd
  BY <1>9, <1>10, LinesOfFiles
<1>12. block = head \o configs \o sections \o last
  BY <1>1, <1>3, <1>5, <1>6, <1>9, <1>10 DEF RenderManagedBlock
<1>13. PICK most : most = head \o configs \o sections
  OBVIOUS
<1>14. /\ most \in Seq(AnyLine) /\ Len(most) = 1 + N + N
       /\ \A n \in 1 .. 1 : most[n] = head[n]
       /\ \A n \in 1 .. N : most[1 + n] = configs[n]
       /\ \A n \in 1 .. N : most[1 + N + n] = sections[n]
  <2>1. /\ most \in Seq(AnyLine) /\ Len(most) = Len(head) + Len(configs) + Len(sections)
        /\ \A n \in 1 .. Len(head) : most[n] = head[n]
        /\ \A n \in 1 .. Len(configs) : most[Len(head) + n] = configs[n]
        /\ \A n \in 1 .. Len(sections) : most[Len(head) + Len(configs) + n] = sections[n]
    <3>1. head \in Seq(AnyLine) /\ configs \in Seq(AnyLine) /\ sections \in Seq(AnyLine)
      BY <1>7, <1>8, <1>11
    <3> QED
      BY ONLY <1>13, <3>1, ThreeParts
  <2> QED
    BY <1>7, <1>8, <1>11, <2>1
<1>15. /\ block \in Seq(AnyLine) /\ Len(block) = 1 + N + N + 1
       /\ \A n \in 1 .. 1 + N + N + 1 : block[n] = IF n <= 1 + N + N THEN most[n]
                                                   ELSE last[n - (1 + N + N)]
  <2>1. /\ most \o last \in Seq(AnyLine) /\ Len(most \o last) = Len(most) + Len(last)
        /\ \A n \in 1 .. Len(most) + Len(last) :
              (most \o last)[n] = IF n <= Len(most) THEN most[n] ELSE last[n - Len(most)]
    BY <1>11, <1>14, ConcatProperties
  <2> QED
    BY <1>11, <1>12, <1>13, <1>14, <2>1
<1>16. block[1] = ManagedBlockStart
  <2>1. 1 \in 1 .. 1 + N + N + 1 /\ 1 <= 1 + N + N /\ 1 \in 1 .. 1
    BY <1>2
  <2> QED
    BY <1>11, <1>14, <1>15, <2>1
<1>17. block[2 * N + 2] = ManagedBlockEnd
  <2>1. /\ 2 * N + 2 \in 1 .. 1 + N + N + 1 /\ ~(2 * N + 2 <= 1 + N + N)
        /\ (2 * N + 2) - (1 + N + N) = 1
    BY <1>2
  <2> QED
    BY <1>11, <1>15, <2>1
<1>18. ASSUME NEW n \in 1 .. N
       PROVE  block[1 + n] = ManagedConfigLine(sorted[n]) /\ block[1 + N + n] = Section(sorted[n])
  <2>1. /\ 1 + n \in 1 .. 1 + N + N + 1 /\ 1 + n <= 1 + N + N
        /\ 1 + N + n \in 1 .. 1 + N + N + 1 /\ 1 + N + n <= 1 + N + N
    BY <1>2
  <2>2. block[1 + n] = configs[n]
    BY <1>14, <1>15, <2>1
  <2>3. block[1 + N + n] = sections[n]
    BY <1>14, <1>15, <2>1
  <2> QED
    BY <1>7, <1>8, <2>2, <2>3
<1> QED
  BY <1>1, <1>2, <1>15, <1>16, <1>17, <1>18

-----------------------------------------------------------------------------
(* Markers *)

\* Where the first start marker is, if there is one.
LEMMA StartIs ==
    ASSUME NEW lines \in Seq(AnyLine), NEW s, s = StartOf(lines)
    PROVE  /\ s \in 0 .. Len(lines)
           /\ s = 0 => \A n \in 1 .. Len(lines) : lines[n].kind # "start"
           /\ s # 0 => /\ lines[s].kind = "start"
                       /\ \A n \in 1 .. Len(lines) : lines[n].kind = "start" => s <= n
<1> DEFINE I == {n \in 1 .. Len(lines) : lines[n].kind = "start"}
<1>1. s = IF I # {} THEN Min(I) ELSE 0
  BY DEF StartOf, SelectInSeq
<1>2. Len(lines) \in Nat
  OBVIOUS
<1>3. I \in SUBSET Nat
  BY <1>2
<1>4. CASE I = {}
  BY <1>1, <1>2, <1>4
<1>5. CASE I # {}
  <2>1. s \in I /\ \A n \in I : s <= n
    <3> HIDE DEF I
    <3> QED
      BY <1>1, <1>3, <1>5, MinOf
  <2> QED
    BY <1>2, <2>1
<1> QED
  BY <1>4, <1>5

\* A start marker that none precedes is the first one.
LEMMA StartAt ==
    ASSUME NEW lines \in Seq(AnyLine), NEW s \in 1 .. Len(lines), lines[s].kind = "start",
           \A n \in 1 .. s - 1 : lines[n].kind # "start"
    PROVE  StartOf(lines) = s
<1>1. PICK t : t = StartOf(lines)
  OBVIOUS
<1>2. t \in 0 .. Len(lines) /\ t # 0 /\ lines[t].kind = "start" /\ t <= s
  BY <1>1, StartIs
<1>3. Len(lines) \in Nat
  OBVIOUS
<1>4. ~(t \in 1 .. s - 1)
  BY <1>2
<1> QED
  BY <1>1, <1>2, <1>3, <1>4

\* Where the first end marker from the start marker on is, if there is one.
LEMMA EndIs ==
    ASSUME NEW lines \in Seq(AnyLine), NEW s, s = StartOf(lines), s # 0,
           NEW e, e = EndOf(lines)
    PROVE  /\ e = 0 \/ e \in s + 1 .. Len(lines)
           /\ e = 0 => \A n \in s .. Len(lines) : lines[n].kind # "end"
           /\ e # 0 => /\ lines[e].kind = "end"
                       /\ \A n \in s .. Len(lines) : lines[n].kind = "end" => e <= n
<1> DEFINE I == {n \in s .. Len(lines) : IsEnd(lines[n])}
<1>1. e = IF I # {} THEN Min(I) ELSE 0
  BY DEF EndOf, SelectInSubSeq
<1>2. Len(lines) \in Nat /\ s \in 1 .. Len(lines) /\ lines[s].kind = "start"
  BY StartIs
<1>3. I \in SUBSET Nat
  BY <1>2
<1>4. \A n \in s .. Len(lines) : n \in I <=> lines[n].kind = "end"
  BY DEF IsEnd
<1>5. CASE I = {}
  <2>1. e = 0
    BY <1>1, <1>5
  <2>2. \A n \in s .. Len(lines) : n \notin I
    BY <1>5
  <2> HIDE DEF I
  <2> QED
    BY <1>4, <2>1, <2>2
<1>6. CASE I # {}
  <2>1. e \in I /\ \A n \in I : e <= n
    <3> HIDE DEF I
    <3> QED
      BY <1>1, <1>3, <1>6, MinOf
  <2>2. e \in s .. Len(lines)
    BY <2>1
  <2>3. lines[e].kind = "end"
    <3> HIDE DEF I
    <3> QED
      BY <1>4, <2>1, <2>2
  <2>4. e # s
    BY <1>2, <2>3
  <2>5. e \in s + 1 .. Len(lines)
    BY <1>2, <2>2, <2>4
  <2>6. \A n \in s .. Len(lines) : lines[n].kind = "end" => e <= n
    <3> HIDE DEF I
    <3> QED
      BY <1>4, <2>1
  <2> QED
    BY <1>2, <2>3, <2>5, <2>6
<1> QED
  BY <1>5, <1>6

\* A file has its block when an end marker follows the first start marker.
LEMMA BlockIs ==
    ASSUME NEW lines \in Seq(AnyLine), NEW s, s = StartOf(lines), NEW e, e = EndOf(lines)
    PROVE  /\ HasBlock(lines) => s \in 1 .. Len(lines) /\ e \in s + 1 .. Len(lines)
           /\ \A n \in s .. Len(lines) : s # 0 /\ lines[n].kind = "end" => HasBlock(lines)
<1>1. s \in 0 .. Len(lines) /\ Len(lines) \in Nat
  BY StartIs
<1>2. s # 0 => e = 0 \/ e \in s + 1 .. Len(lines)
  BY EndIs
<1>3. HasBlock(lines) <=> s # 0 /\ e # 0 /\ s < e
  BY DEF HasBlock
<1>4. ASSUME HasBlock(lines)
      PROVE  s \in 1 .. Len(lines) /\ e \in s + 1 .. Len(lines)
  BY <1>1, <1>2, <1>3, <1>4
<1>5. ASSUME s # 0, NEW n \in s .. Len(lines), lines[n].kind = "end"
      PROVE  HasBlock(lines)
  <2>1. e # 0
    BY <1>5, EndIs
  <2>2. s < e
    BY <1>1, <1>2, <1>5, <2>1
  <2> QED
    BY <1>3, <1>5, <2>1, <2>2
<1> QED
  BY <1>4, <1>5

\* The text of a file without its last blank lines: a first part of the file,
\* and only blank lines follow it.
LEMMA TrimmedIs ==
    ASSUME NEW lines \in Seq(AnyLine), NEW trimmed, trimmed = TrimRight(lines)
    PROVE  /\ trimmed \in Seq(AnyLine) /\ Len(trimmed) <= Len(lines)
           /\ \A n \in 1 .. Len(trimmed) : trimmed[n] = lines[n]
           /\ \A n \in Len(trimmed) + 1 .. Len(lines) : lines[n].kind = "blank"
<1> DEFINE I == {n \in 1 .. Len(lines) : lines[n].kind # "blank"}
<1>1. PICK last : last = IF I # {} THEN Max(I) ELSE 0
  OBVIOUS
<1>2. trimmed = SubSeq(lines, 1, last)
  BY <1>1 DEF TrimRight, SelectLastInSeq
<1>3. Len(lines) \in Nat
  OBVIOUS
<1>4. last \in 0 .. Len(lines) /\ \A n \in I : n <= last
  <2>1. CASE I = {}
    BY <1>1, <1>3, <2>1
  <2>2. CASE I # {}
    <3>1. I \in SUBSET Nat /\ \A n \in I : n <= Len(lines)
      BY <1>3
    <3>2. last \in I /\ \A n \in I : n <= last
      <4> HIDE DEF I
      <4> QED
        BY <1>1, <1>3, <2>2, <3>1, MaxOf
    <3> QED
      BY <1>3, <3>2
  <2> QED
    BY <2>1, <2>2
<1>5. trimmed \in Seq(AnyLine) /\ Len(trimmed) = last
      /\ \A n \in 1 .. last : trimmed[n] = lines[n]
  <2>1. trimmed = [n \in 1 .. last |-> lines[n]]
    BY <1>2, <1>4
  <2>2. \A n \in 1 .. last : n \in 1 .. Len(lines)
    BY <1>3, <1>4
  <2> QED
    BY <1>4, <2>1, <2>2
<1>6. ASSUME NEW n \in last + 1 .. Len(lines)
      PROVE  lines[n].kind = "blank"
  <2>1. n \in 1 .. Len(lines) /\ ~(n <= last)
    BY <1>3, <1>4
  <2> QED
    BY <1>4, <2>1
<1> QED
  BY <1>3, <1>4, <1>5, <1>6

-----------------------------------------------------------------------------
(* Merging *)

\* What a merge puts before and after the block.
Before(lines) ==
    IF HasBlock(lines) THEN SubSeq(lines, 1, StartOf(lines) - 1)
    ELSE IF TrimRight(lines) = <<>> THEN <<>> ELSE TrimRight(lines) \o <<Blank>>
After(lines) ==
    IF HasBlock(lines) THEN SubSeq(lines, EndOf(lines) + 1, Len(lines)) ELSE <<Blank>>

\* Both are lines of files.
LEMMA PartsAreLines ==
    ASSUME NEW lines \in Seq(AnyLine)
    PROVE  /\ Before(lines) \in Seq(AnyLine) /\ After(lines) \in Seq(AnyLine)
           /\ HasBlock(lines) => /\ Len(Before(lines)) = StartOf(lines) - 1
                                 /\ \A n \in 1 .. Len(Before(lines)) : Before(lines)[n] = lines[n]
<1>1. PICK s : s = StartOf(lines)
  OBVIOUS
<1>2. PICK e : e = EndOf(lines)
  OBVIOUS
<1>3. PICK before : before = Before(lines)
  OBVIOUS
<1>4. PICK after : after = After(lines)
  OBVIOUS
<1>5. <<Blank>> \in Seq(AnyLine) /\ <<>> \in Seq(AnyLine)
  BY LinesOfFiles
<1>6. CASE HasBlock(lines)
  <2>1. s \in 1 .. Len(lines) /\ e \in s + 1 .. Len(lines) /\ Len(lines) \in Nat
    BY <1>1, <1>2, <1>6, BlockIs
  <2>2. before = SubSeq(lines, 1, s - 1) /\ after = SubSeq(lines, e + 1, Len(lines))
    BY <1>1, <1>2, <1>3, <1>4, <1>6 DEF Before, After
  <2>3. before = [n \in 1 .. s - 1 |-> lines[n]]
    BY <2>1, <2>2
  <2>4. \A n \in 1 .. s - 1 : n \in 1 .. Len(lines)
    BY <2>1
  <2>5. s - 1 \in Nat
    BY <2>1
  <2>6. before \in Seq(AnyLine) /\ Len(before) = s - 1
    BY <2>3, <2>4, <2>5
  <2>7. \A n \in 1 .. Len(before) : before[n] = lines[n]
    BY <2>3, <2>6
  <2>8. after \in Seq(AnyLine)
    <3>1. e + 1 \in Int /\ Len(lines) \in Int /\ \A n \in e + 1 .. Len(lines) : lines[n] \in AnyLine
      BY <2>1
    <3> QED
      BY ONLY <2>2, <3>1, SubSeqProperties
  <2> QED
    BY <1>1, <1>3, <1>4, <2>6, <2>7, <2>8
<1>7. CASE ~HasBlock(lines)
  <2>1. PICK trimmed : trimmed = TrimRight(lines)
    OBVIOUS
  <2>2. trimmed \in Seq(AnyLine)
    BY <2>1, TrimmedIs
  <2>3. trimmed \o <<Blank>> \in Seq(AnyLine)
    BY <1>5, <2>2, ConcatProperties
  <2>4. before = (IF trimmed = <<>> THEN <<>> ELSE trimmed \o <<Blank>>) /\ after = <<Blank>>
    BY <1>3, <1>4, <1>7, <2>1 DEF Before, After
  <2> QED
    BY <1>3, <1>4, <1>5, <1>7, <2>3, <2>4
<1> QED
  BY <1>6, <1>7

\* A merge puts the block between them.
LEMMA MergeIs ==
    ASSUME NEW lines \in Seq(AnyLine), NEW list \in ConfigLists
    PROVE  MergeManagedBlock(lines, list)
             = Before(lines) \o RenderManagedBlock(list) \o After(lines)
<1>1. PICK block : block = RenderManagedBlock(list)
  OBVIOUS
<1>2. block \in Seq(AnyLine)
  <2>1. PICK N : N = Cardinality(list)
    OBVIOUS
  <2> QED
    BY <1>1, <2>1, BlockShape
<1>3. PICK trimmed : trimmed = TrimRight(lines)
  OBVIOUS
<1>4. CASE HasBlock(lines)
  BY <1>1, <1>4 DEF MergeManagedBlock, Replace, Before, After
<1>5. CASE ~HasBlock(lines)
  <2>1. MergeManagedBlock(lines, list) = IF trimmed = <<>> THEN block \o <<Blank>>
                                         ELSE trimmed \o <<Blank>> \o block \o <<Blank>>
    BY <1>1, <1>3, <1>5 DEF MergeManagedBlock
  <2>2. /\ Before(lines) = IF trimmed = <<>> THEN <<>> ELSE trimmed \o <<Blank>>
        /\ After(lines) = <<Blank>>
    BY <1>3, <1>5 DEF Before, After
  <2>3. <<>> \o block = block
    BY <1>2, ConcatEmptySeq
  <2> QED
    BY <1>1, <2>1, <2>2, <2>3
<1> QED
  BY <1>4, <1>5

\* Wherever a block is put, the file has a block.  When no start marker
\* precedes it, that block is the one of the file.
LEMMA BlockBetween ==
    ASSUME NEW list \in ConfigLists, NEW block, block = RenderManagedBlock(list),
           NEW before \in Seq(AnyLine), NEW after \in Seq(AnyLine),
           NEW lines, lines = before \o block \o after
    PROVE  /\ lines \in Seq(AnyLine) /\ HasBlock(lines)
           /\ (\A n \in 1 .. Len(before) : before[n].kind # "start") =>
                 /\ StartOf(lines) = Len(before) + 1
                 /\ EndOf(lines) = Len(before) + Len(block)
<1>1. PICK N : N = Cardinality(list)
  OBVIOUS
<1>2. /\ N \in Nat /\ block \in Seq(AnyLine) /\ Len(block) = 2 * N + 2
      /\ block[1] = ManagedBlockStart /\ block[2 * N + 2] = ManagedBlockEnd
      /\ \A n \in 1 .. N : /\ block[1 + n] = ManagedConfigLine(Sorted(list)[n])
                           /\ block[1 + N + n] = Section(Sorted(list)[n])
  BY <1>1, BlockShape
<1>3. PICK B, A \in Nat : B = Len(before) /\ A = Len(after)
  OBVIOUS
<1>4. PICK K \in Nat : K = 2 * N + 2
  BY <1>2
<1>5. /\ lines \in Seq(AnyLine) /\ Len(lines) = B + K + A
      /\ \A n \in 1 .. B : lines[n] = before[n]
      /\ \A n \in 1 .. K : lines[B + n] = block[n]
  <2>1. /\ lines = before \o block \o after
        /\ before \in Seq(AnyLine) /\ block \in Seq(AnyLine) /\ after \in Seq(AnyLine)
    BY <1>2
  <2>2. /\ lines \in Seq(AnyLine) /\ Len(lines) = Len(before) + Len(block) + Len(after)
        /\ \A n \in 1 .. Len(before) : lines[n] = before[n]
        /\ \A n \in 1 .. Len(block) : lines[Len(before) + n] = block[n]
    BY ONLY <2>1, ThreeParts
  <2> QED
    BY ONLY <1>2, <1>3, <1>4, <2>2
<1>6. lines[B + 1].kind = "start" /\ lines[B + K].kind = "end"
  <2>1. 1 \in 1 .. K /\ K \in 1 .. K
    BY <1>2, <1>4
  <2>2. lines[B + 1] = ManagedBlockStart /\ lines[B + K] = ManagedBlockEnd
    BY <1>2, <1>4, <1>5, <2>1
  <2> QED
    BY <2>2 DEF ManagedBlockStart, ManagedBlockEnd, Line
<1>7. B + 1 \in 1 .. Len(lines) /\ B + K \in 1 .. Len(lines) /\ B + 1 <= B + K
  BY <1>2, <1>4, <1>5
<1>8. PICK s : s = StartOf(lines)
  OBVIOUS
<1>9. s \in 1 .. B + 1
  <2>1. s \in 0 .. Len(lines)
    BY ONLY <1>5, <1>8, StartIs
  <2>2. s = 0 => \A n \in 1 .. Len(lines) : lines[n].kind # "start"
    BY ONLY <1>5, <1>8, StartIs
  <2>3. s # 0 => \A n \in 1 .. Len(lines) : lines[n].kind = "start" => s <= n
    BY ONLY <1>5, <1>8, StartIs
  <2> QED
    BY <1>6, <1>7, <2>1, <2>2, <2>3
<1>10. HasBlock(lines)
  <2>1. PICK e : e = EndOf(lines)
    OBVIOUS
  <2>2. B + K \in s .. Len(lines) /\ s # 0
    BY <1>7, <1>9
  <2> QED
    BY <1>5, <1>6, <1>8, <2>1, <2>2, BlockIs
<1>11. ASSUME \A n \in 1 .. B : before[n].kind # "start"
       PROVE  StartOf(lines) = B + 1 /\ EndOf(lines) = B + K
  <2>1. s = B + 1
    <3>1. \A n \in 1 .. (B + 1) - 1 : n \in 1 .. B
      OBVIOUS
    <3>2. \A n \in 1 .. (B + 1) - 1 : lines[n].kind # "start"
      BY <1>5, <1>11, <3>1
    <3> QED
      BY <1>5, <1>6, <1>7, <1>8, <3>2, StartAt
  <2>2. PICK e : e = EndOf(lines)
    OBVIOUS
  <2>6. lines \in Seq(AnyLine) /\ s = StartOf(lines) /\ s # 0 /\ e = EndOf(lines)
    BY <1>5, <1>8, <1>9, <2>2
  <2>3. /\ e \in s + 1 .. Len(lines) /\ lines[e].kind = "end" /\ e <= B + K
    <3>1. e = 0 \/ e \in s + 1 .. Len(lines)
      BY ONLY <2>6, EndIs
    <3>2. e = 0 => \A n \in s .. Len(lines) : lines[n].kind # "end"
      BY ONLY <2>6, EndIs
    <3>3. e # 0 => /\ lines[e].kind = "end"
                   /\ \A n \in s .. Len(lines) : lines[n].kind = "end" => e <= n
      BY ONLY <2>6, EndIs
    <3>4. B + K \in s .. Len(lines)
      BY <1>7, <2>1
    <3> QED
      BY <1>6, <3>1, <3>2, <3>3, <3>4
  <2>4. ASSUME NEW n \in 1 .. 2 * N
        PROVE  block[1 + n].kind # "end"
    <3>1. CASE n \in 1 .. N
      <4>1. block[1 + n] = ManagedConfigLine(Sorted(list)[n])
        BY <1>2, <3>1
      <4> QED
        BY <4>1 DEF ManagedConfigLine, Line
    <3>2. CASE n \notin 1 .. N
      <4>1. n - N \in 1 .. N /\ 1 + N + (n - N) = 1 + n
        BY <1>2, <3>2
      <4>2. block[1 + N + (n - N)] = Section(Sorted(list)[n - N])
        BY <1>2, <4>1
      <4> QED
        BY <4>1, <4>2 DEF Section, Line
    <3> QED
      BY <3>1, <3>2
  <2>5. ASSUME e # B + K
        PROVE  FALSE
    <3>1. (e - B) - 1 \in 1 .. 2 * N /\ 1 + ((e - B) - 1) = e - B /\ B + (e - B) = e
      BY <1>2, <1>4, <1>5, <2>1, <2>3, <2>5
    <3>2. e - B \in 1 .. K
      BY <1>2, <1>4, <3>1
    <3>3. block[e - B].kind # "end"
      BY <2>4, <3>1
    <3>4. lines[e] = block[e - B]
      BY <1>5, <3>1, <3>2
    <3> QED
      BY <2>3, <3>3, <3>4
  <2> QED
    BY <1>8, <2>1, <2>2, <2>5
<1> QED
  BY <1>2, <1>3, <1>4, <1>5, <1>10, <1>11

\* In a file with intact markers no start marker precedes the block of a merge.
LEMMA NoStartBefore ==
    ASSUME NEW lines \in Seq(AnyLine), Intact(lines)
    PROVE  \A n \in 1 .. Len(Before(lines)) : Before(lines)[n].kind # "start"
<1>1. PICK s : s = StartOf(lines)
  OBVIOUS
<1>2. PICK before : before = Before(lines)
  OBVIOUS
<1>3. before \in Seq(AnyLine) /\ s \in 0 .. Len(lines) /\ Len(lines) \in Nat
  BY <1>1, <1>2, PartsAreLines, StartIs
<1>4. CASE HasBlock(lines)
  <2>1. Len(before) = s - 1 /\ \A n \in 1 .. Len(before) : before[n] = lines[n]
    BY <1>1, <1>2, <1>4, PartsAreLines
  <2>2. s # 0
    BY <1>1, <1>4 DEF HasBlock
  <2>3. \A n \in 1 .. Len(lines) : lines[n].kind = "start" => s <= n
    BY <1>1, <2>2, StartIs
  <2>4. \A n \in 1 .. Len(before) : n \in 1 .. Len(lines) /\ ~(s <= n)
    BY <1>3, <2>1
  <2> QED
    BY <1>2, <2>1, <2>3, <2>4
<1>5. CASE ~HasBlock(lines)
  <2>1. PICK trimmed : trimmed = TrimRight(lines)
    OBVIOUS
  <2>2. /\ trimmed \in Seq(AnyLine) /\ Len(trimmed) <= Len(lines)
        /\ \A n \in 1 .. Len(trimmed) : trimmed[n] = lines[n]
    BY <2>1, TrimmedIs
  <2>3. before = IF trimmed = <<>> THEN <<>> ELSE trimmed \o <<Blank>>
    BY <1>2, <1>5, <2>1 DEF Before
  <2>4. \A n \in 1 .. Len(lines) : lines[n].kind # "start"
    <3>1. StartOf(lines) = 0
      BY <1>5 DEF Intact
    <3> QED
      BY <1>1, <3>1, StartIs
  <2>5. \A n \in 1 .. Len(trimmed) : trimmed[n].kind # "start"
    <3>1. \A n \in 1 .. Len(trimmed) : n \in 1 .. Len(lines)
      BY <1>3, <2>2
    <3> QED
      BY <2>2, <2>4, <3>1
  <2>6. CASE trimmed = <<>>
    BY <1>2, <2>3, <2>6
  <2>7. CASE trimmed # <<>>
    <3>1. PICK blank : blank = <<Blank>>
      OBVIOUS
    <3>2. blank \in Seq(AnyLine) /\ Len(blank) = 1 /\ blank[1].kind = "blank"
      BY <3>1, LinesOfFiles DEF Blank, Line
    <3>3. /\ Len(before) = Len(trimmed) + 1
          /\ \A n \in 1 .. Len(trimmed) + 1 :
                before[n] = IF n <= Len(trimmed) THEN trimmed[n] ELSE blank[n - Len(trimmed)]
      <4>1. before = trimmed \o blank
        BY <2>3, <2>7, <3>1
      <4>2. /\ Len(trimmed \o blank) = Len(trimmed) + Len(blank)
            /\ \A n \in 1 .. Len(trimmed) + Len(blank) :
                  (trimmed \o blank)[n] = IF n <= Len(trimmed) THEN trimmed[n]
                                          ELSE blank[n - Len(trimmed)]
        BY <2>2, <3>2, ConcatProperties
      <4> QED
        BY <3>2, <4>1, <4>2
    <3>4. ASSUME NEW n \in 1 .. Len(trimmed) + 1
          PROVE  before[n].kind # "start"
      <4>1. CASE n <= Len(trimmed)
        <5>1. n \in 1 .. Len(trimmed)
          BY <2>2, <4>1
        <5> QED
          BY <2>5, <3>3, <4>1, <5>1
      <4>2. CASE ~(n <= Len(trimmed))
        <5>1. n - Len(trimmed) = 1
          BY <2>2, <4>2
        <5> QED
          BY <3>2, <3>3, <4>2, <5>1
      <4> QED
        BY <4>1, <4>2
    <3> QED
      BY <1>2, <3>3, <3>4
  <2> QED
    BY <2>6, <2>7
<1> QED
  BY <1>4, <1>5

-----------------------------------------------------------------------------
(* Lines of some kinds *)

\* What is taken from the first lines, for each number of them.
KindRun(run, lines, kinds) ==
    /\ run[0] = <<>>
    /\ \A n \in 1 .. Len(lines) :
          run[n] = IF lines[n].kind \in kinds THEN Append(run[n - 1], lines[n]) ELSE run[n - 1]

\* OfKinds goes through the lines in order.
LEMMA KindsInOrder ==
    ASSUME NEW lines \in Seq(AnyLine), NEW kinds
    PROVE  \E run : KindRun(run, lines, kinds) /\ OfKinds(lines, kinds) = run[Len(lines)]
<1> DEFINE N == Len(lines)
           Step(f, n) == IF n = 0 THEN <<>>
                         ELSE IF lines[n].kind \in kinds THEN Append(f[n - 1], lines[n])
                         ELSE f[n - 1]
           T == {n \in 0 .. N : \E f : f = [m \in 0 .. n |-> Step(f, m)]}
<1>1. N \in Nat
  OBVIOUS
<1> HIDE DEF N
<1>2. 0 \in T
  <2>1. PICK f : f = [m \in 0 .. 0 |-> <<>>]
    OBVIOUS
  <2>2. \A m \in 0 .. 0 : Step(f, m) = <<>>
    OBVIOUS
  <2>3. 0 \in 0 .. N
    BY <1>1
  <2> HIDE DEF Step
  <2>4. f = [m \in 0 .. 0 |-> Step(f, m)]
    BY <2>1, <2>2
  <2> QED
    BY <2>3, <2>4
<1>3. ASSUME NEW n \in 0 .. N - 1, n \in T
      PROVE  n + 1 \in T
  <2>1. PICK f : f = [m \in 0 .. n |-> Step(f, m)]
    BY <1>3
  <2>2. PICK g : g = [m \in 0 .. n + 1 |-> Step(f, m)]
    OBVIOUS
  <2>3. n \in Nat /\ n + 1 \in 0 .. N
    BY <1>1
  <2>4. \A m \in 0 .. n : g[m] = f[m]
    <3>1. \A m \in 0 .. n : m \in 0 .. n + 1
      BY <2>3
    <3> HIDE DEF Step
    <3> QED
      BY <2>1, <2>2, <3>1
  <2>5. ASSUME NEW m \in 0 .. n + 1
        PROVE  Step(f, m) = Step(g, m)
    <3>1. m = 0 \/ m - 1 \in 0 .. n
      BY <2>3
    <3> QED
      BY <2>4, <3>1
  <2>6. g = [m \in 0 .. n + 1 |-> Step(g, m)]
    <3> HIDE DEF Step
    <3> QED
      BY <2>2, <2>5
  <2> HIDE DEF Step
  <2> QED
    BY <2>3, <2>6
<1>4. \E f : f = [m \in 0 .. N |-> Step(f, m)]
  <2>1. N \in 0 .. N
    BY <1>1
  <2>2. N \in T
    <3> HIDE DEF T
    <3>1. 0 .. N \subseteq T
      BY <1>1, <1>2, <1>3, Counting
    <3> QED
      BY <2>1, <3>1
  <2> HIDE DEF Step
  <2> QED
    BY <2>2
<1> DEFINE run == CHOOSE f : f = [m \in 0 .. N |-> Step(f, m)]
<1>5. run = [m \in 0 .. N |-> Step(run, m)]
  <2> HIDE DEF Step
  <2> QED
    BY <1>4
<1>6. OfKinds(lines, kinds) = run[N]
  BY DEF OfKinds, N
<1> HIDE DEF run
<1>7. \A n \in 0 .. N : run[n] = Step(run, n)
  <2> HIDE DEF Step
  <2> QED
    BY <1>5
<1>8. run[0] = <<>>
  BY <1>1, <1>7
<1>9. \A n \in 1 .. N : run[n] = IF lines[n].kind \in kinds THEN Append(run[n - 1], lines[n])
                                 ELSE run[n - 1]
  <2>1. \A n \in 1 .. N : n \in 0 .. N /\ n # 0
    BY <1>1
  <2> QED
    BY <1>7, <2>1
<1> QED
  BY <1>6, <1>8, <1>9 DEF KindRun, N

\* They are lines again.
LEMMA KindsAreLines ==
    ASSUME NEW lines \in Seq(AnyLine), NEW kinds, NEW run, KindRun(run, lines, kinds)
    PROVE  \A n \in 0 .. Len(lines) : run[n] \in Seq(AnyLine)
<1> DEFINE T == {n \in 0 .. Len(lines) : run[n] \in Seq(AnyLine)}
<1>1. Len(lines) \in Nat /\ 0 \in T
  <2>1. Len(lines) \in Nat
    OBVIOUS
  <2>2. run[0] = <<>>
    BY DEF KindRun
  <2>3. 0 \in 0 .. Len(lines) /\ <<>> \in Seq(AnyLine)
    BY <2>1
  <2> QED
    BY <2>1, <2>2, <2>3
<1>2. ASSUME NEW n \in 0 .. Len(lines) - 1, n \in T
      PROVE  n + 1 \in T
  <2>1. n + 1 \in 1 .. Len(lines) /\ n + 1 - 1 = n /\ n + 1 \in 0 .. Len(lines)
    BY <1>1
  <2>2. run[n + 1] = run[n] \/ run[n + 1] = Append(run[n], lines[n + 1])
    <3>1. run[n + 1] = IF lines[n + 1].kind \in kinds THEN Append(run[n + 1 - 1], lines[n + 1])
                       ELSE run[n + 1 - 1]
      BY ONLY KindRun(run, lines, kinds), <2>1 DEF KindRun
    <3> QED
      BY <2>1, <3>1
  <2>3. lines[n + 1] \in AnyLine /\ run[n] \in Seq(AnyLine)
    BY <1>2, <2>1
  <2>4. Append(run[n], lines[n + 1]) \in Seq(AnyLine)
    BY <2>3, AppendProperties
  <2> QED
    BY <2>1, <2>2, <2>3, <2>4
<1> HIDE DEF T
<1>3. 0 .. Len(lines) \subseteq T
  BY <1>1, <1>2, Counting
<1> QED
  BY <1>3 DEF T

\* The lines of some kinds in two files, one after the other.
LEMMA KindsOfBoth ==
    ASSUME NEW a \in Seq(AnyLine), NEW b \in Seq(AnyLine), NEW kinds
    PROVE  /\ OfKinds(a, kinds) \in Seq(AnyLine)
           /\ OfKinds(a \o b, kinds) = OfKinds(a, kinds) \o OfKinds(b, kinds)
<1>1. PICK A, B \in Nat : A = Len(a) /\ B = Len(b)
  OBVIOUS
<1>2. PICK ab : ab = a \o b
  OBVIOUS
<1>3. /\ ab \in Seq(AnyLine) /\ Len(ab) = A + B
      /\ \A n \in 1 .. A + B : ab[n] = IF n <= A THEN a[n] ELSE b[n - A]
  BY <1>1, <1>2, ConcatProperties
<1>4. PICK f : KindRun(f, ab, kinds) /\ OfKinds(ab, kinds) = f[A + B]
  BY <1>3, KindsInOrder
<1>5. PICK g : KindRun(g, a, kinds) /\ OfKinds(a, kinds) = g[A]
  BY <1>1, KindsInOrder
<1>6. PICK h : KindRun(h, b, kinds) /\ OfKinds(b, kinds) = h[B]
  BY <1>1, KindsInOrder
<1>7. \A n \in 0 .. A : g[n] \in Seq(AnyLine)
  BY <1>1, <1>5, KindsAreLines
<1>8. \A n \in 0 .. B : h[n] \in Seq(AnyLine)
  BY <1>1, <1>6, KindsAreLines
<1> DEFINE T == {n \in 0 .. A : f[n] = g[n]}
<1>9. 0 .. A \subseteq T
  <2>1. 0 \in T
    BY <1>1, <1>4, <1>5 DEF KindRun
  <2>2. ASSUME NEW n \in 0 .. A - 1, n \in T
        PROVE  n + 1 \in T
    <3>1. /\ n + 1 \in 1 .. A /\ n + 1 \in 1 .. A + B /\ n + 1 - 1 = n /\ n + 1 \in 0 .. A
          /\ n + 1 <= A
      BY <1>1
    <3>2. ab[n + 1] = a[n + 1]
      BY <1>3, <3>1
    <3>3. f[n + 1] = IF ab[n + 1].kind \in kinds THEN Append(f[n], ab[n + 1]) ELSE f[n]
      BY <1>3, <1>4, <3>1 DEF KindRun
    <3>4. g[n + 1] = IF a[n + 1].kind \in kinds THEN Append(g[n], a[n + 1]) ELSE g[n]
      BY <1>1, <1>5, <3>1 DEF KindRun
    <3> QED
      BY <2>2, <3>1, <3>2, <3>3, <3>4
  <2> HIDE DEF T
  <2> QED
    BY <1>1, <2>1, <2>2, Counting
<1>10. f[A] = g[A] /\ g[A] \in Seq(AnyLine)
  <2>1. A \in 0 .. A
    BY <1>1
  <2> QED
    BY <1>7, <1>9, <2>1
<1> DEFINE U == {n \in 0 .. B : f[A + n] = g[A] \o h[n]}
<1>11. 0 .. B \subseteq U
  <2>1. 0 \in U
    <3>1. h[0] = <<>> /\ A + 0 = A /\ 0 \in 0 .. B
      BY <1>1, <1>6 DEF KindRun
    <3>2. g[A] \o <<>> = g[A]
      BY <1>10, ConcatEmptySeq
    <3> QED
      BY <1>10, <3>1, <3>2
  <2>2. ASSUME NEW n \in 0 .. B - 1, n \in U
        PROVE  n + 1 \in U
    <3>1. /\ A + (n + 1) \in 1 .. A + B /\ (A + (n + 1)) - 1 = A + n /\ ~(A + (n + 1) <= A)
          /\ (A + (n + 1)) - A = n + 1
          /\ n + 1 \in 1 .. B /\ n + 1 - 1 = n /\ n + 1 \in 0 .. B /\ n \in 0 .. B
      BY <1>1
    <3>2. PICK x : x = b[n + 1]
      OBVIOUS
    <3>3. ab[A + (n + 1)] = x /\ x \in AnyLine
      BY <1>1, <1>3, <3>1, <3>2
    <3>4. f[A + (n + 1)] = IF x.kind \in kinds THEN Append(f[A + n], x) ELSE f[A + n]
      BY <1>3, <1>4, <3>1, <3>3 DEF KindRun
    <3>5. h[n + 1] = IF x.kind \in kinds THEN Append(h[n], x) ELSE h[n]
      BY <1>1, <1>6, <3>1, <3>2 DEF KindRun
    <3>6. PICK u : u = g[A]
      OBVIOUS
    <3>7. PICK v : v = h[n]
      OBVIOUS
    <3>8. u \in Seq(AnyLine) /\ v \in Seq(AnyLine) /\ f[A + n] = u \o v
      BY <1>8, <1>10, <2>2, <3>1, <3>6, <3>7
    <3>9. Append(u \o v, x) = u \o Append(v, x)
      <4>1. Append(v, x) = v \o <<x>> /\ u \o v \in Seq(AnyLine) /\ <<x>> \in Seq(AnyLine)
        BY <3>3, <3>8, AppendIsConcat, ConcatProperties
      <4>2. Append(u \o v, x) = (u \o v) \o <<x>>
        BY <3>3, <4>1, AppendIsConcat
      <4>3. (u \o v) \o <<x>> = u \o (v \o <<x>>)
        <5>1. PICK w : w = <<x>>
          OBVIOUS
        <5>2. u \in Seq(AnyLine) /\ v \in Seq(AnyLine) /\ w \in Seq(AnyLine)
          BY <3>8, <4>1, <5>1
        <5>3. (u \o v) \o w = u \o (v \o w)
          BY ONLY <5>2, ConcatAssociative
        <5> QED
          BY <5>1, <5>3
      <4> QED
        BY <4>1, <4>2, <4>3
    <3>10. f[A + (n + 1)] = u \o h[n + 1]
      <4>1. CASE x.kind \in kinds
        BY <3>4, <3>5, <3>7, <3>8, <3>9, <4>1
      <4>2. CASE x.kind \notin kinds
        BY <3>4, <3>5, <3>7, <3>8, <4>2
      <4> QED
        BY <4>1, <4>2
    <3> QED
      BY <3>1, <3>6, <3>10
  <2> HIDE DEF U
  <2> QED
    BY <1>1, <2>1, <2>2, Counting
<1>12. f[A + B] = g[A] \o h[B]
  <2>1. B \in 0 .. B
    BY <1>1
  <2> QED
    BY <1>11, <2>1
<1> QED
  BY <1>2, <1>4, <1>5, <1>6, <1>10, <1>12

\* None of the lines is of the kinds.
LEMMA KindsNone ==
    ASSUME NEW lines \in Seq(AnyLine), NEW kinds,
           \A n \in 1 .. Len(lines) : lines[n].kind \notin kinds
    PROVE  OfKinds(lines, kinds) = <<>>
<1>1. PICK N \in Nat : N = Len(lines)
  OBVIOUS
<1>2. PICK run : KindRun(run, lines, kinds) /\ OfKinds(lines, kinds) = run[N]
  BY <1>1, KindsInOrder
<1> DEFINE T == {n \in 0 .. N : run[n] = <<>>}
<1>3. 0 \in T
  BY <1>1, <1>2 DEF KindRun
<1>4. ASSUME NEW n \in 0 .. N - 1, n \in T
      PROVE  n + 1 \in T
  <2>1. n + 1 \in 1 .. N /\ n + 1 - 1 = n /\ n + 1 \in 0 .. N
    BY <1>1
  <2>2. run[n + 1] = run[n]
    BY <1>1, <1>2, <2>1 DEF KindRun
  <2> QED
    BY <1>4, <2>1, <2>2
<1> HIDE DEF T
<1>5. 0 .. N \subseteq T
  BY <1>1, <1>3, <1>4, Counting
<1>6. N \in 0 .. N
  BY <1>1
<1> QED
  BY <1>2, <1>5, <1>6 DEF T

\* All of them are.
LEMMA KindsAll ==
    ASSUME NEW lines \in Seq(AnyLine), NEW kinds,
           \A n \in 1 .. Len(lines) : lines[n].kind \in kinds
    PROVE  OfKinds(lines, kinds) = lines
<1>1. PICK N \in Nat : N = Len(lines)
  OBVIOUS
<1>2. PICK run : KindRun(run, lines, kinds) /\ OfKinds(lines, kinds) = run[N]
  BY <1>1, KindsInOrder
<1>3. \A n \in 0 .. N : run[n] \in Seq(AnyLine)
  BY <1>1, <1>2, KindsAreLines
<1> DEFINE T == {n \in 0 .. N : Len(run[n]) = n /\ \A m \in 1 .. n : run[n][m] = lines[m]}
<1>4. 0 \in T
  BY <1>1, <1>2 DEF KindRun
<1>5. ASSUME NEW n \in 0 .. N - 1, n \in T
      PROVE  n + 1 \in T
  <2>1. n + 1 \in 1 .. N /\ n + 1 - 1 = n /\ n + 1 \in 0 .. N /\ n \in 0 .. N
    BY <1>1
  <2>2. run[n + 1] = Append(run[n], lines[n + 1])
    <3>1. run[n + 1] = IF lines[n + 1].kind \in kinds THEN Append(run[n + 1 - 1], lines[n + 1])
                       ELSE run[n + 1 - 1]
      BY ONLY <1>1, <1>2, <2>1 DEF KindRun
    <3>2. lines[n + 1].kind \in kinds
      BY <1>1, <2>1
    <3> QED
      BY <2>1, <3>1, <3>2
  <2>3. run[n] \in Seq(AnyLine) /\ lines[n + 1] \in AnyLine
    BY <1>1, <1>3, <2>1
  <2>4. PICK v : v = run[n]
    OBVIOUS
  <2>5. PICK x : x = lines[n + 1]
    OBVIOUS
  <2>6. /\ Len(Append(v, x)) = n + 1 /\ Append(v, x)[n + 1] = x
        /\ \A m \in 1 .. n : Append(v, x)[m] = v[m]
    <3>1. v \in Seq(AnyLine) /\ x \in AnyLine /\ Len(v) = n
      BY <1>5, <2>3, <2>4, <2>5
    <3> QED
      BY ONLY <3>1, AppendProperties
  <2>7. ASSUME NEW m \in 1 .. n + 1
        PROVE  run[n + 1][m] = lines[m]
    <3>1. m = n + 1 \/ m \in 1 .. n
      BY <2>1
    <3> QED
      BY <1>5, <2>2, <2>4, <2>5, <2>6, <3>1
  <2>8. Len(run[n + 1]) = n + 1
    BY <2>2, <2>4, <2>5, <2>6
  <2> QED
    BY <2>1, <2>7, <2>8
<1> HIDE DEF T
<1>6. 0 .. N \subseteq T
  BY <1>1, <1>4, <1>5, Counting
<1>7. N \in 0 .. N
  BY <1>1
<1>8. Len(run[N]) = N /\ \A m \in 1 .. N : run[N][m] = lines[m]
  BY <1>6, <1>7 DEF T
<1>9. run[N] = lines
  <2>1. PICK t : t = run[N]
    OBVIOUS
  <2>2. t \in Seq(AnyLine) /\ Len(t) = Len(lines) /\ \A m \in 1 .. Len(t) : t[m] = lines[m]
    BY <1>1, <1>3, <1>7, <1>8, <2>1
  <2>3. t = lines
    BY <2>2, SeqEqual
  <2> QED
    BY <2>1, <2>3
<1> QED
  BY <1>2, <1>9

-----------------------------------------------------------------------------
(* What a merge leaves in the file *)

\* A file whose block stands between two other parts.
BlockStands(merged, before, block, after) ==
    /\ merged = before \o block \o after /\ merged \in Seq(AnyLine)
    /\ before \in Seq(AnyLine) /\ block \in Seq(AnyLine) /\ after \in Seq(AnyLine)
    /\ HasBlock(merged)
    /\ StartOf(merged) = Len(before) + 1
    /\ EndOf(merged) = Len(before) + Len(block)

\* Where the block of a merge is, in a file whose markers were intact.
LEMMA MergedAt ==
    ASSUME NEW lines \in Seq(AnyLine), Intact(lines), NEW list \in ConfigLists,
           NEW block, block = RenderManagedBlock(list),
           NEW before, before = Before(lines), NEW after, after = After(lines),
           NEW merged, merged = MergeManagedBlock(lines, list)
    PROVE  BlockStands(merged, before, block, after)
<1>1. before \in Seq(AnyLine) /\ after \in Seq(AnyLine)
  BY PartsAreLines
<1>2. merged = before \o block \o after
  BY MergeIs
<1>3. PICK N : N = Cardinality(list)
  OBVIOUS
<1>4. block \in Seq(AnyLine)
  BY <1>3, BlockShape
<1>5. \A n \in 1 .. Len(before) : before[n].kind # "start"
  BY NoStartBefore
<1>6. list \in ConfigLists /\ block = RenderManagedBlock(list)
  OBVIOUS
<1>7. /\ merged \in Seq(AnyLine) /\ HasBlock(merged)
      /\ StartOf(merged) = Len(before) + 1
      /\ EndOf(merged) = Len(before) + Len(block)
  BY ONLY <1>1, <1>2, <1>5, <1>6, BlockBetween
<1> QED
  BY <1>1, <1>2, <1>4, <1>7 DEF BlockStands

\* The reader finds the configurations of the list in it, each once.
LEMMA MergedReads ==
    ASSUME NEW lines \in Seq(AnyLine), Intact(lines), NEW list \in ConfigLists,
           NEW merged, merged = MergeManagedBlock(lines, list)
    PROVE  /\ ~LoadFails(merged)
           /\ {l.of : l \in ToSet(LoadConfigurations(merged))} = list
           /\ Len(LoadConfigurations(merged)) = Len(Sorted(list))
<1>1. PICK block : block = RenderManagedBlock(list)
  OBVIOUS
<1>2. PICK before : before = Before(lines)
  OBVIOUS
<1>3. PICK after : after = After(lines)
  OBVIOUS
<1>4. /\ merged = before \o block \o after /\ merged \in Seq(AnyLine)
      /\ before \in Seq(AnyLine) /\ block \in Seq(AnyLine) /\ after \in Seq(AnyLine)
      /\ HasBlock(merged)
      /\ StartOf(merged) = Len(before) + 1
      /\ EndOf(merged) = Len(before) + Len(block)
  <2>1. /\ lines \in Seq(AnyLine) /\ Intact(lines) /\ list \in ConfigLists
        /\ merged = MergeManagedBlock(lines, list)
    OBVIOUS
  <2>2. BlockStands(merged, before, block, after)
    BY ONLY <1>1, <1>2, <1>3, <2>1, MergedAt
  <2> QED
    BY ONLY <2>2 DEF BlockStands
<1>5. PICK N : N = Cardinality(list)
  OBVIOUS
<1>6. PICK sorted : sorted = Sorted(list)
  OBVIOUS
<1>7. /\ N \in Nat /\ Len(block) = 2 * N + 2
      /\ \A n \in 1 .. N : /\ block[1 + n] = ManagedConfigLine(sorted[n])
                           /\ block[1 + N + n] = Section(sorted[n])
  BY <1>1, <1>5, <1>6, BlockShape
<1>8. /\ sorted = [n \in 1 .. N |-> sorted[n]]
      /\ \A n \in 1 .. N : sorted[n] \in list
      /\ \A c \in list : \E n \in 1 .. N : sorted[n] = c
  BY <1>5, <1>6, SortedIsList
<1>9. \A n \in 1 .. N : sorted[n] \in Configs
  BY <1>8 DEF ConfigLists
<1>10. PICK configs : configs = [n \in 1 .. N |-> ManagedConfigLine(sorted[n])]
  OBVIOUS
<1>11. PICK sections : sections = [n \in 1 .. N |-> Section(sorted[n])]
  OBVIOUS
<1>12. /\ configs \in Seq(AnyLine) /\ Len(configs) = N
       /\ \A n \in 1 .. N : configs[n] = ManagedConfigLine(sorted[n])
  <2>1. \A n \in 1 .. N : ManagedConfigLine(sorted[n]) \in AnyLine
    BY <1>9, LinesOfFiles
  <2> QED
    BY ONLY <1>7, <1>10, <2>1
<1>13. /\ sections \in Seq(AnyLine) /\ Len(sections) = N
       /\ \A n \in 1 .. N : sections[n] = Section(sorted[n])
  <2>1. \A n \in 1 .. N : Section(sorted[n]) \in AnyLine
    BY <1>9, LinesOfFiles
  <2> QED
    BY ONLY <1>7, <1>11, <2>1
<1>14. PICK inside : inside = configs \o sections
  OBVIOUS
<1>15. /\ inside \in Seq(AnyLine) /\ Len(inside) = N + N
       /\ \A n \in 1 .. N + N : inside[n] = IF n <= N THEN configs[n] ELSE sections[n - N]
  <2>1. configs \in Seq(AnyLine) /\ sections \in Seq(AnyLine)
    BY <1>12, <1>13
  <2>2. /\ inside \in Seq(AnyLine) /\ Len(inside) = Len(configs) + Len(sections)
        /\ \A n \in 1 .. Len(configs) + Len(sections) :
              inside[n] = IF n <= Len(configs) THEN configs[n] ELSE sections[n - Len(configs)]
    BY ONLY <1>14, <2>1, ConcatProperties
  <2> QED
    BY ONLY <1>12, <1>13, <2>2
<1>16. \A n \in 1 .. N + N : inside[n] = block[1 + n]
  <2> SUFFICES ASSUME NEW n \in 1 .. N + N PROVE inside[n] = block[1 + n]
    OBVIOUS
  <2>1. CASE n <= N
    <3>1. n \in 1 .. N
      BY <1>7, <2>1
    <3> QED
      BY <1>7, <1>12, <1>15, <2>1, <3>1
  <2>2. CASE ~(n <= N)
    <3>1. n - N \in 1 .. N /\ 1 + N + (n - N) = 1 + n
      BY <1>7, <2>2
    <3>2. block[1 + N + (n - N)] = Section(sorted[n - N])
      BY <1>7, <3>1
    <3> QED
      BY <1>13, <1>15, <2>2, <3>1, <3>2
  <2> QED
    BY <2>1, <2>2
<1>17. BlockLines(merged) = inside
  <2>1. /\ Len(merged) = Len(before) + Len(block) + Len(after)
        /\ \A n \in 1 .. Len(block) : merged[Len(before) + n] = block[n]
    BY ONLY <1>4, ThreeParts
  <2>2. Len(before) \in Nat /\ Len(after) \in Nat
    BY <1>4
  <2>3. PICK from \in Nat : from = Len(before) + 1
    BY <2>2
  <2>4. from + Len(inside) <= Len(merged)
    BY <1>7, <1>15, <2>1, <2>2, <2>3
  <2>5. ASSUME NEW n \in 1 .. Len(inside)
        PROVE  merged[from + n] = inside[n]
    <3>1. /\ n \in 1 .. N + N /\ 1 + n \in 1 .. Len(block)
          /\ Len(before) + (1 + n) = from + n
      BY <1>7, <1>15, <2>2, <2>3
    <3>2. merged[Len(before) + (1 + n)] = block[1 + n]
      BY <2>1, <3>1
    <3> QED
      BY <1>16, <3>1, <3>2
  <2>6. SubSeq(merged, from + 1, from + Len(inside)) = inside
    BY ONLY <1>4, <1>15, <2>4, <2>5, from \in Nat, SliceIs
  <2>7. StartOf(merged) + 1 = from + 1 /\ EndOf(merged) - 1 = from + Len(inside)
    BY <1>4, <1>7, <1>15, <2>2, <2>3
  <2> QED
    BY <1>4, <2>6, <2>7 DEF BlockLines
<1>18. LoadConfigurations(merged) = configs
  <2>1. \A n \in 1 .. Len(configs) : configs[n].kind \in {"config"}
    BY <1>12 DEF ManagedConfigLine, Line
  <2>2. \A n \in 1 .. Len(sections) : sections[n].kind \notin {"config"}
    BY <1>13 DEF Section, Line
  <2>3. OfKinds(configs, {"config"}) = configs
    BY <1>12, <2>1, KindsAll
  <2>4. OfKinds(sections, {"config"}) = <<>>
    BY <1>13, <2>2, KindsNone
  <2>5. OfKinds(inside, {"config"}) = configs \o <<>>
    <3>1. configs \in Seq(AnyLine) /\ sections \in Seq(AnyLine)
      BY <1>12, <1>13
    <3>2. \A kinds : OfKinds(configs \o sections, kinds)
                       = OfKinds(configs, kinds) \o OfKinds(sections, kinds)
      BY ONLY <3>1, KindsOfBoth
    <3> QED
      BY <1>14, <2>3, <2>4, <3>2
  <2>6. configs \o <<>> = configs
    BY <1>12, ConcatEmptySeq
  <2> QED
    BY <1>17, <2>5, <2>6 DEF LoadConfigurations
<1>19. ~LoadFails(merged)
  <2>1. \A n \in 1 .. N : configs[n].kind # "corrupt" /\ sections[n].kind # "corrupt"
    BY <1>12, <1>13 DEF ManagedConfigLine, Section, Line
  <2>2. ASSUME NEW n \in 1 .. N + N
        PROVE  inside[n].kind # "corrupt"
    <3>1. CASE n <= N
      <4>1. n \in 1 .. N
        BY <1>7, <3>1
      <4> QED
        BY <1>15, <2>1, <3>1, <4>1
    <3>2. CASE ~(n <= N)
      <4>1. n - N \in 1 .. N
        BY <1>7, <3>2
      <4> QED
        BY <1>15, <2>1, <3>2, <4>1
    <3> QED
      BY <3>1, <3>2
  <2>3. DOMAIN inside = 1 .. N + N
    BY <1>15
  <2> QED
    BY <1>17, <2>2, <2>3 DEF LoadFails
<1>20. {l.of : l \in ToSet(configs)} = list
  <2>1. \A n \in 1 .. N : configs[n].of = sorted[n]
    BY <1>12 DEF ManagedConfigLine, Line
  <2>2. ToSet(configs) = {configs[n] : n \in 1 .. N}
    BY <1>12 DEF ToSet
  <2>3. \A l \in ToSet(configs) : l.of \in list
    BY <1>8, <2>1, <2>2
  <2>4. \A c \in list : \E l \in ToSet(configs) : l.of = c
    BY <1>8, <2>1, <2>2
  <2> QED
    BY <2>3, <2>4
<1>21. Len(configs) = Len(sorted)
  <2>1. Len(sorted) = N
    BY ONLY <1>7, <1>8
  <2> QED
    BY <1>12, <2>1
<1> QED
  BY <1>6, <1>18, <1>19, <1>20, <1>21

\* Merging the same list again changes nothing.
LEMMA MergedAgain ==
    ASSUME NEW lines \in Seq(AnyLine), Intact(lines), NEW list \in ConfigLists,
           NEW merged, merged = MergeManagedBlock(lines, list)
    PROVE  MergeManagedBlock(merged, list) = merged
<1>1. PICK block : block = RenderManagedBlock(list)
  OBVIOUS
<1>2. PICK before : before = Before(lines)
  OBVIOUS
<1>3. PICK after : after = After(lines)
  OBVIOUS
<1>4. /\ merged = before \o block \o after /\ merged \in Seq(AnyLine)
      /\ before \in Seq(AnyLine) /\ block \in Seq(AnyLine) /\ after \in Seq(AnyLine)
      /\ HasBlock(merged)
      /\ StartOf(merged) = Len(before) + 1
      /\ EndOf(merged) = Len(before) + Len(block)
  <2>1. /\ lines \in Seq(AnyLine) /\ Intact(lines) /\ list \in ConfigLists
        /\ merged = MergeManagedBlock(lines, list)
    OBVIOUS
  <2>2. BlockStands(merged, before, block, after)
    BY ONLY <1>1, <1>2, <1>3, <2>1, MergedAt
  <2> QED
    BY ONLY <2>2 DEF BlockStands
<1>5. /\ SubSeq(merged, 1, Len(before)) = before
      /\ SubSeq(merged, Len(before) + Len(block) + 1, Len(merged)) = after
  BY ONLY <1>4, OuterParts
<1>6. Before(merged) = before
  <2>1. StartOf(merged) - 1 = Len(before)
    BY <1>4
  <2> QED
    BY <1>4, <1>5, <2>1 DEF Before
<1>7. After(merged) = after
  BY <1>4, <1>5 DEF After
<1>8. MergeManagedBlock(merged, list) = Before(merged) \o block \o After(merged)
  BY <1>1, <1>4, MergeIs
<1> QED
  BY <1>4, <1>6, <1>7, <1>8

\* The lines of text outside the block are those that were outside before.
LEMMA MergedOutside ==
    ASSUME NEW lines \in Seq(AnyLine), Intact(lines), NEW list \in ConfigLists,
           NEW merged, merged = MergeManagedBlock(lines, list)
    PROVE  Text(Outside(merged)) = Text(Outside(lines))
<1> DEFINE Said == {"start", "end", "corrupt", "config", "section", "user"}
<1>1. PICK block : block = RenderManagedBlock(list)
  OBVIOUS
<1>2. PICK before : before = Before(lines)
  OBVIOUS
<1>3. PICK after : after = After(lines)
  OBVIOUS
<1>4. /\ merged = before \o block \o after /\ merged \in Seq(AnyLine)
      /\ before \in Seq(AnyLine) /\ block \in Seq(AnyLine) /\ after \in Seq(AnyLine)
      /\ HasBlock(merged)
      /\ StartOf(merged) = Len(before) + 1
      /\ EndOf(merged) = Len(before) + Len(block)
  <2>1. /\ lines \in Seq(AnyLine) /\ Intact(lines) /\ list \in ConfigLists
        /\ merged = MergeManagedBlock(lines, list)
    OBVIOUS
  <2>2. BlockStands(merged, before, block, after)
    BY ONLY <1>1, <1>2, <1>3, <2>1, MergedAt
  <2> QED
    BY ONLY <2>2 DEF BlockStands
<1>5. Outside(merged) = before \o after
  <2>1. /\ SubSeq(merged, 1, Len(before)) = before
        /\ SubSeq(merged, Len(before) + Len(block) + 1, Len(merged)) = after
    BY ONLY <1>4, OuterParts
  <2>2. StartOf(merged) - 1 = Len(before)
    BY <1>4
  <2> QED
    BY <1>4, <2>1, <2>2 DEF Outside
<1>6. CASE HasBlock(lines)
  BY <1>2, <1>3, <1>5, <1>6 DEF Outside, Before, After
<1>7. CASE ~HasBlock(lines)
  <2>1. Outside(lines) = lines
    BY <1>7 DEF Outside
  <2>2. PICK trimmed : trimmed = TrimRight(lines)
    OBVIOUS
  <2>3. /\ trimmed \in Seq(AnyLine) /\ Len(trimmed) <= Len(lines)
        /\ \A n \in 1 .. Len(trimmed) : trimmed[n] = lines[n]
        /\ \A n \in Len(trimmed) + 1 .. Len(lines) : lines[n].kind = "blank"
    BY <2>2, TrimmedIs
  <2>4. PICK blank : blank = <<Blank>>
    OBVIOUS
  <2>5. blank \in Seq(AnyLine) /\ OfKinds(blank, Said) = <<>>
    <3>1. blank \in Seq(AnyLine) /\ Len(blank) = 1 /\ blank[1].kind = "blank"
      BY <2>4, LinesOfFiles DEF Blank, Line
    <3>2. \A n \in 1 .. Len(blank) : blank[n].kind \notin Said
      BY <3>1
    <3> HIDE DEF Said
    <3> QED
      BY <3>1, <3>2, KindsNone
  <2>6. after = blank /\ before = IF trimmed = <<>> THEN <<>> ELSE trimmed \o blank
    BY <1>2, <1>3, <1>7, <2>2, <2>4 DEF Before, After
  <2>7. OfKinds(trimmed, Said) \in Seq(AnyLine)
    BY <2>3, KindsOfBoth
  <2>8. OfKinds(before, Said) = OfKinds(trimmed, Said)
    <3> HIDE DEF Said
    <3>1. CASE trimmed = <<>>
      BY <2>6, <3>1
    <3>2. CASE trimmed # <<>>
      <4>1. OfKinds(trimmed \o blank, Said) = OfKinds(trimmed, Said) \o <<>>
        <5>1. \A kinds : OfKinds(trimmed \o blank, kinds)
                           = OfKinds(trimmed, kinds) \o OfKinds(blank, kinds)
          BY ONLY <2>3, <2>5, KindsOfBoth
        <5> QED
          BY <2>5, <5>1
      <4>2. OfKinds(trimmed, Said) \o <<>> = OfKinds(trimmed, Said)
        BY <2>7, ConcatEmptySeq
      <4> QED
        BY <2>6, <3>2, <4>1, <4>2
    <3> QED
      BY <3>1, <3>2
  <2>9. OfKinds(before \o after, Said) = OfKinds(trimmed, Said)
    <3> HIDE DEF Said
    <3>1. OfKinds(before \o after, Said) = OfKinds(before, Said) \o OfKinds(after, Said)
      <4>1. before \in Seq(AnyLine) /\ after \in Seq(AnyLine)
        BY <1>4
      <4>2. \A kinds : OfKinds(before \o after, kinds)
                         = OfKinds(before, kinds) \o OfKinds(after, kinds)
        BY ONLY <4>1, KindsOfBoth
      <4> QED
        BY <4>2
    <3>2. OfKinds(trimmed, Said) \o <<>> = OfKinds(trimmed, Said)
      BY <2>7, ConcatEmptySeq
    <3> QED
      BY <2>5, <2>6, <2>8, <3>1, <3>2
  <2>10. PICK tail : tail = [n \in 1 .. Len(lines) - Len(trimmed) |-> lines[Len(trimmed) + n]]
    OBVIOUS
  <2>11. PICK A, B \in Nat : A = Len(trimmed) /\ B = Len(lines) - Len(trimmed)
    <3>1. Len(trimmed) \in Nat /\ Len(lines) \in Nat
      BY <2>3
    <3>2. Len(lines) - Len(trimmed) \in Nat
      BY <2>3, <3>1
    <3> QED
      BY <3>1, <3>2
  <2>12. Len(lines) = A + B
    <3>1. Len(lines) \in Nat
      OBVIOUS
    <3> QED
      BY <2>11, <3>1
  <2>13. /\ tail \in Seq(AnyLine) /\ Len(tail) = B
         /\ \A n \in 1 .. B : tail[n] = lines[A + n] /\ tail[n].kind = "blank"
    <3>1. tail = [n \in 1 .. B |-> lines[A + n]]
      BY <2>10, <2>11
    <3>2. \A n \in 1 .. B : A + n \in 1 .. Len(lines) /\ A + n \in A + 1 .. Len(lines)
      BY <2>11, <2>12
    <3>3. \A n \in 1 .. B : lines[A + n] \in AnyLine
      <4>1. \A n \in 1 .. Len(lines) : lines[n] \in AnyLine
        OBVIOUS
      <4> QED
        BY ONLY <3>2, <4>1
    <3>4. tail \in Seq(AnyLine) /\ Len(tail) = B /\ \A n \in 1 .. B : tail[n] = lines[A + n]
      BY ONLY B \in Nat, <3>1, <3>3
    <3>5. \A n \in 1 .. B : lines[A + n].kind = "blank"
      BY <2>3, <2>11, <3>2
    <3> QED
      BY <3>4, <3>5
  <2>14. OfKinds(tail, Said) = <<>>
    <3>1. \A n \in 1 .. Len(tail) : tail[n].kind \notin Said
      BY <2>13
    <3> HIDE DEF Said
    <3> QED
      BY <2>13, <3>1, KindsNone
  <2>15. trimmed \o tail = lines
    <3>1. PICK both : both = trimmed \o tail
      OBVIOUS
    <3>2. /\ both \in Seq(AnyLine) /\ Len(both) = A + B
          /\ \A n \in 1 .. A + B : both[n] = IF n <= A THEN trimmed[n] ELSE tail[n - A]
      <4>1. /\ trimmed \o tail \in Seq(AnyLine)
            /\ Len(trimmed \o tail) = Len(trimmed) + Len(tail)
            /\ \A n \in 1 .. Len(trimmed) + Len(tail) :
                  (trimmed \o tail)[n] = IF n <= Len(trimmed) THEN trimmed[n]
                                         ELSE tail[n - Len(trimmed)]
        BY ONLY <2>3, <2>13, ConcatProperties
      <4> QED
        BY ONLY <2>11, <2>13, <3>1, <4>1
    <3>3. ASSUME NEW n \in 1 .. A + B
          PROVE  both[n] = lines[n]
      <4>1. CASE n <= A
        <5>1. n \in 1 .. A
          BY <2>11, <4>1
        <5> QED
          BY <2>3, <2>11, <3>2, <4>1, <5>1
      <4>2. CASE ~(n <= A)
        <5>1. n - A \in 1 .. B /\ A + (n - A) = n
          BY <2>11, <4>2
        <5> QED
          BY <2>13, <3>2, <4>2, <5>1
      <4> QED
        BY <4>1, <4>2
    <3>4. lines \in Seq(AnyLine) /\ \A n \in 1 .. Len(both) : both[n] = lines[n]
      BY <3>2, <3>3
    <3>5. both = lines
      BY ONLY <2>12, <3>2, <3>4, SeqEqual
    <3> QED
      BY <3>1, <3>5
  <2>16. OfKinds(lines, Said) = OfKinds(trimmed, Said)
    <3> HIDE DEF Said
    <3>1. OfKinds(trimmed \o tail, Said) = OfKinds(trimmed, Said) \o OfKinds(tail, Said)
      BY <2>3, <2>13, KindsOfBoth
    <3>2. OfKinds(trimmed, Said) \o <<>> = OfKinds(trimmed, Said)
      BY <2>7, ConcatEmptySeq
    <3> QED
      BY <2>14, <2>15, <3>1, <3>2
  <2>17. /\ Text(before \o after) = OfKinds(before \o after, Said)
         /\ Text(lines) = OfKinds(lines, Said)
    BY DEF Text
  <2> HIDE DEF Said
  <2> QED
    BY <1>5, <2>1, <2>9, <2>16, <2>17
<1> QED
  BY <1>6, <1>7

-----------------------------------------------------------------------------
(* The file over time *)

\* After a successful write the file has a block, whatever was in it before;
\* after another one the block holds the list.
Healing ==
    /\ file \in Seq(AnyLine) /\ written \in ConfigLists /\ streak \in 0 .. 2
    /\ streak > 0 => HasBlock(file)
    /\ streak > 1 => Decodes

\* It holds of the files a host starts with.
LEMMA HealingInit == Init => Healing
<1> SUFFICES ASSUME Init PROVE Healing
  OBVIOUS
<1>1. HostLines \subseteq AnyLine
  BY LinesOfFiles DEF HostLines
<1>2. PICK n \in Nat : file \in [1 .. n -> HostLines]
  BY NamesAssumption DEF Init
<1>3. file \in Seq(AnyLine)
  BY <1>1, <1>2
<1>4. written \in ConfigLists
  <2>1. IsFiniteSet({})
    BY FS_EmptySet
  <2> QED
    BY <2>1 DEF Init, ConfigLists
<1>5. streak \in 0 .. 2 /\ ~(streak > 0) /\ ~(streak > 1)
  BY DEF Init
<1> QED
  BY <1>3, <1>4, <1>5 DEF Healing

\* A write merges the list into the file.  The result has a block; when the
\* markers were intact, the reader finds the list in it, another write of the
\* list changes nothing, and the lines of text around the block are kept.
LEMMA WriteStep ==
    ASSUME Healing, NEW list \in ConfigLists, Write(list)
    PROVE  /\ file' \in Seq(AnyLine) /\ HasBlock(file') /\ written' = list
           /\ streak' \in 1 .. 2 /\ (streak' > 1 => streak > 0)
           /\ Intact(file) => /\ Decodes'
                              /\ MergeManagedBlock(file', written') = file'
                              /\ Text(Outside(file')) = Text(Outside(file))
<1>1. PICK lines : lines = file
  OBVIOUS
<1>2. PICK merged : merged = MergeManagedBlock(lines, list)
  OBVIOUS
<1>3. lines \in Seq(AnyLine) /\ list \in ConfigLists
  BY <1>1 DEF Healing
<1>4. file' = merged /\ written' = list
  BY <1>1, <1>2 DEF Write
<1>5. merged \in Seq(AnyLine) /\ HasBlock(merged)
  <2>1. PICK before : before = Before(lines)
    OBVIOUS
  <2>2. PICK after : after = After(lines)
    OBVIOUS
  <2>3. PICK block : block = RenderManagedBlock(list)
    OBVIOUS
  <2>4. merged = before \o block \o after
    BY <1>2, <1>3, <2>1, <2>2, <2>3, MergeIs
  <2>5. before \in Seq(AnyLine) /\ after \in Seq(AnyLine)
    BY <1>3, <2>1, <2>2, PartsAreLines
  <2> QED
    BY ONLY <1>3, <2>3, <2>4, <2>5, BlockBetween
<1>6. streak' \in 1 .. 2 /\ (streak' > 1 => streak > 0)
  BY DEF Healing, Write
<1>7. ASSUME Intact(lines)
      PROVE  /\ Decodes'
             /\ MergeManagedBlock(merged, list) = merged
             /\ Text(Outside(merged)) = Text(Outside(lines))
  <2>1. /\ ~LoadFails(merged)
        /\ {l.of : l \in ToSet(LoadConfigurations(merged))} = list
        /\ Len(LoadConfigurations(merged)) = Len(Sorted(list))
    BY ONLY <1>2, <1>3, <1>7, MergedReads
  <2>2. Decodes'
    BY <1>4, <2>1 DEF Decodes
  <2>3. MergeManagedBlock(merged, list) = merged
    BY ONLY <1>2, <1>3, <1>7, MergedAgain
  <2>4. Text(Outside(merged)) = Text(Outside(lines))
    BY ONLY <1>2, <1>3, <1>7, MergedOutside
  <2> QED
    BY <2>2, <2>3, <2>4
<1> QED
  BY <1>1, <1>4, <1>5, <1>6, <1>7

\* A write that is cut short leaves lines of a file, and no promise.
LEMMA CutStep ==
    ASSUME Healing, NEW list \in ConfigLists, CutWrite(list)
    PROVE  file' \in Seq(AnyLine) /\ written' = written /\ streak' = 0
<1>1. PICK lines : lines = MergeManagedBlock(file, list)
  OBVIOUS
<1>2. lines \in Seq(AnyLine)
  <2>1. PICK before : before = Before(file)
    OBVIOUS
  <2>2. PICK after : after = After(file)
    OBVIOUS
  <2>3. PICK block : block = RenderManagedBlock(list)
    OBVIOUS
  <2>4. file \in Seq(AnyLine)
    BY DEF Healing
  <2>5. lines = before \o block \o after
    BY <1>1, <2>1, <2>2, <2>3, <2>4, MergeIs
  <2>6. before \in Seq(AnyLine) /\ after \in Seq(AnyLine)
    BY <2>1, <2>2, <2>4, PartsAreLines
  <2>7. list \in ConfigLists
    OBVIOUS
  <2> QED
    BY ONLY <2>3, <2>5, <2>6, <2>7, BlockBetween
<1>3. PICK n \in 0 .. Len(lines) - 1 : file' \in Remains(lines, n)
  BY <1>1 DEF CutWrite
<1>4. Len(lines) \in Nat /\ n + 1 \in 1 .. Len(lines) /\ n \in Nat
  BY <1>2, <1>3
<1>5. PICK rest \in {Blank, Line("user", NoConfig), lines[n + 1], Junk} :
        file' = SubSeq(lines, 1, n) \o <<rest>>
  BY <1>3 DEF Remains
<1>6. rest \in AnyLine
  <2>1. lines[n + 1] \in AnyLine
    BY <1>2, <1>4
  <2>2. Blank \in AnyLine /\ Line("user", NoConfig) \in AnyLine /\ Junk \in AnyLine
    BY LinesOfFiles
  <2> QED
    BY <1>5, <2>1, <2>2
<1>7. file' \in Seq(AnyLine)
  <2>1. PICK part : part = SubSeq(lines, 1, n)
    OBVIOUS
  <2>2. part \in Seq(AnyLine)
    <3>1. \A m \in 1 .. n : lines[m] \in AnyLine
      <4>1. \A m \in 1 .. n : m \in 1 .. Len(lines)
        BY <1>4
      <4> QED
        BY <1>2, <4>1
    <3>2. 1 \in Int /\ n \in Int
      BY <1>4
    <3> QED
      BY ONLY <2>1, <3>1, <3>2, SubSeqProperties
  <2>3. PICK last : last = <<rest>>
    OBVIOUS
  <2>4. last \in Seq(AnyLine)
    BY <1>6, <2>3
  <2>5. part \o last \in Seq(AnyLine)
    BY ONLY <2>2, <2>4, ConcatProperties
  <2> QED
    BY <1>5, <2>1, <2>3, <2>5
<1> QED
  BY <1>7 DEF CutWrite

\* Every step keeps it.
LEMMA HealingStep == Healing /\ [Next]_vars => Healing'
<1> SUFFICES ASSUME Healing, [Next]_vars PROVE Healing'
  OBVIOUS
<1>1. ASSUME NEW list \in ConfigLists, Write(list)
      PROVE  Healing'
  <2>1. /\ file' \in Seq(AnyLine) /\ HasBlock(file') /\ written' = list
        /\ streak' \in 1 .. 2 /\ (streak' > 1 => streak > 0)
        /\ Intact(file) => Decodes'
    BY <1>1, WriteStep
  <2>2. streak' > 1 => Decodes'
    <3>1. streak > 0 => Intact(file)
      BY DEF Healing, Intact
    <3> QED
      BY <2>1, <3>1
  <2>3. streak' \in 0 .. 2
    BY <2>1
  <2> QED
    BY <2>1, <2>2, <2>3 DEF Healing
<1>2. ASSUME NEW list \in ConfigLists, CutWrite(list)
      PROVE  Healing'
  <2>1. file' \in Seq(AnyLine) /\ written' = written /\ streak' = 0
    BY <1>2, CutStep
  <2>2. streak' \in 0 .. 2 /\ ~(streak' > 0) /\ ~(streak' > 1) /\ written' \in ConfigLists
    BY <2>1 DEF Healing
  <2> QED
    BY <2>1, <2>2 DEF Healing
<1>3. CASE UNCHANGED vars
  BY <1>3 DEF Healing, Decodes, vars
<1> QED
  BY <1>1, <1>2, <1>3 DEF Next

\* In every state of every behaviour.
LEMMA HealingStays == Spec => []Healing
<1>1. Init => Healing
  BY HealingInit
<1>2. Healing /\ [Next]_vars => Healing'
  BY HealingStep
<1> QED
  BY <1>1, <1>2, PTL DEF Spec

\* After any number of writes that were cut short anywhere, two successful
\* writes are enough: reloadConfigLocked needs no repair of the file before it
\* writes, and loadConfigurationsFromFileLocked then finds the list.
THEOREM TwoWritesHeal == Spec => []SecondWriteHeals
<1>1. Healing => SecondWriteHeals
  BY DEF Healing, SecondWriteHeals
<1> QED
  BY <1>1, HealingStays, PTL

\* The reader finds the list that was written, each configuration once, in
\* any file whose markers were intact when MergeManagedBlock was called.
THEOREM WhatIsWrittenIsRead == Spec => ReadsBack
<1>1. Healing /\ [Next]_vars => [streak' > 0 /\ Intact(file) => Decodes']_vars
  <2> SUFFICES ASSUME Healing, Next, streak' > 0, Intact(file) PROVE Decodes'
    OBVIOUS
  <2>1. ASSUME NEW list \in ConfigLists, Write(list)
        PROVE  Decodes'
    BY <2>1, WriteStep
  <2>2. ASSUME NEW list \in ConfigLists, CutWrite(list)
        PROVE  Decodes'
    BY <2>2, CutStep
  <2> QED
    BY <2>1, <2>2 DEF Next
<1> QED
  BY <1>1, HealingStays, PTL DEF Spec, ReadsBack

\* Merging the same list again changes no line: the file does not grow.
THEOREM RewritesChangeNothing == Spec => RewriteIsStable
<1>1. Healing /\ [Next]_vars =>
        [streak' > 0 /\ Intact(file) => MergeManagedBlock(file, written)' = file']_vars
  <2> SUFFICES ASSUME Healing, Next, streak' > 0, Intact(file)
               PROVE  MergeManagedBlock(file', written') = file'
    OBVIOUS
  <2>1. ASSUME NEW list \in ConfigLists, Write(list)
        PROVE  MergeManagedBlock(file', written') = file'
    BY <2>1, WriteStep
  <2>2. ASSUME NEW list \in ConfigLists, CutWrite(list)
        PROVE  MergeManagedBlock(file', written') = file'
    BY <2>2, CutStep
  <2> QED
    BY <2>1, <2>2 DEF Next
<1> QED
  BY <1>1, HealingStays, PTL DEF Spec, RewriteIsStable

\* Every line of text the host's operator has outside of the block stays, in
\* order, with every successful write.
THEOREM HostLinesStay == Spec => KeepsHostLines
<1>1. Healing /\ [Next]_vars =>
        [streak' > 0 /\ Intact(file) => Text(Outside(file')) = Text(Outside(file))]_vars
  <2> SUFFICES ASSUME Healing, Next, streak' > 0, Intact(file)
               PROVE  Text(Outside(file')) = Text(Outside(file))
    OBVIOUS
  <2>1. ASSUME NEW list \in ConfigLists, Write(list)
        PROVE  Text(Outside(file')) = Text(Outside(file))
    BY <2>1, WriteStep
  <2>2. ASSUME NEW list \in ConfigLists, CutWrite(list)
        PROVE  Text(Outside(file')) = Text(Outside(file))
    BY <2>2, CutStep
  <2> QED
    BY <2>1, <2>2 DEF Next
<1> QED
  BY <1>1, HealingStays, PTL DEF Spec, KeepsHostLines
=============================================================================
