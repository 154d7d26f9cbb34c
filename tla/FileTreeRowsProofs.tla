------------------------- MODULE FileTreeRowsProofs -------------------------
(***************************************************************************)
(* The types, the rows and the counts of FileTreeRows, for every finite    *)
(* disk, any toggles and whatever order the enumerations end in.           *)
(***************************************************************************)
EXTENDS FileTreeRowsInvariant, SharedFilesProofs, FiniteSetTheorems, SequenceTheorems

-----------------------------------------------------------------------------
(* Induction *)

\* Induction over the naturals, for a set in place of a formula.
LEMMA Induction ==
    ASSUME NEW S, 0 \in S, \A n \in Nat : n \in S => n + 1 \in S
    PROVE  Nat \subseteq S
<1> DEFINE T == Nat \ S
<1>1. SUFFICES ASSUME T # {} PROVE FALSE
  OBVIOUS
<1>2. PICK n \in T : \A m \in T : n <= m
  <2>1. T \subseteq Nat
    OBVIOUS
  <2> HIDE DEF T
  <2> QED BY <1>1, <2>1, LeastNatural
<1>3. n # 0 /\ n - 1 \in Nat /\ ~(n <= n - 1) /\ (n - 1) + 1 = n
  OBVIOUS
<1>4. n - 1 \in S
  BY <1>2, <1>3
<1> QED BY <1>3, <1>4

\* No path on disk has more components than the disk has paths: the folders on its
\* way are as many paths.
LEMMA LevelsAreBounded ==
    /\ Cardinality(Disk) \in Nat
    /\ \A p \in Lists : Len(p) \in Nat /\ Len(p) <= Cardinality(Disk)
<1>1. Cardinality(Disk) \in Nat
  BY FiniteDiskAssumption, FS_CardinalityType
<1>2. ASSUME NEW p \in Folders
      PROVE  Len(p) \in Nat /\ Len(p) <= Cardinality(Disk)
  <2>1. p \in Disk /\ p \in Seq(Component) /\ Len(p) \in Nat /\ Len(p) > 0
    BY <1>2, OnDisk, PathTypes
  <2> DEFINE f == [n \in 1 .. Len(p) |-> SubSeq(p, 1, n)]
  <2>2. ASSUME NEW n \in 1 .. Len(p)
        PROVE  SubSeq(p, 1, n) \in Disk
    <3>1. CASE n = Len(p)
      BY <2>1, <3>1, PathTypes
    <3>2. CASE n # Len(p)
      <4>1. n \in 1 .. Len(p) - 1
        BY <2>1, <3>2
      <4> QED BY <2>1, <4>1, PrefixIsFolder, OnDisk
    <3> QED BY <3>1, <3>2
  <2>3. \A n \in 1 .. Len(p) : Len(SubSeq(p, 1, n)) = n
    BY <2>1
  <2>4. f \in [1 .. Len(p) -> Disk]
    BY <2>2
  <2>5. \A m, n \in 1 .. Len(p) : f[m] = f[n] => m = n
    BY <2>3
  <2>6. DOMAIN f = 1 .. Len(p)
    OBVIOUS
  <2> HIDE DEF f
  <2>7. f \in Injection(1 .. Len(p), Disk)
    BY <2>4, <2>5, <2>6 DEF Injection, IsInjective
  <2>8. Cardinality(1 .. Len(p)) <= Cardinality(Disk)
    BY <2>7, FiniteDiskAssumption, FS_Injection
  <2>9. Cardinality(1 .. Len(p)) = Len(p)
    BY <2>1, FS_Interval
  <2> QED BY <2>1, <2>8, <2>9
<1>3. Len(<<>>) = 0
  OBVIOUS
<1> QED BY <1>1, <1>2, <1>3 DEF Lists

\* Induction from the folders furthest down to the page, for a set.
LEMMA LevelInduction ==
    ASSUME NEW S,
           \A p \in Lists : (\A c \in Lists : Len(c) > Len(p) => c \in S) => p \in S
    PROVE  Lists \subseteq S
<1> DEFINE N == Cardinality(Disk)
           T == {n \in Nat : \A p \in Lists : Len(p) + n > N => p \in S}
<1>1. N \in Nat /\ \A p \in Lists : Len(p) \in Nat /\ Len(p) <= N
  BY LevelsAreBounded
<1> HIDE DEF N
<1>2. 0 \in T
  BY <1>1
<1>3. ASSUME NEW n \in Nat, n \in T
      PROVE  n + 1 \in T
  <2>1. SUFFICES ASSUME NEW p \in Lists, Len(p) + (n + 1) > N
                 PROVE  p \in S
    BY <1>3
  <2>2. ASSUME NEW c \in Lists, Len(c) > Len(p)
        PROVE  c \in S
    <3>1. Len(c) + n > N
      BY <1>1, <1>3, <2>1, <2>2
    <3> QED BY <1>3, <3>1
  <2> QED BY <2>2
<1>4. Nat \subseteq T
  <2> HIDE DEF T
  <2> QED BY <1>2, <1>3, Induction
<1>5. N + 1 \in T
  <2>1. N + 1 \in Nat
    BY <1>1
  <2> HIDE DEF T
  <2> QED BY <1>4, <2>1
<1>6. \A p \in Lists : Len(p) + (N + 1) > N
  BY <1>1
<1> QED BY <1>5, <1>6

\* G says what a function is at each list, for which it looks only at what the
\* function is at the lists further down.
LooksDown(S, T, G) ==
    /\ G \in [S -> [[S -> T] -> T]]
    /\ \A p \in S : \A f, g \in [S -> T] :
           (\A c \in S : Len(c) > Len(p) => f[c] = g[c]) => G[p][f] = G[p][g]

Obeys(S, G, f) == \A p \in S : f[p] = G[p][f]

\* There is a function that is everywhere what such a G says.
LEMMA LevelRecursion ==
    ASSUME NEW S \in SUBSET Lists, NEW T, NEW t \in T, NEW G, LooksDown(S, T, G)
    PROVE  \E f \in [S -> T] : Obeys(S, G, f)
<1> USE DEF LooksDown
<1> DEFINE N == Cardinality(Disk)
           Solves(f, n) == \A p \in S : Len(p) + n > N => f[p] = G[p][f]
           U == {n \in Nat : \E f \in [S -> T] : Solves(f, n)}
<1>1. N \in Nat /\ \A p \in S : Len(p) \in Nat /\ Len(p) <= N
  BY LevelsAreBounded
<1> HIDE DEF N
<1>2. 0 \in U
  <2>1. \A p \in S : ~(Len(p) + 0 > N)
    BY <1>1
  <2>2. [p \in S |-> t] \in [S -> T] /\ Solves([p \in S |-> t], 0)
    BY <2>1
  <2> QED BY <2>2
<1>3. ASSUME NEW n \in Nat, n \in U
      PROVE  n + 1 \in U
  <2>1. PICK f \in [S -> T] : Solves(f, n)
    BY <1>3
  <2>2. PICK g : g = [p \in S |-> G[p][f]]
    OBVIOUS
  <2>3. g \in [S -> T] /\ \A p \in S : g[p] = G[p][f]
    BY <2>2
  <2>4. ASSUME NEW p \in S, Len(p) + (n + 1) > N
        PROVE  g[p] = G[p][g]
    <3>1. ASSUME NEW c \in S, Len(c) > Len(p)
          PROVE  f[c] = g[c]
      <4>1. Len(c) + n > N
        BY <1>1, <1>3, <2>4, <3>1
      <4> QED BY <2>1, <2>3, <4>1
    <3>2. G[p][f] = G[p][g]
      BY <2>3, <3>1
    <3> QED BY <2>3, <3>2
  <2>5. Solves(g, n + 1)
    BY <2>4
  <2> HIDE DEF Solves
  <2> QED BY <1>3, <2>3, <2>5
<1>4. Nat \subseteq U
  <2> HIDE DEF U
  <2> QED BY <1>2, <1>3, Induction
<1>5. N + 1 \in U
  <2>1. N + 1 \in Nat
    BY <1>1
  <2> HIDE DEF U
  <2> QED BY <1>4, <2>1
<1>6. \A p \in S : Len(p) + (N + 1) > N
  BY <1>1
<1> QED BY <1>5, <1>6 DEF Obeys

-----------------------------------------------------------------------------
(* Sequences of rows *)

\* The rows of one sequence after those of another.
LEMMA Joined ==
    ASSUME NEW R, NEW s \in Seq(R), NEW t \in Seq(R)
    PROVE  /\ s \o t \in Seq(R)
           /\ Len(s \o t) = Len(s) + Len(t) /\ Len(s) \in Nat /\ Len(t) \in Nat
           /\ Range(s \o t) = Range(s) \cup Range(t)
           /\ Range(s) \subseteq R
BY ConcatProperties, RangeConcatenation, RangeOfSeq, LenProperties

\* How sequences are joined in groups does not matter.
Cat(s, t) == s \o t

\* What stands between A and B.
Around(A, X, B) == Cat(A, Cat(X, B))

LEMMA Regrouped ==
    ASSUME NEW R
    PROVE  /\ \A s, t \in Seq(R) : Cat(s, t) \in Seq(R)
           /\ \A s, t, u \in Seq(R) : Cat(Cat(s, t), u) = Cat(s, Cat(t, u))
BY ConcatProperties, ConcatAssociative DEF Cat

\* FlattenSeq puts the sequences one after the other.
LEMMA Flattened ==
    ASSUME NEW R, NEW F \in Seq(Seq(R))
    PROVE  \E g \in [0 .. Len(F) -> Seq(R)] :
               /\ g[0] = <<>>
               /\ \A i \in 1 .. Len(F) : g[i] = g[i - 1] \o F[i]
               /\ FlattenSeq(F) = g[Len(F)]
<1> DEFINE Flat(f, k) == f = [i \in 1 .. k |-> IF i = 1 THEN F[i] ELSE f[i - 1] \o F[i]]
           S == {k \in Nat : \E f : Flat(f, k)}
<1>1. 0 \in S
  <2>1. Flat([i \in 1 .. 0 |-> <<>>], 0)
    OBVIOUS
  <2> QED BY <2>1
<1>2. ASSUME NEW k \in Nat, k \in S
      PROVE  k + 1 \in S
  <2>1. PICK f : Flat(f, k)
    BY <1>2
  <2>2. PICK g : g = [i \in 1 .. k + 1 |-> IF i = 1 THEN F[i] ELSE f[i - 1] \o F[i]]
    OBVIOUS
  <2>3. \A i \in 1 .. k : f[i] = IF i = 1 THEN F[i] ELSE f[i - 1] \o F[i]
    BY <2>1
  <2>4. \A i \in 1 .. k : g[i] = f[i]
    <3>1. \A i \in 1 .. k : i \in 1 .. k + 1
      BY <1>2
    <3> QED BY <2>2, <2>3, <3>1, Zenon
  <2>5. ASSUME NEW i \in 1 .. k + 1
        PROVE  g[i] = IF i = 1 THEN F[i] ELSE g[i - 1] \o F[i]
    <3>1. i = 1 \/ i - 1 \in 1 .. k
      BY <1>2
    <3> QED BY <2>2, <2>4, <3>1, Zenon
  <2>6. Flat(g, k + 1)
    <3>1. g = [i \in 1 .. k + 1 |-> g[i]]
      BY <2>2
    <3> QED BY <2>5, <3>1, Zenon
  <2> HIDE DEF Flat
  <2> QED BY <1>2, <2>6
<1>3. Len(F) \in Nat /\ \A i \in 1 .. Len(F) : F[i] \in Seq(R)
  OBVIOUS
<1>4. \E f : Flat(f, Len(F))
  <2>1. Nat \subseteq S
    <3> HIDE DEF S
    <3> QED BY <1>1, <1>2, Induction
  <2> QED BY <1>3, <2>1
<1> DEFINE h == CHOOSE h : Flat(h, Len(F))
<1>5. Flat(h, Len(F))
  BY <1>4, Zenon
<1>6. Len(F) # 0 => FlattenSeq(F) = h[Len(F)]
  BY Zenon DEF FlattenSeq
<1>7. Len(F) = 0 => FlattenSeq(F) = <<>>
  BY DEF FlattenSeq
<1> HIDE DEF h
<1>8. \A i \in 1 .. Len(F) : h[i] = IF i = 1 THEN F[i] ELSE h[i - 1] \o F[i]
  BY <1>5, Zenon
<1>9. PICK g : g = [i \in 0 .. Len(F) |-> IF i = 0 THEN <<>> ELSE h[i]]
  OBVIOUS
<1>10. g[0] = <<>> /\ \A i \in 1 .. Len(F) : g[i] = h[i]
  <2>1. 0 \in 0 .. Len(F) /\ \A i \in 1 .. Len(F) : i # 0 /\ i \in 0 .. Len(F)
    BY <1>3
  <2> QED BY <1>9, <2>1, Zenon
<1>11. ASSUME NEW i \in 1 .. Len(F)
       PROVE  g[i] = g[i - 1] \o F[i]
  <2>1. CASE i = 1
    <3>1. i - 1 = 0
      BY <2>1
    <3>2. <<>> \o F[i] = F[i]
      BY <1>3
    <3> QED BY <1>8, <1>10, <2>1, <3>1, <3>2, Zenon
  <2>2. CASE i # 1
    <3>1. i - 1 \in 1 .. Len(F)
      BY <1>3, <2>2
    <3> QED BY <1>8, <1>10, <2>2, <3>1, Zenon
  <2> QED BY <2>1, <2>2
<1> DEFINE V == {i \in Nat : i <= Len(F) => g[i] \in Seq(R)}
<1>12. 0 \in V
  <2>1. <<>> \in Seq(R)
    OBVIOUS
  <2>2. g[0] \in Seq(R)
    BY <1>10, <2>1, Zenon
  <2> QED BY <2>2
<1>13. ASSUME NEW i \in Nat, i \in V
       PROVE  i + 1 \in V
  <2>1. CASE i + 1 <= Len(F)
    <3>1. i + 1 \in 1 .. Len(F) /\ i <= Len(F) /\ (i + 1) - 1 = i
      BY <1>3, <2>1
    <3>2. g[i + 1] = g[i] \o F[i + 1] /\ g[i] \in Seq(R) /\ F[i + 1] \in Seq(R)
      BY <1>3, <1>11, <1>13, <3>1
    <3>3. g[i] \o F[i + 1] \in Seq(R)
      BY <3>2, Joined
    <3>4. g[i + 1] \in Seq(R)
      BY <3>2, <3>3, Zenon
    <3>5. i + 1 \in Nat
      BY <1>13
    <3> QED BY <3>4, <3>5
  <2>2. CASE ~(i + 1 <= Len(F))
    BY <2>2
  <2> QED BY <2>1, <2>2
<1>14. Nat \subseteq V
  <2> HIDE DEF V
  <2> QED BY <1>12, <1>13, Induction
<1>15. \A i \in 0 .. Len(F) : g[i] \in Seq(R)
  BY <1>3, <1>14
<1>16. g \in [0 .. Len(F) -> Seq(R)]
  BY <1>9, <1>15
<1>17. FlattenSeq(F) = g[Len(F)]
  <2>1. Len(F) = 0 \/ Len(F) \in 1 .. Len(F)
    BY <1>3
  <2> QED BY <1>6, <1>7, <1>10, <2>1
<1> QED BY <1>10, <1>11, <1>16, <1>17

\* What is in the first sequences stands in one of them.
LEMMA FlatRange ==
    ASSUME NEW R, NEW F \in Seq(Seq(R)), NEW g \in [0 .. Len(F) -> Seq(R)],
           g[0] = <<>>, \A i \in 1 .. Len(F) : g[i] = g[i - 1] \o F[i]
    PROVE  \A k \in 0 .. Len(F) : \A d :
               d \in Range(g[k]) <=> \E j \in 1 .. k : d \in Range(F[j])
<1> DEFINE V == {k \in Nat : k <= Len(F) =>
                    \A d : d \in Range(g[k]) <=> \E j \in 1 .. k : d \in Range(F[j])}
<1>1. Len(F) \in Nat /\ \A i \in 1 .. Len(F) : F[i] \in Seq(R)
  OBVIOUS
<1>2. 0 \in V
  <2>1. Range(g[0]) = {}
    BY DEF Range
  <2> QED BY <2>1
<1>3. ASSUME NEW k \in Nat, k \in V
      PROVE  k + 1 \in V
  <2>1. SUFFICES ASSUME k + 1 <= Len(F), NEW d
                 PROVE  d \in Range(g[k + 1]) <=> \E j \in 1 .. k + 1 : d \in Range(F[j])
    OBVIOUS
  <2>2. k + 1 \in 1 .. Len(F) /\ k \in 0 .. Len(F) /\ (k + 1) - 1 = k /\ k <= Len(F)
    BY <1>1, <2>1
  <2>3. g[k + 1] = g[k] \o F[k + 1] /\ g[k] \in Seq(R) /\ F[k + 1] \in Seq(R)
    BY <1>1, <2>2
  <2>4. Range(g[k + 1]) = Range(g[k]) \cup Range(F[k + 1])
    BY <2>3, Joined
  <2>5. d \in Range(g[k]) <=> \E j \in 1 .. k : d \in Range(F[j])
    BY <1>3, <2>2
  <2>6. 1 .. k + 1 = 1 .. k \cup {k + 1}
    OBVIOUS
  <2> QED BY <2>4, <2>5, <2>6, Zenon
<1>4. Nat \subseteq V
  <2> HIDE DEF V
  <2> QED BY <1>2, <1>3, Induction
<1>5. \A k \in 0 .. Len(F) : k \in Nat /\ k <= Len(F)
  BY <1>1
<1>6. \A k \in 0 .. Len(F) : k \in V
  <2> HIDE DEF V
  <2> QED BY <1>4, <1>5
<1> QED BY <1>5, <1>6, Zenon

DifferAt(F, G, n) ==
    /\ Len(F) = Len(G) /\ n \in 1 .. Len(F)
    /\ \A j \in 1 .. Len(F) : j # n => F[j] = G[j]

FlattenedAround(R, F, G, n) ==
    \E A, B \in Seq(R) :
        /\ FlattenSeq(F) = Around(A, F[n], B)
        /\ FlattenSeq(G) = Around(A, G[n], B)
        /\ \A d \in Range(A) : \E j \in 1 .. n - 1 : d \in Range(F[j])

\* Two flattened sequences that differ in one place have the same before and after.
LEMMA FlatContext ==
    ASSUME NEW R, NEW F \in Seq(Seq(R)), NEW G \in Seq(Seq(R)), NEW n, DifferAt(F, G, n)
    PROVE  FlattenedAround(R, F, G, n)
<1> USE DEF DifferAt
<1>1. PICK f \in [0 .. Len(F) -> Seq(R)] :
               /\ f[0] = <<>>
               /\ \A i \in 1 .. Len(F) : f[i] = f[i - 1] \o F[i]
               /\ FlattenSeq(F) = f[Len(F)]
  BY Flattened
<1>2. PICK g \in [0 .. Len(F) -> Seq(R)] :
               /\ g[0] = <<>>
               /\ \A i \in 1 .. Len(F) : g[i] = g[i - 1] \o G[i]
               /\ FlattenSeq(G) = g[Len(F)]
  <2>1. \E g \in [0 .. Len(G) -> Seq(R)] :
            /\ g[0] = <<>>
            /\ \A i \in 1 .. Len(G) : g[i] = g[i - 1] \o G[i]
            /\ FlattenSeq(G) = g[Len(G)]
    BY Flattened
  <2> QED BY <2>1, Zenon
<1>3. /\ Len(F) \in Nat
      /\ \A i \in 1 .. Len(F) : F[i] \in Seq(R) /\ G[i] \in Seq(R)
  OBVIOUS
<1> DEFINE V == {k \in Nat : k < n => f[k] = g[k]}
<1>4. 0 \in V
  BY <1>1, <1>2
<1>5. ASSUME NEW k \in Nat, k \in V
      PROVE  k + 1 \in V
  <2>1. CASE k + 1 < n
    <3>1. k + 1 \in 1 .. Len(F) /\ k + 1 # n /\ k < n /\ (k + 1) - 1 = k
      BY <1>3, <2>1
    <3>2. f[k] = g[k] /\ F[k + 1] = G[k + 1]
      BY <1>5, <3>1
    <3>3. f[k + 1] = g[k + 1]
      BY <1>1, <1>2, <3>1, <3>2, Zenon
    <3>4. k + 1 \in Nat
      BY <1>5
    <3> QED BY <3>3, <3>4
  <2>2. CASE ~(k + 1 < n)
    BY <2>2
  <2> QED BY <2>1, <2>2
<1>6. Nat \subseteq V
  <2> HIDE DEF V
  <2> QED BY <1>4, <1>5, Induction
<1>7. n - 1 \in Nat /\ n - 1 < n /\ n - 1 \in 0 .. Len(F)
  OBVIOUS
<1>8. PICK A \in Seq(R) : A = f[n - 1] /\ A = g[n - 1]
  <2>1. n - 1 \in V
    <3> HIDE DEF V
    <3> QED BY <1>6, <1>7
  <2>2. f[n - 1] = g[n - 1] /\ f[n - 1] \in Seq(R)
    BY <1>7, <2>1
  <2> QED BY <2>2
<1> DEFINE W == {k \in Nat : n + k <= Len(F) =>
                    \E B \in Seq(R) : /\ f[n + k] = A \o (F[n] \o B)
                                      /\ g[n + k] = A \o (G[n] \o B)}
<1>9. 0 \in W
  <2>1. f[n] = A \o F[n] /\ g[n] = A \o G[n] /\ F[n] \in Seq(R) /\ G[n] \in Seq(R)
    BY <1>1, <1>2, <1>3, <1>8
  <2>2. F[n] \o <<>> = F[n] /\ G[n] \o <<>> = G[n] /\ <<>> \in Seq(R) /\ n + 0 = n
    BY <2>1
  <2> QED BY <2>1, <2>2
<1>10. ASSUME NEW k \in Nat, k \in W
       PROVE  k + 1 \in W
  <2>1. CASE n + (k + 1) <= Len(F)
    <3>1. /\ n + k <= Len(F) /\ n + (k + 1) \in 1 .. Len(F) /\ n + (k + 1) # n
          /\ (n + (k + 1)) - 1 = n + k
      BY <1>3, <2>1
    <3>2. PICK B \in Seq(R) : f[n + k] = A \o (F[n] \o B) /\ g[n + k] = A \o (G[n] \o B)
      BY <1>10, <3>1
    <3>3. PICK C \in Seq(R) :
              f[n + (k + 1)] = f[n + k] \o C /\ g[n + (k + 1)] = g[n + k] \o C
      BY <1>1, <1>2, <1>3, <3>1
    <3>4. B \o C \in Seq(R)
      BY <3>3, Joined
    <3>5. \A X \in Seq(R) : (A \o (X \o B)) \o C = A \o (X \o (B \o C))
      <4>1. \A X \in Seq(R) : Cat(Cat(A, Cat(X, B)), C) = Cat(A, Cat(X, Cat(B, C)))
        BY <1>8, <3>2, <3>3, Regrouped
      <4> QED BY <4>1, Zenon DEF Cat
    <3>6. /\ f[n + (k + 1)] = A \o (F[n] \o (B \o C))
          /\ g[n + (k + 1)] = A \o (G[n] \o (B \o C))
      BY <1>3, <3>2, <3>3, <3>5, Zenon
    <3>7. \E D \in Seq(R) : /\ f[n + (k + 1)] = A \o (F[n] \o D)
                            /\ g[n + (k + 1)] = A \o (G[n] \o D)
      BY <3>4, <3>6, Zenon
    <3>8. k + 1 \in Nat
      BY <1>10
    <3> QED BY <3>7, <3>8, Zenon
  <2>2. CASE ~(n + (k + 1) <= Len(F))
    <3>1. k + 1 \in Nat
      BY <1>10
    <3> QED BY <2>2, <3>1, Zenon
  <2> QED BY <2>1, <2>2
<1>11. Nat \subseteq W
  <2> HIDE DEF W
  <2> QED BY <1>9, <1>10, Induction
<1>12. Len(F) - n \in Nat /\ n + (Len(F) - n) = Len(F)
  BY <1>3
<1>13. PICK B \in Seq(R) : f[Len(F)] = A \o (F[n] \o B) /\ g[Len(F)] = A \o (G[n] \o B)
  <2>1. Len(F) - n \in W
    <3> HIDE DEF W
    <3> QED BY <1>11, <1>12
  <2>2. n + (Len(F) - n) <= Len(F)
    BY <1>3
  <2> QED BY <1>12, <2>1, <2>2, Zenon
<1>14. \A d \in Range(A) : \E j \in 1 .. n - 1 : d \in Range(F[j])
  <2>1. \A d : d \in Range(f[n - 1]) <=> \E j \in 1 .. n - 1 : d \in Range(F[j])
    <3>1. \A k \in 0 .. Len(F) : \A d :
              d \in Range(f[k]) <=> \E j \in 1 .. k : d \in Range(F[j])
      BY <1>1, FlatRange
    <3> QED BY <1>7, <3>1, Zenon
  <2> QED BY <1>8, <2>1, Zenon
<1> QED BY <1>1, <1>2, <1>13, <1>14, Zenon DEF Around, Cat, FlattenedAround

-----------------------------------------------------------------------------
(* Paths and children *)

\* The paths of lists, and those of rows, are sequences.
LEMMA ListTypes ==
    /\ \A p \in Lists : p \in Seq(Component) /\ Len(p) \in Nat
    /\ \A p \in Disk : p \in Seq(Component) /\ Len(p) \in Nat /\ Len(p) > 0
    /\ Folders \subseteq Lists /\ Folders \subseteq Disk
    /\ <<>> \in Lists /\ <<>> \notin Disk /\ Len(<<>>) = 0
<1>1. \A p \in Disk : p \in Seq(Component) /\ Len(p) \in Nat /\ Len(p) > 0
  BY PathTypes
<1>2. <<>> \in Seq(Component) /\ Len(<<>>) = 0
  OBVIOUS
<1>3. <<>> \notin Disk
  BY DiskAssumption
<1>4. Folders \subseteq Disk
  BY OnDisk
<1> QED BY <1>1, <1>2, <1>3, <1>4 DEF Lists

\* A child is one level below its list.
LEMMA ChildOf ==
    ASSUME NEW p \in Lists, NEW c \in EnumerateFiles(p)
    PROVE  c \in Disk /\ Len(c) = Len(p) + 1 /\ SubSeq(c, 1, Len(p)) = p /\ IsAbove(p, c)
<1>1. c \in Disk /\ Len(c) = Len(p) + 1 /\ SubSeq(c, 1, Len(c) - 1) = p
  BY DEF EnumerateFiles, RemoveLastPathComponent
<1>2. Len(p) \in Nat
  BY ListTypes
<1>3. Len(c) - 1 = Len(p) /\ Len(p) < Len(c)
  BY <1>1, <1>2
<1> QED BY <1>1, <1>3 DEF IsAbove

\* What is below a path that is below another is below that.
LEMMA AboveAbove ==
    ASSUME NEW p \in Lists, NEW q \in Lists, NEW d \in Disk, IsAbove(q, d)
    PROVE  /\ IsAbove(p, q) => IsAbove(p, d)
           /\ IsAbove(p, d) /\ Len(p) < Len(q) => IsAbove(p, q)
           /\ IsAbove(p, d) /\ Len(p) = Len(q) => p = q
<1>1. d \in Seq(Component) /\ Len(d) \in Nat /\ Len(p) \in Nat /\ Len(q) \in Nat
  BY ListTypes
<1>2. Len(q) < Len(d) /\ SubSeq(d, 1, Len(q)) = q
  BY DEF IsAbove
<1>3. Len(p) < Len(q) => SubSeq(q, 1, Len(p)) = SubSeq(d, 1, Len(p))
  <2>1. ASSUME Len(p) < Len(q)
        PROVE  SubSeq(SubSeq(d, 1, Len(q)), 1, Len(p)) = SubSeq(d, 1, Len(p))
    <3>1. Len(q) \in 0 .. Len(d) /\ Len(p) \in 0 .. Len(q)
      BY <1>1, <1>2, <2>1
    <3> QED BY <1>1, <3>1, PrefixOfPrefix
  <2> QED BY <1>2, <2>1
<1>4. Len(p) < Len(q) => Len(p) < Len(d)
  BY <1>1, <1>2
<1> QED BY <1>1, <1>2, <1>3, <1>4 DEF IsAbove

\* What is below a list is one of its children, or below one.
LEMMA WayDown ==
    ASSUME NEW p \in Lists, NEW d \in Disk, IsAbove(p, d)
    PROVE  \E c \in EnumerateFiles(p) : c = d \/ (c \in Folders /\ IsAbove(c, d))
<1>1. /\ d \in Seq(Component) /\ Len(d) \in Nat /\ Len(p) \in Nat
      /\ Len(p) < Len(d) /\ SubSeq(d, 1, Len(p)) = p
  BY ListTypes DEF IsAbove
<1> DEFINE c == SubSeq(d, 1, Len(p) + 1)
<1>2. Len(c) = Len(p) + 1 /\ SubSeq(c, 1, Len(p)) = p
  <2>1. Len(p) + 1 \in 0 .. Len(d) /\ Len(p) \in 0 .. Len(p) + 1
    BY <1>1
  <2> QED BY <1>1, <2>1, PrefixOfPrefix
<1>3. CASE Len(p) + 1 = Len(d)
  <2>1. c = d
    BY <1>3, PathTypes
  <2> HIDE DEF c
  <2>2. Len(c) - 1 = Len(p)
    BY <1>1, <1>2
  <2> QED BY <1>2, <2>1, <2>2 DEF EnumerateFiles, RemoveLastPathComponent
<1>4. CASE Len(p) + 1 # Len(d)
  <2>1. Len(p) + 1 \in 1 .. Len(d) - 1 /\ Len(p) + 1 < Len(d)
    BY <1>1, <1>4
  <2>2. c \in Folders
    BY <2>1, PrefixIsFolder
  <2> HIDE DEF c
  <2>3. Len(c) - 1 = Len(p)
    BY <1>1, <1>2
  <2>4. IsAbove(c, d)
    BY <1>2, <2>1 DEF IsAbove, c
  <2>5. c \in Disk
    BY <2>2, ListTypes
  <2> QED BY <1>2, <2>2, <2>3, <2>4, <2>5 DEF EnumerateFiles, RemoveLastPathComponent
<1> QED BY <1>3, <1>4

\* Only one child of a list is a path or above it.
LEMMA OneWayDown ==
    ASSUME NEW p \in Lists, NEW b \in EnumerateFiles(p), NEW c \in EnumerateFiles(p),
           NEW d \in Disk, b = d \/ IsAbove(b, d), c = d \/ IsAbove(c, d)
    PROVE  b = c
<1>1. Len(b) = Len(p) + 1 /\ Len(c) = Len(p) + 1 /\ b \in Disk /\ c \in Disk
  BY ChildOf
<1>2. d = SubSeq(d, 1, Len(d))
  BY PathTypes
<1>3. b = SubSeq(d, 1, Len(p) + 1)
  BY <1>1, <1>2 DEF IsAbove
<1>4. c = SubSeq(d, 1, Len(p) + 1)
  BY <1>1, <1>2 DEF IsAbove
<1> QED BY <1>3, <1>4

\* SetToSeq enumerates a finite set.
LEMMA Enumerated ==
    ASSUME NEW S, IsFiniteSet(S)
    PROVE  /\ SetToSeq(S) \in Seq(S)
           /\ Len(SetToSeq(S)) = Cardinality(S) /\ Cardinality(S) \in Nat
           /\ \A i, j \in 1 .. Len(SetToSeq(S)) : SetToSeq(S)[i] = SetToSeq(S)[j] => i = j
           /\ \A c \in S : \E i \in 1 .. Len(SetToSeq(S)) : SetToSeq(S)[i] = c
<1>1. Cardinality(S) \in Nat /\ ExistsBijection(1 .. Cardinality(S), S)
  BY FS_CardinalityType
<1> DEFINE n == Cardinality(S)
           s == SetToSeq(S)
<1>2. \E f \in [1 .. n -> S] : IsInjective(f)
  BY <1>1 DEF ExistsBijection, Bijection, Injection
<1>3. s \in [1 .. n -> S] /\ IsInjective(s)
  BY <1>2, Zenon DEF SetToSeq
<1> HIDE DEF s
<1>4. s \in Seq(S) /\ Len(s) = n
  BY <1>1, <1>3
<1>5. \A i, j \in 1 .. n : s[i] = s[j] => i = j
  BY <1>3 DEF IsInjective
<1>6. s \in Injection(1 .. n, S)
  BY <1>3 DEF Injection
<1>7. Cardinality(1 .. n) = n
  BY <1>1, FS_Interval
<1>8. s \in Surjection(1 .. n, S)
  BY <1>6, <1>7, FS_Injection
<1>9. \A c \in S : \E i \in 1 .. n : s[i] = c
  BY <1>8 DEF Surjection
<1> QED BY <1>1, <1>4, <1>5, <1>9 DEF s

\* The children of p are view models.
Listed(ch, p) == p = <<>> \/ HasArrived(ch, p)

\* m_Children holds each child once, or is the placeholder or nothing.
LEMMA ChildList ==
    ASSUME NEW ch, NEW p \in Lists
    PROVE  LET own == m_Children(ch, p)
           IN  /\ own \in Seq(Row) /\ Len(own) \in Nat /\ DOMAIN own = 1 .. Len(own)
               /\ \A i, j \in 1 .. Len(own) : own[i] = own[j] => i = j
               /\ Listed(ch, p) =>
                      /\ Len(own) = Cardinality(EnumerateFiles(p))
                      /\ \A i \in 1 .. Len(own) : own[i] \in EnumerateFiles(p)
                      /\ \A c \in EnumerateFiles(p) : \E i \in 1 .. Len(own) : own[i] = c
               /\ ~Listed(ch, p) => \A i \in 1 .. Len(own) : own[i] = Loading
               /\ ~Listed(ch, p) /\ ch[p] = "loading" => own = <<Loading>>
<1> DEFINE S == EnumerateFiles(p)
<1>1. S \subseteq Disk
  BY DEF EnumerateFiles
<1>2. IsFiniteSet(S)
  BY <1>1, FiniteDiskAssumption, FS_Subset
<1>3. CASE Listed(ch, p)
  <2>1. m_Children(ch, p) = SetToSeq(S)
    BY <1>3 DEF m_Children, Listed
  <2> DEFINE s == SetToSeq(S)
  <2>2. /\ s \in Seq(S) /\ Len(s) = Cardinality(S) /\ Cardinality(S) \in Nat
        /\ \A i, j \in 1 .. Len(s) : s[i] = s[j] => i = j
        /\ \A c \in S : \E i \in 1 .. Len(s) : s[i] = c
    BY <1>2, Enumerated
  <2> HIDE DEF s, S
  <2>3. s \in Seq(Row)
    BY <1>1, <2>2, SeqMonotonic DEF Row
  <2>4. DOMAIN s = 1 .. Len(s) /\ \A i \in 1 .. Len(s) : s[i] \in S
    BY <2>2
  <2> QED BY <1>3, <2>1, <2>2, <2>3, <2>4 DEF s, S
<1>4. CASE ~Listed(ch, p) /\ ch[p] = "loading"
  <2>1. m_Children(ch, p) = <<Loading>>
    BY <1>4 DEF m_Children, Listed
  <2>2. /\ <<Loading>> \in Seq(Row) /\ Len(<<Loading>>) = 1
        /\ \A i \in 1 .. Len(<<Loading>>) : i = 1 /\ <<Loading>>[i] = Loading
        /\ DOMAIN <<Loading>> = 1 .. Len(<<Loading>>)
    BY DEF Row
  <2>3. Len(<<Loading>>) \in Nat
    BY <2>2
  <2> QED BY <1>4, <2>1, <2>2, <2>3, Zenon
<1>5. CASE ~Listed(ch, p) /\ ch[p] # "loading"
  <2>1. m_Children(ch, p) = <<>>
    BY <1>5 DEF m_Children, Listed
  <2>2. <<>> \in Seq(Row) /\ Len(<<>>) = 0 /\ DOMAIN <<>> = 1 .. 0 /\ 1 .. 0 = {}
        /\ 0 \in Nat
    OBVIOUS
  <2> QED BY <1>5, <2>1, <2>2, Zenon
<1> QED BY <1>3, <1>4, <1>5, Zenon

-----------------------------------------------------------------------------
(* The rows below a list *)

\* The rows of child c when f has those below it.
Block(ex, f, c) == IF c \in ex THEN <<c>> \o f[c] ELSE <<c>>

Blocks(ch, ex, f, p) ==
    [i \in 1 .. Len(m_Children(ch, p)) |-> Block(ex, f, m_Children(ch, p)[i])]

LEMMA BlocksType ==
    ASSUME NEW ch, NEW ex \in SUBSET Folders, NEW f \in [Lists -> Seq(Row)], NEW p \in Lists
    PROVE  /\ Blocks(ch, ex, f, p) \in Seq(Seq(Row))
           /\ Len(Blocks(ch, ex, f, p)) = Len(m_Children(ch, p))
           /\ FlattenSeq(Blocks(ch, ex, f, p)) \in Seq(Row)
<1> DEFINE own == m_Children(ch, p)
           F == Blocks(ch, ex, f, p)
<1>1. own \in Seq(Row) /\ Len(own) \in Nat
  BY ChildList
<1>2. ASSUME NEW c \in Row
      PROVE  Block(ex, f, c) \in Seq(Row)
  <2>1. <<c>> \in Seq(Row)
    OBVIOUS
  <2>2. c \in ex => f[c] \in Seq(Row)
    BY ListTypes
  <2>3. c \in ex => <<c>> \o f[c] \in Seq(Row)
    BY <2>1, <2>2, Joined
  <2> QED BY <2>1, <2>3 DEF Block
<1>3. \A i \in 1 .. Len(own) : own[i] \in Row
  BY <1>1
<1>4. F \in [1 .. Len(own) -> Seq(Row)]
  BY <1>2, <1>3 DEF Blocks
<1> HIDE DEF F, own
<1>5. F \in Seq(Seq(Row)) /\ Len(F) = Len(own)
  <2>1. PICK S : S = Seq(Row)
    OBVIOUS
  <2>2. PICK n \in Nat : n = Len(own)
    BY <1>1
  <2>3. F \in [1 .. n -> S]
    BY <1>4, <2>1, <2>2
  <2>4. F \in Seq(S) /\ Len(F) = n
    BY <2>3
  <2> QED BY <2>1, <2>2, <2>4, Zenon
<1>6. FlattenSeq(F) \in Seq(Row)
  <2>1. PICK g \in [0 .. Len(F) -> Seq(Row)] : FlattenSeq(F) = g[Len(F)]
    BY <1>5, Flattened
  <2>2. Len(F) \in 0 .. Len(F)
    BY <1>1, <1>5
  <2> QED BY <2>1, <2>2
<1> QED BY <1>5, <1>6 DEF F, own

\* RowsBelow is the function that its recursion describes.
LEMMA RowsBelowIs ==
    ASSUME NEW ch, NEW ex \in SUBSET Folders
    PROVE  /\ RowsBelow(ch, ex) \in [Lists -> Seq(Row)]
           /\ \A p \in Lists :
                  RowsBelow(ch, ex)[p] = FlattenSeq(Blocks(ch, ex, RowsBelow(ch, ex), p))
<1> DEFINE T == [Lists -> Seq(Row)]
           G == [p \in Lists |-> [f \in T |-> FlattenSeq(Blocks(ch, ex, f, p))]]
<1>1. \A p \in Lists : \A f \in T : FlattenSeq(Blocks(ch, ex, f, p)) \in Seq(Row)
  BY BlocksType
<1>2. G \in [Lists -> [T -> Seq(Row)]]
  <2> HIDE DEF T
  <2> QED BY <1>1
<1>3. ASSUME NEW p \in Lists, NEW f, NEW g,
             \A c \in Lists : Len(c) > Len(p) => f[c] = g[c]
      PROVE  Blocks(ch, ex, f, p) = Blocks(ch, ex, g, p)
  <2> DEFINE own == m_Children(ch, p)
  <2>1. ASSUME NEW i \in 1 .. Len(own), own[i] \in ex
        PROVE  f[own[i]] = g[own[i]]
    <3>1. own[i] \in Folders /\ own[i] \in Disk /\ own[i] \in Lists
      BY <2>1, ListTypes
    <3>2. own[i] # Loading
      BY <3>1, LoadingAssumption
    <3>3. own[i] \in EnumerateFiles(p)
      BY <3>2, ChildList
    <3>4. Len(own[i]) > Len(p)
      <4>1. Len(own[i]) = Len(p) + 1 /\ Len(p) \in Nat
        BY <3>3, ChildOf, ListTypes
      <4> QED BY <4>1
    <3> QED BY <1>3, <3>1, <3>4
  <2>2. \A i \in 1 .. Len(own) : Block(ex, f, own[i]) = Block(ex, g, own[i])
    BY <2>1 DEF Block
  <2> QED BY <2>2 DEF Blocks
<1>4. \A p \in Lists : \A f, g \in T :
          (\A c \in Lists : Len(c) > Len(p) => f[c] = g[c]) => G[p][f] = G[p][g]
  <2>1. \A p \in Lists : \A f \in T : G[p][f] = FlattenSeq(Blocks(ch, ex, f, p))
    <3> HIDE DEF T
    <3> QED OBVIOUS
  <2> HIDE DEF G, T
  <2> QED BY <1>3, <2>1
<1>5. <<>> \in Seq(Row)
  OBVIOUS
<1>6. \E f \in T : \A p \in Lists : f[p] = G[p][f]
  <2>1. Lists \in SUBSET Lists
    OBVIOUS
  <2>2. PICK R : R = Seq(Row)
    OBVIOUS
  <2>3. PICK t \in R : t = <<>>
    BY <1>5, <2>2
  <2> HIDE DEF G
  <2>4. LooksDown(Lists, R, G)
    BY <1>2, <1>4, <2>2, Zenon DEF LooksDown
  <2>5. \E f \in [Lists -> R] : Obeys(Lists, G, f)
    BY <2>1, <2>4, LevelRecursion
  <2> QED BY <2>2, <2>5, Zenon DEF Obeys
<1>7. PICK f \in T : \A p \in Lists : f[p] = FlattenSeq(Blocks(ch, ex, f, p))
  <2>1. \A f \in T : \A p \in Lists : G[p][f] = FlattenSeq(Blocks(ch, ex, f, p))
    <3> HIDE DEF T
    <3> QED OBVIOUS
  <2> HIDE DEF G, T
  <2> QED BY <1>6, <2>1
<1> DEFINE Below(g) == g = [p \in Lists |->
               FlattenSeq([i \in DOMAIN m_Children(ch, p) |->
                   IF m_Children(ch, p)[i] \in ex
                   THEN <<m_Children(ch, p)[i]>> \o g[m_Children(ch, p)[i]]
                   ELSE <<m_Children(ch, p)[i]>>])]
<1>8. \A g : \A p \in Lists :
          Blocks(ch, ex, g, p) =
              [i \in DOMAIN m_Children(ch, p) |->
                   IF m_Children(ch, p)[i] \in ex
                   THEN <<m_Children(ch, p)[i]>> \o g[m_Children(ch, p)[i]]
                   ELSE <<m_Children(ch, p)[i]>>]
  <2>1. \A p \in Lists : DOMAIN m_Children(ch, p) = 1 .. Len(m_Children(ch, p))
    BY ChildList
  <2> QED BY <2>1 DEF Blocks, Block
<1>9. ASSUME NEW g
      PROVE  Below(g) <=> g = [p \in Lists |-> FlattenSeq(Blocks(ch, ex, g, p))]
  <2> DEFINE a == [p \in Lists |->
               FlattenSeq([i \in DOMAIN m_Children(ch, p) |->
                   IF m_Children(ch, p)[i] \in ex
                   THEN <<m_Children(ch, p)[i]>> \o g[m_Children(ch, p)[i]]
                   ELSE <<m_Children(ch, p)[i]>>])]
             b == [p \in Lists |-> FlattenSeq(Blocks(ch, ex, g, p))]
  <2>1. \A p \in Lists : a[p] = b[p]
    BY <1>8, Zenon
  <2>2. a = [p \in Lists |-> a[p]] /\ b = [p \in Lists |-> b[p]]
    BY Zenon
  <2> HIDE DEF a, b
  <2>3. a = b
    BY <2>1, <2>2, Zenon
  <2> QED BY <2>3 DEF a, b
<1>10. RowsBelow(ch, ex) = CHOOSE g : Below(g)
  BY Zenon DEF RowsBelow
<1>11. Below(f)
  <2>1. f = [p \in Lists |-> f[p]]
    OBVIOUS
  <2>2. f = [p \in Lists |-> FlattenSeq(Blocks(ch, ex, f, p))]
    BY <1>7, <2>1, Zenon
  <2> HIDE DEF Below
  <2> QED BY <1>9, <2>2
<1> HIDE DEF Below
<1>12. Below(RowsBelow(ch, ex))
  BY <1>10, <1>11, Zenon
<1>13. PICK h : h = RowsBelow(ch, ex)
  OBVIOUS
<1>14. h = [p \in Lists |-> FlattenSeq(Blocks(ch, ex, h, p))]
  BY <1>9, <1>12, <1>13
<1>15. \A p \in Lists : h[p] = FlattenSeq(Blocks(ch, ex, h, p))
  BY <1>14, Zenon
<1>16. Lists \subseteq {p \in Lists : h[p] = f[p]}
  <2> DEFINE S == {p \in Lists : h[p] = f[p]}
  <2>1. ASSUME NEW p \in Lists, \A c \in Lists : Len(c) > Len(p) => c \in S
        PROVE  p \in S
    <3>1. Blocks(ch, ex, h, p) = Blocks(ch, ex, f, p)
      BY <1>3, <2>1
    <3> QED BY <1>7, <1>15, <3>1
  <2> HIDE DEF S
  <2> QED BY <2>1, LevelInduction DEF S
<1>17. h = f
  <2>1. h = [p \in Lists |-> h[p]] /\ f = [p \in Lists |-> f[p]]
    BY <1>14
  <2> QED BY <1>16, <2>1
<1> QED BY <1>7, <1>13, <1>17

\* What is between two parts is between what is around them.
LEMMA Nested ==
    ASSUME NEW R, NEW A \in Seq(R), NEW C \in Seq(R), NEW D \in Seq(R), NEW X \in Seq(R),
           NEW E \in Seq(R), NEW B \in Seq(R)
    PROVE  /\ Around(A, C \o Around(D, X, E), B) = Around(A \o (C \o D), X, E \o B)
           /\ A \o (C \o D) \in Seq(R) /\ E \o B \in Seq(R)
           /\ Around(A, X, B) \in Seq(R)
<1>1. \A s, t \in Seq(R) : Cat(s, t) \in Seq(R)
  BY Regrouped
<1>2. \A s, t, u \in Seq(R) : Cat(Cat(s, t), u) = Cat(s, Cat(t, u))
  BY Regrouped
<1> DEFINE xe == Cat(X, E)
           dxe == Cat(D, xe)
           eb == Cat(E, B)
           xeb == Cat(X, eb)
<1>3. /\ xe \in Seq(R) /\ dxe \in Seq(R) /\ eb \in Seq(R) /\ xeb \in Seq(R)
      /\ Cat(C, D) \in Seq(R) /\ Cat(A, Cat(C, D)) \in Seq(R) /\ Cat(A, Cat(X, B)) \in Seq(R)
  BY <1>1
<1>4. Cat(dxe, B) = Cat(D, xeb)
  BY <1>1, <1>2, <1>3
<1>5. Cat(Cat(C, dxe), B) = Cat(Cat(C, D), xeb)
  BY <1>1, <1>2, <1>3, <1>4
<1>6. Cat(A, Cat(Cat(C, dxe), B)) = Cat(Cat(A, Cat(C, D)), xeb)
  BY <1>1, <1>2, <1>3, <1>5
<1> QED BY <1>3, <1>6, Zenon DEF Cat, Around

\* The rows of one child.
LEMMA BlockRange ==
    ASSUME NEW ch, NEW ex \in SUBSET Folders, NEW c \in Row
    PROVE  LET f == RowsBelow(ch, ex)
           IN  /\ Block(ex, f, c) \in Seq(Row)
               /\ \A d : d \in Range(Block(ex, f, c)) <=>
                             d = c \/ (c \in ex /\ d \in Range(f[c]))
<1> DEFINE f == RowsBelow(ch, ex)
<1>1. c \in ex => f[c] \in Seq(Row)
  BY RowsBelowIs, ListTypes
<1> HIDE DEF f
<1>2. <<c>> \in Seq(Row) /\ Range(<<c>>) = {c}
  BY DEF Range
<1>3. CASE c \in ex
  <2>1. Block(ex, f, c) = <<c>> \o f[c]
    BY <1>3 DEF Block
  <2>2. <<c>> \o f[c] \in Seq(Row) /\ Range(<<c>> \o f[c]) = {c} \cup Range(f[c])
    <3>1. PICK z \in Seq(Row) : z = f[c]
      BY <1>1, <1>3
    <3>2. PICK w \in Seq(Row) : w = <<c>>
      BY <1>2
    <3>3. w \o z \in Seq(Row) /\ Range(w \o z) = Range(w) \cup Range(z)
      BY Joined
    <3> QED BY <1>2, <3>1, <3>2, <3>3, Zenon
  <2> QED BY <1>3, <2>1, <2>2 DEF f
<1>4. CASE c \notin ex
  <2>1. Block(ex, f, c) = <<c>>
    BY <1>4 DEF Block
  <2> QED BY <1>2, <1>4, <2>1 DEF f
<1> QED BY <1>3, <1>4

\* The rows below a list are its children and the rows below those that are
\* expanded.
LEMMA RowsIn ==
    ASSUME NEW ch, NEW ex \in SUBSET Folders, NEW p \in Lists, NEW d
    PROVE  LET own == m_Children(ch, p)
               f == RowsBelow(ch, ex)
           IN  d \in Range(f[p]) <=>
                   \E i \in 1 .. Len(own) :
                       d = own[i] \/ (own[i] \in ex /\ d \in Range(f[own[i]]))
<1> DEFINE own == m_Children(ch, p)
           f == RowsBelow(ch, ex)
           F == Blocks(ch, ex, f, p)
<1>1. f \in [Lists -> Seq(Row)] /\ f[p] = FlattenSeq(F)
  BY RowsBelowIs
<1>2. F \in Seq(Seq(Row)) /\ Len(F) = Len(own)
  BY <1>1, BlocksType
<1>3. own \in Seq(Row) /\ Len(own) \in Nat
  BY ChildList
<1>4. \A i \in 1 .. Len(own) : F[i] = Block(ex, f, own[i])
  BY DEF Blocks
<1>5. \A i \in 1 .. Len(own) :
          d \in Range(F[i]) <=> d = own[i] \/ (own[i] \in ex /\ d \in Range(f[own[i]]))
  <2>1. \A i \in 1 .. Len(own) : own[i] \in Row
    BY <1>3
  <2> QED BY <1>4, <2>1, BlockRange
<1> HIDE DEF F, f
<1>6. d \in Range(FlattenSeq(F)) <=> \E j \in 1 .. Len(F) : d \in Range(F[j])
  <2>1. PICK g \in [0 .. Len(F) -> Seq(Row)] :
               /\ g[0] = <<>>
               /\ \A i \in 1 .. Len(F) : g[i] = g[i - 1] \o F[i]
               /\ FlattenSeq(F) = g[Len(F)]
    BY <1>2, Flattened
  <2>2. \A k \in 0 .. Len(F) : \A e :
            e \in Range(g[k]) <=> \E j \in 1 .. k : e \in Range(F[j])
    BY <1>2, <2>1, FlatRange
  <2>3. Len(F) \in 0 .. Len(F)
    BY <1>2, <1>3
  <2> QED BY <2>1, <2>2, <2>3, Zenon
<1> QED BY <1>1, <1>2, <1>5, <1>6, Zenon DEF f

\* Path d has a row below list q: everything between them is expanded.
Shown(ch, ex, q, d) ==
    /\ IsAbove(q, d)
    /\ Listed(ch, q)
    /\ \A r \in Folders : IsAbove(q, r) /\ IsAbove(r, d) => r \in ex /\ Listed(ch, r)

LEMMA ShownChild ==
    ASSUME NEW ch, NEW ex, NEW p \in Lists, Listed(ch, p), NEW c \in EnumerateFiles(p)
    PROVE  Shown(ch, ex, p, c)
<1>1. IsAbove(p, c) /\ Len(c) = Len(p) + 1 /\ Len(p) \in Nat
  BY ChildOf, ListTypes
<1>2. ASSUME NEW r \in Folders, IsAbove(p, r), IsAbove(r, c)
      PROVE  FALSE
  <2>1. Len(r) \in Nat /\ Len(p) < Len(r) /\ Len(r) < Len(c)
    BY <1>2, ListTypes DEF IsAbove
  <2> QED BY <1>1, <2>1
<1> QED BY <1>1, <1>2 DEF Shown

LEMMA ShownBelow ==
    ASSUME NEW ch, NEW ex, NEW p \in Lists, Listed(ch, p),
           NEW c \in EnumerateFiles(p) \cap Folders, NEW d \in Disk, IsAbove(c, d)
    PROVE  Shown(ch, ex, p, d) <=> c \in ex /\ Shown(ch, ex, c, d)
<1>1. /\ IsAbove(p, c) /\ Len(c) = Len(p) + 1 /\ Len(p) \in Nat
      /\ c \in Lists /\ IsAbove(p, d)
  BY ChildOf, ListTypes, AboveAbove
<1>2. ASSUME Shown(ch, ex, p, d)
      PROVE  c \in ex /\ Shown(ch, ex, c, d)
  <2>1. c \in ex /\ Listed(ch, c)
    BY <1>1, <1>2 DEF Shown
  <2>2. ASSUME NEW r \in Folders, IsAbove(c, r), IsAbove(r, d)
        PROVE  r \in ex /\ Listed(ch, r)
    <3>1. IsAbove(p, r)
      BY <1>1, <2>2, AboveAbove, ListTypes
    <3> QED BY <1>2, <2>2, <3>1 DEF Shown
  <2> QED BY <2>1, <2>2 DEF Shown
<1>3. ASSUME c \in ex, Shown(ch, ex, c, d)
      PROVE  Shown(ch, ex, p, d)
  <2>1. ASSUME NEW r \in Folders, IsAbove(p, r), IsAbove(r, d)
        PROVE  r \in ex /\ Listed(ch, r)
    <3>1. r \in Lists /\ Len(r) \in Nat /\ Len(p) < Len(r)
      BY <2>1, ListTypes DEF IsAbove
    <3>2. CASE Len(r) = Len(c)
      <4>1. r = c
        BY <1>1, <2>1, <3>1, <3>2, AboveAbove
      <4> QED BY <1>3, <4>1 DEF Shown
    <3>3. CASE Len(r) # Len(c)
      <4>1. Len(c) < Len(r)
        BY <1>1, <3>1, <3>3
      <4>2. IsAbove(c, r)
        BY <1>1, <2>1, <3>1, <4>1, AboveAbove
      <4> QED BY <1>3, <2>1, <4>2 DEF Shown
    <3> QED BY <3>2, <3>3
  <2> QED BY <1>1, <2>1 DEF Shown
<1> QED BY <1>2, <1>3

\* The rows below a list are shown below it, and those of placeholders.
LEMMA RowsAreShown ==
    ASSUME NEW ch, NEW ex \in SUBSET Folders
    PROVE  \A p \in Lists : \A d \in Range(RowsBelow(ch, ex)[p]) :
               d # Loading => d \in Disk /\ Shown(ch, ex, p, d)
<1> DEFINE f == RowsBelow(ch, ex)
           S == {p \in Lists : \A d \in Range(f[p]) :
                    d # Loading => d \in Disk /\ Shown(ch, ex, p, d)}
<1> HIDE DEF f
<1>1. ASSUME NEW p \in Lists, \A c \in Lists : Len(c) > Len(p) => c \in S
      PROVE  p \in S
  <2>1. SUFFICES ASSUME NEW d \in Range(f[p]), d # Loading
                 PROVE  d \in Disk /\ Shown(ch, ex, p, d)
    OBVIOUS
  <2> DEFINE own == m_Children(ch, p)
  <2>2. PICK i \in 1 .. Len(own) : d = own[i] \/ (own[i] \in ex /\ d \in Range(f[own[i]]))
    BY <2>1, RowsIn DEF f
  <2>3. own[i] # Loading => own[i] \in EnumerateFiles(p) /\ Listed(ch, p)
    BY ChildList
  <2> HIDE DEF own
  <2>4. CASE d = own[i]
    BY <2>1, <2>3, <2>4, ChildOf, ShownChild
  <2>5. CASE own[i] \in ex /\ d \in Range(f[own[i]])
    <3>1. own[i] \in Folders /\ own[i] # Loading
      BY <2>5, ListTypes, LoadingAssumption
    <3>2. own[i] \in Lists /\ Len(own[i]) > Len(p)
      <4>1. Len(own[i]) = Len(p) + 1 /\ Len(p) \in Nat
        BY <2>3, <3>1, ChildOf, ListTypes
      <4> QED BY <3>1, <4>1, ListTypes
    <3>3. d \in Disk /\ Shown(ch, ex, own[i], d)
      BY <1>1, <2>1, <2>5, <3>2
    <3>4. IsAbove(own[i], d)
      BY <3>3 DEF Shown
    <3> QED BY <2>3, <2>5, <3>1, <3>3, <3>4, ShownBelow
  <2> QED BY <2>2, <2>4, <2>5
<1>2. Lists \subseteq S
  <2> HIDE DEF S
  <2> QED BY <1>1, LevelInduction
<1> QED BY <1>2 DEF f


-----------------------------------------------------------------------------
(* What the rows below a list depend on *)

\* The children of q, and all that is shown below it, are as they were.
Untouched(ch, ex, ch2, ex2, q) ==
    /\ m_Children(ch2, q) = m_Children(ch, q)
    /\ \A r \in Folders : Shown(ch, ex, q, r) =>
           /\ r \in ex <=> r \in ex2
           /\ r \in ex => m_Children(ch2, r) = m_Children(ch, r)

\* The rows below a list depend on what is shown below it only.
LEMMA RowsKept ==
    ASSUME NEW ch, NEW ex \in SUBSET Folders, NEW ch2, NEW ex2 \in SUBSET Folders
    PROVE  \A q \in Lists : Untouched(ch, ex, ch2, ex2, q) =>
               RowsBelow(ch2, ex2)[q] = RowsBelow(ch, ex)[q]
<1> DEFINE f == RowsBelow(ch, ex)
           g == RowsBelow(ch2, ex2)
           S == {q \in Lists : Untouched(ch, ex, ch2, ex2, q) => g[q] = f[q]}
<1>1. \A q \in Lists : /\ f[q] = FlattenSeq(Blocks(ch, ex, f, q))
                       /\ g[q] = FlattenSeq(Blocks(ch2, ex2, g, q))
  BY RowsBelowIs
<1> HIDE DEF f, g
<1>2. ASSUME NEW q \in Lists, \A c \in Lists : Len(c) > Len(q) => c \in S
      PROVE  q \in S
  <2>1. SUFFICES ASSUME Untouched(ch, ex, ch2, ex2, q)
                 PROVE  g[q] = f[q]
    OBVIOUS
  <2>2. m_Children(ch2, q) = m_Children(ch, q)
    BY <2>1 DEF Untouched
  <2> DEFINE own == m_Children(ch, q)
  <2>3. ASSUME NEW i \in 1 .. Len(own)
        PROVE  Block(ex2, g, own[i]) = Block(ex, f, own[i])
    <3>1. PICK c : c = own[i]
      OBVIOUS
    <3>2. c # Loading => c \in EnumerateFiles(q) /\ Listed(ch, q)
      BY <3>1, ChildList
    <3> HIDE DEF own
    <3>3. CASE c \notin ex /\ c \notin ex2
      BY <3>1, <3>3 DEF Block
    <3>4. CASE c \in ex \/ c \in ex2
      <4>1. c \in Folders /\ c \in Lists /\ c # Loading
        BY <3>4, ListTypes, LoadingAssumption
      <4>2. Shown(ch, ex, q, c) /\ Len(c) > Len(q)
        <5>1. Len(c) = Len(q) + 1 /\ Len(q) \in Nat
          BY <3>2, <4>1, ChildOf, ListTypes
        <5> QED BY <3>2, <4>1, <5>1, ShownChild
      <4>3. c \in ex /\ c \in ex2 /\ m_Children(ch2, c) = m_Children(ch, c)
        BY <2>1, <3>4, <4>1, <4>2 DEF Untouched
      <4>4. ASSUME NEW r \in Folders, Shown(ch, ex, c, r)
            PROVE  Shown(ch, ex, q, r)
        <5>1. r \in Disk /\ IsAbove(c, r)
          BY <4>4, ListTypes DEF Shown
        <5> QED BY <3>2, <4>1, <4>3, <4>4, <5>1, ShownBelow
      <4>5. Untouched(ch, ex, ch2, ex2, c)
        BY <2>1, <4>3, <4>4 DEF Untouched
      <4>6. g[c] = f[c]
        BY <1>2, <4>1, <4>2, <4>5
      <4> QED BY <3>1, <4>3, <4>6 DEF Block
    <3> QED BY <3>3, <3>4
  <2>4. Blocks(ch2, ex2, g, q) = Blocks(ch, ex, f, q)
    BY <2>2, <2>3 DEF Blocks
  <2> QED BY <1>1, <2>4
<1>3. Lists \subseteq S
  <2> HIDE DEF S
  <2> QED BY <1>2, LevelInduction
<1> QED BY <1>3 DEF f, g

\* Sequences of one element each, one after the other.
LEMMA Singles ==
    ASSUME NEW R, NEW s \in Seq(R), NEW F, F = [i \in 1 .. Len(s) |-> <<s[i]>>]
    PROVE  FlattenSeq(F) = s
<1>1. Len(s) \in Nat /\ \A i \in 1 .. Len(s) : s[i] \in R
  OBVIOUS
<1>2. F \in Seq(Seq(R)) /\ Len(F) = Len(s)
  <2>1. \A x \in R : <<x>> \in Seq(R)
    OBVIOUS
  <2>2. PICK S : S = Seq(R)
    OBVIOUS
  <2>3. PICK n \in Nat : n = Len(s)
    BY <1>1
  <2>4. F \in [1 .. n -> S]
    BY <1>1, <2>1, <2>2, <2>3
  <2>5. F \in Seq(S) /\ Len(F) = n
    BY <2>4
  <2> QED BY <2>2, <2>3, <2>5, Zenon
<1>3. PICK g \in [0 .. Len(F) -> Seq(R)] :
               /\ g[0] = <<>>
               /\ \A i \in 1 .. Len(F) : g[i] = g[i - 1] \o F[i]
               /\ FlattenSeq(F) = g[Len(F)]
  BY <1>2, Flattened
<1> DEFINE V == {k \in Nat : k <= Len(s) => g[k] = SubSeq(s, 1, k)}
<1>4. 0 \in V
  <2>1. SubSeq(s, 1, 0) = <<>>
    OBVIOUS
  <2> QED BY <1>3, <2>1
<1>5. ASSUME NEW k \in Nat, k \in V
      PROVE  k + 1 \in V
  <2>1. CASE k + 1 <= Len(s)
    <3>1. k + 1 \in 1 .. Len(s) /\ k <= Len(s) /\ (k + 1) - 1 = k
      BY <1>1, <2>1
    <3>2. g[k + 1] = SubSeq(s, 1, k) \o <<s[k + 1]>>
      BY <1>2, <1>3, <1>5, <3>1
    <3>3. SubSeq(s, 1, k) \o <<s[k + 1]>> = SubSeq(s, 1, k + 1)
      BY <1>1, <3>1
    <3>4. k + 1 \in Nat
      BY <1>5
    <3> QED BY <3>2, <3>3, <3>4, Zenon
  <2>2. CASE ~(k + 1 <= Len(s))
    BY <2>2
  <2> QED BY <2>1, <2>2
<1>6. Nat \subseteq V
  <2> HIDE DEF V
  <2> QED BY <1>4, <1>5, Induction
<1>7. g[Len(s)] = SubSeq(s, 1, Len(s))
  <2>1. Len(s) \in V
    <3> HIDE DEF V
    <3> QED BY <1>1, <1>6
  <2>2. Len(s) <= Len(s)
    BY <1>1
  <2> QED BY <2>1, <2>2, Zenon
<1>8. SubSeq(s, 1, Len(s)) = s
  OBVIOUS
<1> QED BY <1>2, <1>3, <1>7, <1>8

\* Below a list whose children are all collapsed are the children.
LEMMA OnlyChildren ==
    ASSUME NEW ch, NEW ex \in SUBSET Folders, NEW p \in Lists,
           Listed(ch, p) => \A c \in EnumerateFiles(p) : c \notin ex
    PROVE  RowsBelow(ch, ex)[p] = m_Children(ch, p)
<1> DEFINE own == m_Children(ch, p)
           f == RowsBelow(ch, ex)
<1>1. f[p] = FlattenSeq(Blocks(ch, ex, f, p))
  BY RowsBelowIs
<1>2. own \in Seq(Row)
  BY ChildList
<1>3. ASSUME NEW i \in 1 .. Len(own)
      PROVE  Block(ex, f, own[i]) = <<own[i]>>
  <2>1. own[i] # Loading => own[i] \in EnumerateFiles(p) /\ Listed(ch, p)
    BY ChildList
  <2>2. Loading \notin ex
    BY ListTypes, LoadingAssumption
  <2>3. own[i] \notin ex
    BY <2>1, <2>2
  <2> QED BY <2>3 DEF Block
<1>4. Blocks(ch, ex, f, p) = [i \in 1 .. Len(own) |-> <<own[i]>>]
  BY <1>3 DEF Blocks
<1> HIDE DEF own
<1>5. FlattenSeq(Blocks(ch, ex, f, p)) = own
  BY <1>2, <1>4, Singles
<1> QED BY <1>1, <1>5 DEF own, f

-----------------------------------------------------------------------------
(* The place of a folder's rows *)

\* Path r is neither p nor below it.
Apart(p, r) == r # p /\ ~(r \in Disk /\ IsAbove(p, r))

\* Outside p's subtree all folders are expanded as they were and have the
\* children that they had.
SameElsewhere(ch, ex, ch2, ex2, p) ==
    \A r \in Lists : Apart(p, r) => /\ r \in ex <=> r \in ex2
                                    /\ m_Children(ch2, r) = m_Children(ch, r)

\* No row in A belongs to p or to what is below it.
Clear(A, p) == \A d \in Range(A) : Apart(p, d)

\* The rows X of p and of what is below it stand between two parts that hold
\* nothing of these.
Holds(rowsA, X, rowsB, Y, p) ==
    \E A, B \in Seq(Row) : /\ Clear(A, p)
                           /\ rowsA = Around(A, X, B)
                           /\ rowsB = Around(A, Y, B)

LEMMA ApartTypes ==
    ASSUME NEW p \in Folders, NEW q \in Lists, IsAbove(q, p)
    PROVE  Apart(p, q)
<1>1. Len(q) < Len(p) /\ Len(q) \in Nat /\ Len(p) \in Nat
  BY ListTypes DEF IsAbove
<1> QED BY <1>1 DEF Apart, IsAbove

\* What is in another child's block has nothing to do with p.
LEMMA OtherChild ==
    ASSUME NEW ch, NEW ex \in SUBSET Folders, NEW q \in Lists,
           NEW b \in EnumerateFiles(q), NEW c \in EnumerateFiles(q), b # c,
           NEW p \in Disk, c = p \/ IsAbove(c, p)
    PROVE  /\ b \in Folders => Apart(p, b)
           /\ \A d \in Disk : b = d \/ IsAbove(b, d) => Apart(p, d)
           /\ Clear(Block(ex, RowsBelow(ch, ex), b), p)
<1>1. b \in Disk /\ c \in Disk
  BY ChildOf
<1>2. ASSUME NEW d \in Disk, b = d \/ IsAbove(b, d)
      PROVE  Apart(p, d)
  <2>1. CASE d = p
    BY <1>2, <2>1, OneWayDown
  <2>2. CASE IsAbove(p, d)
    <3>1. IsAbove(c, d)
      <4>1. CASE c = p
        BY <2>2, <4>1
      <4>2. CASE IsAbove(c, p)
        <5>1. /\ c \in Seq(Component) /\ p \in Seq(Component) /\ d \in Seq(Component)
              /\ Len(c) \in Nat /\ Len(p) \in Nat /\ Len(d) \in Nat
          BY <1>1, ListTypes
        <5>2. Len(c) < Len(p) /\ Len(p) < Len(d) /\ SubSeq(p, 1, Len(c)) = c
              /\ SubSeq(d, 1, Len(p)) = p
          BY <2>2, <4>2 DEF IsAbove
        <5>3. SubSeq(SubSeq(d, 1, Len(p)), 1, Len(c)) = SubSeq(d, 1, Len(c))
          <6>1. Len(p) \in 0 .. Len(d) /\ Len(c) \in 0 .. Len(p)
            BY <5>1, <5>2
          <6> QED BY <5>1, <6>1, PrefixOfPrefix
        <5> QED BY <5>1, <5>2, <5>3 DEF IsAbove
      <4> QED BY <4>1, <4>2
    <3> QED BY <1>2, <3>1, OneWayDown
  <2> QED BY <2>1, <2>2 DEF Apart
<1>3. Apart(p, b)
  BY <1>1, <1>2
<1>4. ASSUME NEW d \in Range(Block(ex, RowsBelow(ch, ex), b))
      PROVE  Apart(p, d)
  <2>1. b \in Row
    BY <1>1 DEF Row
  <2>2. d = b \/ (b \in ex /\ d \in Range(RowsBelow(ch, ex)[b]))
    BY <1>4, <2>1, BlockRange
  <2>3. CASE d = Loading
    BY <2>3, LoadingAssumption DEF Apart
  <2>4. CASE d # Loading /\ b \in ex /\ d \in Range(RowsBelow(ch, ex)[b])
    <3>1. d \in Disk /\ Shown(ch, ex, b, d)
      BY <2>4, ListTypes, RowsAreShown
    <3> QED BY <1>2, <3>1 DEF Shown
  <2> QED BY <1>3, <2>2, <2>3, <2>4
<1> QED BY <1>2, <1>3, <1>4 DEF Clear

LEMMA OtherChildKept ==
    ASSUME NEW ch, NEW ex \in SUBSET Folders, NEW ch2, NEW ex2 \in SUBSET Folders,
           NEW p \in Folders, SameElsewhere(ch, ex, ch2, ex2, p),
           NEW b \in Row, \A d \in Disk : b = d \/ IsAbove(b, d) => Apart(p, d)
    PROVE  Block(ex2, RowsBelow(ch2, ex2), b) = Block(ex, RowsBelow(ch, ex), b)
<1>1. CASE b \notin Folders
  BY <1>1 DEF Block
<1>2. CASE b \in Folders
  <2>1. b \in Lists /\ b \in Disk /\ Apart(p, b)
    BY <1>2, ListTypes
  <2>2. (b \in ex <=> b \in ex2) /\ m_Children(ch2, b) = m_Children(ch, b)
    BY <2>1 DEF SameElsewhere
  <2>3. ASSUME NEW r \in Folders, Shown(ch, ex, b, r)
        PROVE  (r \in ex <=> r \in ex2) /\ m_Children(ch2, r) = m_Children(ch, r)
    <3>1. r \in Disk /\ r \in Lists /\ IsAbove(b, r)
      BY <2>3, ListTypes DEF Shown
    <3> QED BY <3>1 DEF SameElsewhere
  <2>4. Untouched(ch, ex, ch2, ex2, b)
    BY <2>2, <2>3 DEF Untouched
  <2>5. RowsBelow(ch2, ex2)[b] = RowsBelow(ch, ex)[b]
    BY <2>1, <2>4, RowsKept
  <2> QED BY <2>2, <2>5 DEF Block
<1> QED BY <1>1, <1>2

LEMMA ClearJoined ==
    ASSUME NEW A \in Seq(Row), NEW B \in Seq(Row), NEW p, Clear(A, p), Clear(B, p)
    PROVE  A \o B \in Seq(Row) /\ Clear(A \o B, p)
BY Joined DEF Clear

LEMMA HoldsAround ==
    ASSUME NEW A \in Seq(Row), NEW B \in Seq(Row), NEW C \in Seq(Row), NEW D \in Seq(Row),
           NEW w \in Seq(Row), NEW X \in Seq(Row), NEW Y \in Seq(Row),
           NEW p, Clear(A, p), Clear(w, p), Clear(C, p)
    PROVE  Holds(Around(A, w \o Around(C, X, D), B), X, Around(A, w \o Around(C, Y, D), B), Y, p)
<1>1. /\ Around(A, w \o Around(C, X, D), B) = Around(A \o (w \o C), X, D \o B)
      /\ A \o (w \o C) \in Seq(Row) /\ D \o B \in Seq(Row)
  BY Nested
<1>2. Around(A, w \o Around(C, Y, D), B) = Around(A \o (w \o C), Y, D \o B)
  BY Nested
<1>3. Clear(A \o (w \o C), p)
  <2>1. PICK v \in Seq(Row) : v = w \o C /\ Clear(v, p)
    BY ClearJoined
  <2>2. Clear(A \o v, p)
    BY <2>1, ClearJoined
  <2> QED BY <2>1, <2>2, Zenon
<1> QED BY <1>1, <1>2, <1>3, Zenon DEF Holds

\* When only p's subtree changes, the rows below a list in which p has a row change
\* in the place of p's block only.
LEMMA Hole ==
    ASSUME NEW ch, NEW ex \in SUBSET Folders, NEW ch2, NEW ex2 \in SUBSET Folders,
           NEW p \in Folders, SameElsewhere(ch, ex, ch2, ex2, p)
    PROVE  \A q \in Lists : Shown(ch, ex, q, p) =>
               Holds(RowsBelow(ch, ex)[q], Block(ex, RowsBelow(ch, ex), p),
                     RowsBelow(ch2, ex2)[q], Block(ex2, RowsBelow(ch2, ex2), p), p)
<1> DEFINE f == RowsBelow(ch, ex)
           g == RowsBelow(ch2, ex2)
           X == Block(ex, f, p)
           Y == Block(ex2, g, p)
           S == {q \in Lists : Shown(ch, ex, q, p) => Holds(f[q], X, g[q], Y, p)}
<1>1. \A q \in Lists : /\ f[q] = FlattenSeq(Blocks(ch, ex, f, q)) /\ f[q] \in Seq(Row)
                       /\ g[q] = FlattenSeq(Blocks(ch2, ex2, g, q)) /\ g[q] \in Seq(Row)
  BY RowsBelowIs
<1>2. p \in Disk /\ p \in Lists /\ p \in Row
  BY ListTypes DEF Row
<1>3. X \in Seq(Row) /\ Y \in Seq(Row)
  BY <1>2, BlockRange
<1>4. ASSUME NEW q \in Lists, \A c \in Lists : Len(c) > Len(q) => c \in S
      PROVE  q \in S
  <2>1. SUFFICES ASSUME Shown(ch, ex, q, p)
                 PROVE  Holds(f[q], X, g[q], Y, p)
    OBVIOUS
  <2>2. IsAbove(q, p) /\ Listed(ch, q)
    BY <2>1 DEF Shown
  <2>3. m_Children(ch2, q) = m_Children(ch, q)
    BY <2>2, ApartTypes DEF SameElsewhere
  <2>4. PICK c \in EnumerateFiles(q) : c = p \/ (c \in Folders /\ IsAbove(c, p))
    BY <1>2, <2>2, WayDown
  <2> DEFINE own == m_Children(ch, q)
             F == Blocks(ch, ex, f, q)
             G == Blocks(ch2, ex2, g, q)
  <2>5. PICK n \in 1 .. Len(own) : own[n] = c
    BY <2>2, <2>4, ChildList
  <2>6. /\ F \in Seq(Seq(Row)) /\ Len(F) = Len(own)
        /\ G \in Seq(Seq(Row)) /\ Len(G) = Len(own)
        /\ \A i \in 1 .. Len(own) : F[i] = Block(ex, f, own[i]) /\ G[i] = Block(ex2, g, own[i])
    <3>1. F \in Seq(Seq(Row)) /\ Len(F) = Len(own)
      BY RowsBelowIs, BlocksType
    <3>2. G \in Seq(Seq(Row)) /\ Len(G) = Len(own)
      BY <2>3, RowsBelowIs, BlocksType
    <3>3. \A i \in 1 .. Len(own) : F[i] = Block(ex, f, own[i]) /\ G[i] = Block(ex2, g, own[i])
      BY <2>3 DEF Blocks
    <3> QED BY <3>1, <3>2, <3>3
  <2>7. ASSUME NEW j \in 1 .. Len(own), j # n
        PROVE  /\ F[j] = G[j]
               /\ Clear(F[j], p)
    <3>1. PICK b \in EnumerateFiles(q) : b = own[j] /\ b # c
      BY <2>2, <2>5, <2>7, ChildList
    <3>2. b \in Row
      BY <3>1, ChildOf DEF Row
    <3>3. /\ \A d \in Disk : b = d \/ IsAbove(b, d) => Apart(p, d)
          /\ Clear(Block(ex, f, b), p)
      BY <1>2, <2>4, <3>1, OtherChild
    <3>4. Block(ex2, g, b) = Block(ex, f, b)
      BY <3>2, <3>3, OtherChildKept
    <3> QED BY <2>6, <3>1, <3>3, <3>4
  <2> HIDE DEF F, G, own, f, g, X, Y
  <2>8. PICK A \in Seq(Row), B \in Seq(Row) :
            /\ f[q] = Around(A, F[n], B)
            /\ g[q] = Around(A, G[n], B)
            /\ \A d \in Range(A) : \E j \in 1 .. n - 1 : d \in Range(F[j])
    <3>1. DifferAt(F, G, n)
      BY <2>5, <2>6, <2>7 DEF DifferAt
    <3>2. FlattenedAround(Row, F, G, n)
      BY <2>6, <3>1, FlatContext, Zenon
    <3>3. f[q] = FlattenSeq(F) /\ g[q] = FlattenSeq(G)
      BY <1>1 DEF F, G
    <3> QED BY <3>2, <3>3, Zenon DEF FlattenedAround
  <2>9. Clear(A, p)
    <3>1. Len(own) \in Nat
      BY ChildList DEF own
    <3>2. \A j \in 1 .. n - 1 : j \in 1 .. Len(own) /\ j # n
      BY <2>5, <3>1
    <3> QED BY <2>7, <2>8, <3>2 DEF Clear
  <2>10. F[n] = Block(ex, f, c) /\ G[n] = Block(ex2, g, c)
    BY <2>5, <2>6
  <2>11. CASE c = p
    BY <2>8, <2>9, <2>10, <2>11 DEF Holds, X, Y
  <2>12. CASE c \in Folders /\ IsAbove(c, p)
    <3>1. c \in ex /\ Shown(ch, ex, c, p)
      BY <1>2, <2>1, <2>2, <2>4, <2>12, ShownBelow
    <3>2. c \in Lists /\ c \in Row /\ Len(c) > Len(q) /\ Apart(p, c)
      <4>1. Len(c) = Len(q) + 1 /\ Len(q) \in Nat
        BY <2>4, ChildOf, ListTypes
      <4> QED BY <2>12, <4>1, ListTypes, ApartTypes DEF Row
    <3>3. c \in ex2
      BY <3>1, <3>2 DEF SameElsewhere
    <3>4. PICK C \in Seq(Row), D \in Seq(Row) :
              Clear(C, p) /\ f[c] = Around(C, X, D) /\ g[c] = Around(C, Y, D)
      BY <1>4, <3>1, <3>2 DEF Holds
    <3>5. PICK w \in Seq(Row) : w = <<c>> /\ Clear(w, p)
      <4>1. <<c>> \in Seq(Row) /\ Range(<<c>>) = {c}
        BY <3>2 DEF Range
      <4> QED BY <3>2, <4>1 DEF Clear
    <3>6. F[n] = w \o Around(C, X, D) /\ G[n] = w \o Around(C, Y, D)
      BY <2>10, <3>1, <3>3, <3>4, <3>5, Zenon DEF Block
    <3>7. Holds(Around(A, w \o Around(C, X, D), B), X, Around(A, w \o Around(C, Y, D), B), Y, p)
      BY <1>3, <2>8, <2>9, <3>4, <3>5, HoldsAround
    <3> QED BY <2>8, <3>6, <3>7, Zenon
  <2> QED BY <2>4, <2>11, <2>12
<1>5. Lists \subseteq S
  <2> HIDE DEF S
  <2> QED BY <1>4, LevelInduction
<1> QED BY <1>5

-----------------------------------------------------------------------------
(* Rows inserted and removed *)

LEMMA Single ==
    ASSUME NEW R, NEW p \in R
    PROVE  <<p>> \in Seq(R)
OBVIOUS

LEMMA PartOf ==
    ASSUME NEW R, NEW s \in Seq(R), NEW m \in Nat \ {0}, NEW n \in 0 .. Len(s)
    PROVE  SubSeq(s, m, n) \in Seq(R) /\ Range(SubSeq(s, m, n)) \subseteq Range(s)
<1>1. Len(s) \in Nat /\ \A i \in 1 .. Len(s) : s[i] \in R
  OBVIOUS
<1> DEFINE t == SubSeq(s, m, n)
<1>2. /\ t \in Seq(R)
      /\ Len(t) = IF m <= n THEN n - m + 1 ELSE 0
      /\ \A i \in 1 .. Len(t) : t[i] = s[m + i - 1]
  BY <1>1, SubSeqProperties
<1> HIDE DEF t
<1>3. ASSUME NEW i \in 1 .. Len(t)
      PROVE  t[i] \in Range(s)
  <2>1. m + i - 1 \in 1 .. Len(s)
    BY <1>1, <1>2, <1>3
  <2>2. DOMAIN s = 1 .. Len(s)
    OBVIOUS
  <2> QED BY <1>2, <1>3, <2>1, <2>2, Zenon DEF Range
<1>4. DOMAIN t = 1 .. Len(t)
  BY <1>2
<1>5. Range(t) \subseteq Range(s)
  BY <1>3, <1>4 DEF Range
<1> QED BY <1>2, <1>5 DEF t

LEMMA RowsToIs ==
    ASSUME NEW tree \in Seq(Row), NEW p
    PROVE  /\ RowsTo(tree, p) \in 0 .. Len(tree)
           /\ \A n \in 1 .. Len(tree) :
                  tree[n] = p /\ (\A i \in 1 .. n - 1 : tree[i] # p) => RowsTo(tree, p) = n
<1> DEFINE I == {i \in 1 .. Len(tree) : tree[i] = p}
<1>1. RowsTo(tree, p) = IF I # {} THEN Min(I) ELSE 0
  BY DEF RowsTo, SelectInSeq
<1>2. Len(tree) \in Nat
  OBVIOUS
<1>3. ASSUME I # {}
      PROVE  \E m \in I : m = Min(I) /\ \A i \in I : m <= i
  <2>1. I \subseteq Nat
    BY <1>2
  <2> HIDE DEF I
  <2>2. \E m \in I : \A i \in I : m <= i
    BY <1>3, <2>1, LeastNatural
  <2> QED BY <2>2, Zenon DEF Min
<1>4. RowsTo(tree, p) \in 0 .. Len(tree)
  BY <1>1, <1>2, <1>3
<1>5. ASSUME NEW n \in 1 .. Len(tree), tree[n] = p, \A i \in 1 .. n - 1 : tree[i] # p
      PROVE  RowsTo(tree, p) = n
  <2>1. n \in I
    BY <1>5
  <2>2. PICK m \in I : m = Min(I) /\ \A i \in I : m <= i
    BY <1>3, <2>1
  <2>3. m \in 1 .. Len(tree) /\ tree[m] = p /\ m <= n
    BY <2>1, <2>2
  <2>4. ~(m \in 1 .. n - 1)
    BY <1>5, <2>3
  <2>5. m = n
    BY <1>2, <2>3, <2>4
  <2> QED BY <1>1, <2>1, <2>2, <2>5
<1> QED BY <1>4, <1>5

\* Where p's row is, in rows that have it once.
LEMMA Split ==
    ASSUME NEW A \in Seq(Row), NEW p \in Row, NEW Z \in Seq(Row), p \notin Range(A)
    PROVE  LET tree == Around(A, <<p>>, Z)
           IN  /\ tree \in Seq(Row) /\ Len(tree) = Len(A) + 1 + Len(Z)
               /\ RowsTo(tree, p) = Len(A) + 1
               /\ SubSeq(tree, 1, Len(A) + 1) = A \o <<p>>
               /\ \A k \in Nat : k <= Len(Z) =>
                      SubSeq(tree, (Len(A) + 1) + 1 + k, Len(tree)) = SubSeq(Z, k + 1, Len(Z))
<1> DEFINE tree == A \o (<<p>> \o Z)
<1>1. Len(A) \in Nat /\ Len(Z) \in Nat
  OBVIOUS
<1>2. /\ tree \in Seq(Row) /\ Len(tree) = Len(A) + 1 + Len(Z)
      /\ \A i \in 1 .. Len(A) : tree[i] = A[i]
      /\ tree[Len(A) + 1] = p
      /\ \A i \in 1 .. Len(Z) : tree[Len(A) + 1 + i] = Z[i]
  OBVIOUS
<1>3. Around(A, <<p>>, Z) = tree
  BY DEF Around, Cat
<1> HIDE DEF tree
<1>4. RowsTo(tree, p) = Len(A) + 1
  <2>1. Len(A) + 1 \in 1 .. Len(tree)
    BY <1>1, <1>2
  <2>2. \A i \in 1 .. (Len(A) + 1) - 1 : tree[i] # p
    <3>1. \A i \in 1 .. Len(A) : A[i] # p
      BY DEF Range
    <3>2. (Len(A) + 1) - 1 = Len(A)
      BY <1>1
    <3> QED BY <1>2, <3>1, <3>2
  <2> QED BY <1>2, <2>1, <2>2, RowsToIs
<1>5. SubSeq(tree, 1, Len(A) + 1) = A \o <<p>>
  <2> DEFINE s == SubSeq(tree, 1, Len(A) + 1)
             t == A \o <<p>>
  <2>1. s \in Seq(Row) /\ Len(s) = Len(A) + 1 /\ \A i \in 1 .. Len(A) + 1 : s[i] = tree[i]
    BY <1>1, <1>2
  <2>2. t \in Seq(Row) /\ Len(t) = Len(A) + 1 /\ \A i \in 1 .. Len(A) + 1 : t[i] = tree[i]
    BY <1>1, <1>2
  <2> HIDE DEF s, t
  <2>3. \A i \in 1 .. Len(s) : s[i] = t[i]
    BY <2>1, <2>2
  <2> QED BY <2>1, <2>2, <2>3, SeqEqual DEF s, t
<1>6. ASSUME NEW k \in Nat, k <= Len(Z)
      PROVE  SubSeq(tree, (Len(A) + 1) + 1 + k, Len(tree)) = SubSeq(Z, k + 1, Len(Z))
  <2> DEFINE s == SubSeq(tree, (Len(A) + 1) + 1 + k, Len(tree))
             t == SubSeq(Z, k + 1, Len(Z))
  <2>1. /\ s \in Seq(Row) /\ Len(s) = Len(Z) - k
        /\ \A i \in 1 .. Len(Z) - k : s[i] = tree[Len(A) + 1 + (k + i)]
    BY <1>1, <1>2, <1>6
  <2>2. /\ t \in Seq(Row) /\ Len(t) = Len(Z) - k
        /\ \A i \in 1 .. Len(Z) - k : t[i] = Z[k + i]
    BY <1>1, <1>6
  <2> HIDE DEF s, t
  <2>3. \A i \in 1 .. Len(s) : s[i] = t[i]
    <3>1. \A i \in 1 .. Len(Z) - k : k + i \in 1 .. Len(Z)
      BY <1>1, <1>6
    <3> QED BY <1>2, <2>1, <2>2, <3>1
  <2> QED BY <2>1, <2>2, <2>3, SeqEqual DEF s, t
<1> QED BY <1>2, <1>3, <1>4, <1>5, <1>6

\* The rows that are inserted come after p's.
LEMMA Inserted ==
    ASSUME NEW A \in Seq(Row), NEW p \in Row, NEW Z \in Seq(Row), p \notin Range(A),
           NEW s \in Seq(Row)
    PROVE  InsertRows(Around(A, <<p>>, Z), RowsTo(Around(A, <<p>>, Z), p), s)
               = Around(A, <<p>>, s \o Z)
<1> DEFINE tree == Around(A, <<p>>, Z)
           at == Len(A) + 1
<1>1. /\ RowsTo(tree, p) = at
      /\ SubSeq(tree, 1, at) = A \o <<p>>
      /\ \A k \in Nat : k <= Len(Z) =>
             SubSeq(tree, at + 1 + k, Len(tree)) = SubSeq(Z, k + 1, Len(Z))
  BY Split
<1>2. Len(Z) \in Nat /\ Len(A) \in Nat
  OBVIOUS
<1> HIDE DEF tree
<1>3. SubSeq(tree, at + 1, Len(tree)) = Z
  <2>1. SubSeq(tree, at + 1 + 0, Len(tree)) = SubSeq(Z, 0 + 1, Len(Z))
    BY <1>1, <1>2
  <2>2. at + 1 + 0 = at + 1 /\ 0 + 1 = 1
    BY <1>2
  <2>3. SubSeq(Z, 1, Len(Z)) = Z
    OBVIOUS
  <2> QED BY <2>1, <2>2, <2>3
<1>4. InsertRows(tree, at, s) = ((A \o <<p>>) \o s) \o Z
  BY <1>1, <1>3, Zenon DEF InsertRows
<1>5. PICK w \in Seq(Row) : w = <<p>>
  BY Single
<1>6. Cat(Cat(Cat(A, w), s), Z) = Cat(A, Cat(w, Cat(s, Z)))
  BY Regrouped
<1> QED BY <1>1, <1>4, <1>5, <1>6, Zenon DEF tree, Around, Cat

LEMMA InsertedTypes ==
    ASSUME NEW tree \in Seq(Row), NEW p, NEW s \in Seq(Row)
    PROVE  /\ InsertRows(tree, RowsTo(tree, p), s) \in Seq(Row)
           /\ Range(InsertRows(tree, RowsTo(tree, p), s)) \subseteq Range(tree) \cup Range(s)
<1> DEFINE at == RowsTo(tree, p)
<1>1. at \in 0 .. Len(tree) /\ Len(tree) \in Nat
  BY RowsToIs
<1> HIDE DEF at
<1>2. PICK a : a = SubSeq(tree, 1, at)
  OBVIOUS
<1>3. PICK z : z = SubSeq(tree, at + 1, Len(tree))
  OBVIOUS
<1>4. a \in Seq(Row) /\ Range(a) \subseteq Range(tree)
  <2>1. 1 \in Nat \ {0} /\ at \in 0 .. Len(tree)
    BY <1>1
  <2> QED BY <1>2, <2>1, PartOf
<1>5. z \in Seq(Row) /\ Range(z) \subseteq Range(tree)
  <2>1. at + 1 \in Nat \ {0} /\ Len(tree) \in 0 .. Len(tree)
    BY <1>1
  <2> QED BY <1>3, <2>1, PartOf
<1>6. PICK b : b = a \o s
  OBVIOUS
<1>7. b \in Seq(Row) /\ Range(b) = Range(a) \cup Range(s)
  BY <1>4, <1>6, Joined
<1>8. b \o z \in Seq(Row) /\ Range(b \o z) = Range(b) \cup Range(z)
  BY <1>5, <1>7, Joined
<1>9. InsertRows(tree, at, s) = b \o z
  BY <1>2, <1>3, <1>6, Zenon DEF InsertRows
<1> QED BY <1>4, <1>5, <1>7, <1>8, <1>9 DEF at

LEMMA MaxZero ==
    ASSUME NEW n \in Int
    PROVE  Max({n, 0}) = IF n >= 0 THEN n ELSE 0
<1>1. \E x \in {n, 0} : \A y \in {n, 0} : x >= y
  <2>1. CASE n >= 0
    BY <2>1
  <2>2. CASE ~(n >= 0)
    BY <2>2
  <2> QED BY <2>1, <2>2
<1>2. Max({n, 0}) \in {n, 0} /\ \A y \in {n, 0} : Max({n, 0}) >= y
  BY <1>1, Zenon DEF Max
<1> QED BY <1>2

\* What Collapse removes when its count is right are the rows after p's.
LEMMA Removed ==
    ASSUME NEW A \in Seq(Row), NEW p \in Row, NEW X \in Seq(Row), NEW Z \in Seq(Row),
           p \notin Range(A), rows = Around(A, <<p>> \o X, Z),
           m_ExpandedChildrenCount[p] = Len(X)
    PROVE  /\ RemoveRows(rows, p) = Around(A, <<p>>, Z)
           /\ ~RemovesTooMany(p)
<1> DEFINE at == Len(A) + 1
<1>1. PICK W \in Seq(Row) : W = X \o Z /\ Len(W) = Len(X) + Len(Z)
  <2>1. X \o Z \in Seq(Row) /\ Len(X \o Z) = Len(X) + Len(Z)
    BY Joined
  <2> QED BY <2>1, Zenon
<1>2. rows = Around(A, <<p>>, W)
  <2>1. PICK w \in Seq(Row) : w = <<p>>
    BY Single
  <2>2. Cat(A, Cat(Cat(w, X), Z)) = Cat(A, Cat(w, Cat(X, Z)))
    BY Regrouped
  <2> QED BY <1>1, <2>1, <2>2, Zenon DEF Around, Cat
<1>3. Len(X) \in Nat /\ Len(Z) \in Nat /\ Len(A) \in Nat
  OBVIOUS
<1>4. /\ RowsTo(rows, p) = at /\ Len(rows) = at + Len(W)
      /\ SubSeq(rows, 1, at) = A \o <<p>>
      /\ SubSeq(rows, at + 1 + Len(X), Len(rows)) = SubSeq(W, Len(X) + 1, Len(W))
  <2>1. Len(X) <= Len(W)
    BY <1>1, <1>3
  <2>2. p \notin Range(A)
    OBVIOUS
  <2>3. /\ RowsTo(Around(A, <<p>>, W), p) = Len(A) + 1
        /\ Len(Around(A, <<p>>, W)) = Len(A) + 1 + Len(W)
        /\ SubSeq(Around(A, <<p>>, W), 1, Len(A) + 1) = A \o <<p>>
        /\ \A k \in Nat : k <= Len(W) =>
               SubSeq(Around(A, <<p>>, W), (Len(A) + 1) + 1 + k, Len(Around(A, <<p>>, W)))
                   = SubSeq(W, k + 1, Len(W))
    BY Split
  <2> QED BY <1>2, <1>3, <2>1, <2>3
<1>5. SubSeq(W, Len(X) + 1, Len(W)) = Z
  BY <1>1, <1>3
<1>6. Max({m_ExpandedChildrenCount[p], 0}) = Len(X)
  <2>1. m_ExpandedChildrenCount[p] = Len(X) /\ Len(X) \in Int /\ Len(X) >= 0
    BY <1>3
  <2> QED BY <2>1, MaxZero
<1>7. RemoveRows(rows, p) = (A \o <<p>>) \o Z
  BY <1>4, <1>5, <1>6 DEF RemoveRows
<1>8. ~RemovesTooMany(p)
  BY <1>1, <1>3, <1>4 DEF RemovesTooMany
<1>9. PICK w \in Seq(Row) : w = <<p>>
  BY Single
<1>10. Cat(Cat(A, w), Z) = Cat(A, Cat(w, Z))
  BY Regrouped
<1> QED BY <1>7, <1>8, <1>9, <1>10, Zenon DEF Around, Cat

LEMMA RemovedTypes ==
    ASSUME NEW tree \in Seq(Row), NEW p, m_ExpandedChildrenCount[p] \in Int
    PROVE  /\ RemoveRows(tree, p) \in Seq(Row)
           /\ Range(RemoveRows(tree, p)) \subseteq Range(tree)
<1> DEFINE at == RowsTo(tree, p)
<1>1. at \in 0 .. Len(tree) /\ Len(tree) \in Nat
  BY RowsToIs
<1> HIDE DEF at
<1>2. PICK m \in Nat : m = Max({m_ExpandedChildrenCount[p], 0})
  BY MaxZero
<1>3. PICK a : a = SubSeq(tree, 1, at)
  OBVIOUS
<1>4. PICK z : z = SubSeq(tree, at + 1 + m, Len(tree))
  OBVIOUS
<1>5. a \in Seq(Row) /\ Range(a) \subseteq Range(tree)
  <2>1. 1 \in Nat \ {0} /\ at \in 0 .. Len(tree)
    BY <1>1
  <2> QED BY <1>3, <2>1, PartOf
<1>6. z \in Seq(Row) /\ Range(z) \subseteq Range(tree)
  <2>1. at + 1 + m \in Nat \ {0} /\ Len(tree) \in 0 .. Len(tree)
    BY <1>1, <1>2
  <2> QED BY <1>4, <2>1, PartOf
<1>7. a \o z \in Seq(Row) /\ Range(a \o z) = Range(a) \cup Range(z)
  BY <1>5, <1>6, Joined
<1>8. RemoveRows(tree, p) = a \o z
  BY <1>2, <1>3, <1>4 DEF RemoveRows, at
<1> QED BY <1>5, <1>6, <1>7, <1>8

-----------------------------------------------------------------------------
(* DoExpand *)

\* The loop over the children own of a folder, from the rows u on, when e expands.
IsLoop(u, own, ex, e, l) ==
    l = [n \in 0 .. Len(own) |->
            IF n = 0 THEN u
            ELSE IF own[n] \in ex THEN e[own[n]][l[n - 1]]
            ELSE l[n - 1]]

Turns(u, own, ex, e, l) ==
    /\ l[0] = u
    /\ \A n \in 1 .. Len(own) :
           l[n] = IF own[n] \in ex THEN e[own[n]][l[n - 1]] ELSE l[n - 1]

\* There is such a loop.
LEMMA LoopExists ==
    ASSUME NEW u, NEW own, Len(own) \in Nat, NEW ex, NEW e
    PROVE  /\ IsLoop(u, own, ex, e, CHOOSE l : IsLoop(u, own, ex, e, l))
           /\ \A l : IsLoop(u, own, ex, e, l) => Turns(u, own, ex, e, l)
<1> DEFINE N == Len(own)
           Body(f, n) == IF n = 0 THEN u
                         ELSE IF own[n] \in ex THEN e[own[n]][f[n - 1]]
                         ELSE f[n - 1]
           Upto(f, k) == f = [n \in 0 .. k |-> Body(f, n)]
           S == {k \in Nat : \E f : Upto(f, k)}
<1>1. 0 \in S
  <2>1. PICK f : f = [n \in 0 .. 0 |-> u]
    OBVIOUS
  <2>2. f = [n \in 0 .. 0 |-> Body(f, n)]
    <3>1. \A n \in 0 .. 0 : Body(f, n) = u
      OBVIOUS
    <3> HIDE DEF Body
    <3> QED BY <2>1, <3>1
  <2> QED BY <2>2
<1>2. ASSUME NEW k \in Nat, k \in S
      PROVE  k + 1 \in S
  <2>1. PICK f : Upto(f, k)
    BY <1>2
  <2>2. PICK g : g = [n \in 0 .. k + 1 |-> Body(f, n)]
    OBVIOUS
  <2>3. \A n \in 0 .. k : g[n] = f[n]
    <3>1. \A n \in 0 .. k : n \in 0 .. k + 1
      BY <1>2
    <3> HIDE DEF Body
    <3> QED BY <2>1, <2>2, <3>1, Zenon
  <2>4. ASSUME NEW n \in 0 .. k + 1
        PROVE  Body(g, n) = Body(f, n)
    <3>1. n = 0 \/ n - 1 \in 0 .. k
      BY <1>2
    <3> QED BY <2>3, <3>1, Zenon
  <2> HIDE DEF Body
  <2>5. g = [n \in 0 .. k + 1 |-> Body(g, n)]
    BY <2>2, <2>4
  <2> QED BY <1>2, <2>5
<1>3. N \in Nat
  OBVIOUS
<1>4. \E f : Upto(f, N)
  <2>1. Nat \subseteq S
    <3> HIDE DEF S
    <3> QED BY <1>1, <1>2, Induction
  <2> QED BY <1>3, <2>1
<1>5. \A l : Upto(l, N) <=> IsLoop(u, own, ex, e, l)
  BY Zenon DEF IsLoop
<1>6. IsLoop(u, own, ex, e, CHOOSE l : IsLoop(u, own, ex, e, l))
  BY <1>4, <1>5, Zenon
<1>7. ASSUME NEW l, IsLoop(u, own, ex, e, l)
      PROVE  Turns(u, own, ex, e, l)
  <2>1. \A n \in 0 .. N : l[n] = Body(l, n)
    BY <1>7, Zenon DEF IsLoop
  <2>2. 0 \in 0 .. N /\ \A n \in 1 .. N : n \in 0 .. N /\ n # 0
    BY <1>3
  <2> QED BY <2>1, <2>2, Zenon DEF Turns
<1> QED BY <1>6, <1>7

\* Where the loop goes from sequences to sequences of the set V.
LEMMA LoopTypes ==
    ASSUME NEW V, NEW u \in V, NEW own, Len(own) \in Nat, NEW ex, NEW e, NEW l,
           Turns(u, own, ex, e, l),
           \A n \in 1 .. Len(own) : own[n] \in ex => \A v \in V : e[own[n]][v] \in V
    PROVE  \A n \in 0 .. Len(own) : l[n] \in V
<1> DEFINE S == {n \in Nat : n <= Len(own) => l[n] \in V}
<1>1. 0 \in S
  BY DEF Turns
<1>2. ASSUME NEW n \in Nat, n \in S
      PROVE  n + 1 \in S
  <2>1. CASE n + 1 <= Len(own)
    <3>1. n + 1 \in 1 .. Len(own) /\ n <= Len(own) /\ (n + 1) - 1 = n /\ n + 1 \in Nat
      BY <1>2, <2>1
    <3>2. l[n + 1] = IF own[n + 1] \in ex THEN e[own[n + 1]][l[n]] ELSE l[n]
      BY <3>1 DEF Turns
    <3>3. l[n] \in V
      BY <1>2, <3>1
    <3>4. l[n + 1] \in V
      BY <3>1, <3>2, <3>3
    <3> QED BY <3>1, <3>4
  <2>2. CASE ~(n + 1 <= Len(own))
    BY <2>2
  <2> QED BY <2>1, <2>2
<1>3. Nat \subseteq S
  <2> HIDE DEF S
  <2> QED BY <1>1, <1>2, Induction
<1>4. \A n \in 0 .. Len(own) : n \in Nat /\ n <= Len(own)
  OBVIOUS
<1> QED BY <1>3, <1>4

\* The loop depends on what e does for the expanded children only.
LEMMA LoopsAgree ==
    ASSUME NEW u, NEW own, Len(own) \in Nat, NEW ex, NEW e, NEW e2, NEW l, NEW l2,
           Turns(u, own, ex, e, l), Turns(u, own, ex, e2, l2),
           \A n \in 1 .. Len(own) : own[n] \in ex => e[own[n]] = e2[own[n]]
    PROVE  l[Len(own)] = l2[Len(own)]
<1> DEFINE S == {n \in Nat : n <= Len(own) => l[n] = l2[n]}
<1>1. 0 \in S
  BY DEF Turns
<1>2. ASSUME NEW n \in Nat, n \in S
      PROVE  n + 1 \in S
  <2>1. CASE n + 1 <= Len(own)
    <3>1. n + 1 \in 1 .. Len(own) /\ n <= Len(own) /\ (n + 1) - 1 = n /\ n + 1 \in Nat
      BY <1>2, <2>1
    <3>2. /\ l[n + 1] = IF own[n + 1] \in ex THEN e[own[n + 1]][l[n]] ELSE l[n]
          /\ l2[n + 1] = IF own[n + 1] \in ex THEN e2[own[n + 1]][l2[n]] ELSE l2[n]
      BY <3>1 DEF Turns
    <3>3. l[n] = l2[n]
      BY <1>2, <3>1
    <3>4. l[n + 1] = l2[n + 1]
      BY <3>1, <3>2, <3>3
    <3> QED BY <3>1, <3>4
  <2>2. CASE ~(n + 1 <= Len(own))
    BY <2>2
  <2> QED BY <2>1, <2>2
<1>3. Nat \subseteq S
  <2> HIDE DEF S
  <2> QED BY <1>1, <1>2, Induction
<1>4. Len(own) \in S
  <2> HIDE DEF S
  <2> QED BY <1>3
<1> QED BY <1>4

\* The rows when the loop of DoExpand begins, and the loop.
Start(ch, p, tree) == InsertRows(tree, RowsTo(tree, p), m_Children(ch, p))

LoopOf(ch, ex, e, p, tree) ==
    CHOOSE l : IsLoop(Start(ch, p, tree), m_Children(ch, p), ex, e, l)

Result(ch, ex, e, p, tree) == LoopOf(ch, ex, e, p, tree)[Len(m_Children(ch, p))]

LEMMA LoopTurns ==
    ASSUME NEW ch, NEW ex, NEW e, NEW p \in Folders, NEW tree
    PROVE  /\ Len(m_Children(ch, p)) \in Nat
           /\ Turns(Start(ch, p, tree), m_Children(ch, p), ex, e, LoopOf(ch, ex, e, p, tree))
<1>1. Len(m_Children(ch, p)) \in Nat
  BY ListTypes, ChildList
<1> QED BY <1>1, LoopExists DEF LoopOf

\* Expanded children are folders further down.
LEMMA ExpandedChild ==
    ASSUME NEW ch, NEW ex \in SUBSET Folders, NEW p \in Folders,
           NEW n \in 1 .. Len(m_Children(ch, p)), m_Children(ch, p)[n] \in ex
    PROVE  /\ m_Children(ch, p)[n] \in Folders
           /\ m_Children(ch, p)[n] \in EnumerateFiles(p)
           /\ Listed(ch, p)
           /\ Len(m_Children(ch, p)[n]) > Len(p)
<1> DEFINE c == m_Children(ch, p)[n]
<1>1. p \in Lists /\ c \in Folders /\ c # Loading
  BY ListTypes, LoadingAssumption
<1>2. c \in EnumerateFiles(p) /\ Listed(ch, p)
  BY <1>1, ChildList
<1>3. Len(c) = Len(p) + 1 /\ Len(p) \in Nat
  BY <1>1, <1>2, ChildOf, ListTypes
<1> QED BY <1>1, <1>2, <1>3

Expander == [Seq(Row) -> Seq(Row)]

LEMMA ResultType ==
    ASSUME NEW ch, NEW ex \in SUBSET Folders, NEW p \in Folders, NEW tree \in Seq(Row), NEW e,
           \A c \in Folders : Len(c) > Len(p) => e[c] \in Expander
    PROVE  Result(ch, ex, e, p, tree) \in Seq(Row)
<1> DEFINE own == m_Children(ch, p)
           l == LoopOf(ch, ex, e, p, tree)
<1>1. own \in Seq(Row) /\ Len(own) \in Nat /\ Turns(Start(ch, p, tree), own, ex, e, l)
  BY ListTypes, ChildList, LoopTurns
<1>2. Start(ch, p, tree) \in Seq(Row)
  BY <1>1, InsertedTypes DEF Start
<1>3. \A n \in 1 .. Len(own) : own[n] \in ex => \A v \in Seq(Row) : e[own[n]][v] \in Seq(Row)
  <2>1. \A n \in 1 .. Len(own) : own[n] \in ex => e[own[n]] \in Expander
    BY ExpandedChild
  <2> QED BY <2>1 DEF Expander
<1> HIDE DEF own, l
<1>4. \A n \in 0 .. Len(own) : l[n] \in Seq(Row)
  BY <1>1, <1>2, <1>3, LoopTypes
<1>5. Len(own) \in 0 .. Len(own)
  BY <1>1
<1> QED BY <1>4, <1>5 DEF Result, own, l

LEMMA ResultsAgree ==
    ASSUME NEW ch, NEW ex \in SUBSET Folders, NEW p \in Folders, NEW tree, NEW e, NEW e2,
           \A c \in Folders : Len(c) > Len(p) => e[c] = e2[c]
    PROVE  Result(ch, ex, e, p, tree) = Result(ch, ex, e2, p, tree)
<1> DEFINE own == m_Children(ch, p)
           u == Start(ch, p, tree)
           l == LoopOf(ch, ex, e, p, tree)
           l2 == LoopOf(ch, ex, e2, p, tree)
<1>1. Len(own) \in Nat /\ Turns(u, own, ex, e, l) /\ Turns(u, own, ex, e2, l2)
  BY LoopTurns
<1>2. \A n \in 1 .. Len(own) : own[n] \in ex => e[own[n]] = e2[own[n]]
  BY ExpandedChild
<1> HIDE DEF own, u, l, l2
<1>3. l[Len(own)] = l2[Len(own)]
  BY <1>1, <1>2, LoopsAgree
<1> QED BY <1>3 DEF Result, own, l, l2

\* DoExpand is the function that its recursion describes.
LEMMA DoExpandIs ==
    ASSUME NEW ch, NEW ex \in SUBSET Folders
    PROVE  /\ DoExpand(ch, ex) \in [Folders -> Expander]
           /\ \A p \in Folders : \A tree \in Seq(Row) :
                  DoExpand(ch, ex)[p][tree] = Result(ch, ex, DoExpand(ch, ex), p, tree)
<1> DEFINE T == [Folders -> Expander]
           Turn(f, p) == [tree \in Seq(Row) |-> Result(ch, ex, f, p, tree)]
           G == [p \in Folders |-> [f \in T |-> Turn(f, p)]]
<1>1. \A p \in Folders : \A f \in T : Turn(f, p) \in Expander
  BY ResultType DEF Expander
<1>2. G \in [Folders -> [T -> Expander]]
  <2> HIDE DEF T, Turn
  <2> QED BY <1>1
<1>3. \A p \in Folders : \A f \in T : G[p][f] = Turn(f, p)
  <2> HIDE DEF T, Turn
  <2> QED OBVIOUS
<1>4. ASSUME NEW p \in Folders, NEW f, NEW g,
             \A c \in Folders : Len(c) > Len(p) => f[c] = g[c]
      PROVE  Turn(f, p) = Turn(g, p)
  BY <1>4, ResultsAgree
<1>5. \E f \in T : \A p \in Folders : f[p] = G[p][f]
  <2>1. PICK id : id \in Expander
    <3>1. [tree \in Seq(Row) |-> tree] \in Expander
      BY DEF Expander
    <3> QED BY <3>1
  <2>2. Folders \in SUBSET Lists
    BY ListTypes
  <2> HIDE DEF G, Turn
  <2>3. LooksDown(Folders, Expander, G)
    <3>1. ASSUME NEW p \in Folders, NEW f \in T, NEW g \in T,
                 \A c \in Folders : Len(c) > Len(p) => f[c] = g[c]
          PROVE  G[p][f] = G[p][g]
      <4>1. Turn(f, p) = Turn(g, p)
        BY <1>4, <3>1
      <4>2. G[p][f] = Turn(f, p) /\ G[p][g] = Turn(g, p)
        BY <1>3
      <4> QED BY <4>1, <4>2
    <3> QED BY <1>2, <3>1 DEF LooksDown
  <2>4. \E f \in [Folders -> Expander] : Obeys(Folders, G, f)
    BY <2>1, <2>2, <2>3, LevelRecursion
  <2> QED BY <2>4, Zenon DEF Obeys
<1>6. PICK f \in T : \A p \in Folders : f[p] = Turn(f, p)
  <2> HIDE DEF G, T, Turn
  <2> QED BY <1>3, <1>5
<1> DEFINE Exp(g) == g = [p \in Folders |-> Turn(g, p)]
<1>7. DoExpand(ch, ex) = CHOOSE g : Exp(g)
  BY Zenon DEF DoExpand, Result, LoopOf, IsLoop, Start
<1>8. Exp(f)
  <2>1. f = [p \in Folders |-> f[p]]
    OBVIOUS
  <2> HIDE DEF Turn
  <2> QED BY <1>6, <2>1, Zenon
<1>9. Exp(DoExpand(ch, ex))
  <2> HIDE DEF Exp
  <2> QED BY <1>7, <1>8, Zenon
<1>10. PICK h : h = DoExpand(ch, ex)
  OBVIOUS
<1>11. h = [p \in Folders |-> Turn(h, p)]
  <2> HIDE DEF Turn
  <2> QED BY <1>9, <1>10
<1> HIDE DEF Turn
<1>12. \A p \in Folders : h[p] = Turn(h, p)
  BY <1>11, Zenon
<1> DEFINE S == {p \in Lists : p \in Folders => h[p] = f[p]}
<1>13. Lists \subseteq S
  <2>1. ASSUME NEW p \in Lists, \A c \in Lists : Len(c) > Len(p) => c \in S
        PROVE  p \in S
    <3>1. CASE p \in Folders
      <4>1. \A c \in Folders : Len(c) > Len(p) => h[c] = f[c]
        BY <2>1, ListTypes
      <4>2. Turn(h, p) = Turn(f, p)
        BY <1>4, <3>1, <4>1
      <4> QED BY <1>6, <1>12, <3>1, <4>2
    <3> QED BY <3>1
  <2> HIDE DEF S
  <2> QED BY <2>1, LevelInduction
<1>14. h = f
  <2>1. \A p \in Folders : h[p] = f[p]
    BY <1>13, ListTypes
  <2>2. h = [p \in Folders |-> h[p]] /\ f = [p \in Folders |-> f[p]]
    BY <1>11
  <2> QED BY <2>1, <2>2
<1>15. \A p \in Folders : \A tree \in Seq(Row) : f[p][tree] = Result(ch, ex, f, p, tree)
  BY <1>6 DEF Turn
<1> QED BY <1>10, <1>14, <1>15

\* The row of a child, w, stands between those before it and those that follow.
MovesOn(R, A, v, h, w, r, Z, x) ==
    /\ Around(A, v, Cat(h, Cat(Cat(w, r), Z))) = Around(Cat(A, Cat(v, h)), w, Cat(r, Z))
    /\ Around(Cat(A, Cat(v, h)), w, Cat(x, Cat(r, Z)))
           = Around(A, v, Cat(Cat(h, Cat(w, x)), Cat(r, Z)))
    /\ Cat(h, Cat(Cat(w, r), Z)) = Cat(Cat(h, w), Cat(r, Z))
    /\ Cat(r, Z) \in Seq(R)

LEMMA Moved ==
    ASSUME NEW R, NEW A \in Seq(R), NEW v \in Seq(R), NEW h \in Seq(R), NEW w \in Seq(R),
           NEW r \in Seq(R), NEW Z \in Seq(R), NEW x \in Seq(R)
    PROVE  MovesOn(R, A, v, h, w, r, Z, x)
<1>1. \A s, t \in Seq(R) : Cat(s, t) \in Seq(R)
  BY Regrouped
<1>2. \A s, t, u \in Seq(R) : Cat(Cat(s, t), u) = Cat(s, Cat(t, u))
  BY Regrouped
<1> DEFINE rz == Cat(r, Z)
           B(y) == Cat(A, Cat(v, Cat(h, Cat(w, y))))
<1>3. \A s, t \in Seq(R) : Cat(Cat(A, Cat(v, h)), Cat(s, t)) = Cat(A, Cat(v, Cat(h, Cat(s, t))))
  <2>1. \A y \in Seq(R) : Cat(Cat(A, Cat(v, h)), y) = Cat(A, Cat(v, Cat(h, y)))
    BY <1>1, <1>2
  <2> QED BY <1>1, <2>1
<1>4. rz \in Seq(R) /\ Cat(Cat(w, r), Z) = Cat(w, rz)
  BY <1>1, <1>2
<1>5. Cat(Cat(h, w), rz) = Cat(h, Cat(w, rz))
  BY <1>2, <1>4
<1>6. Cat(Cat(h, Cat(w, x)), rz) = Cat(h, Cat(w, Cat(x, rz))) /\ Cat(x, rz) \in Seq(R)
  <2>1. PICK wx \in Seq(R) : wx = Cat(w, x)
    BY <1>1
  <2>2. Cat(Cat(h, wx), rz) = Cat(h, Cat(wx, rz))
    BY <1>2, <1>4
  <2>3. Cat(wx, rz) = Cat(w, Cat(x, rz))
    BY <1>2, <1>4, <2>1
  <2> QED BY <1>1, <1>4, <2>1, <2>2, <2>3
<1> HIDE DEF rz
<1>7. Around(A, v, Cat(h, Cat(Cat(w, r), Z))) = Around(Cat(A, Cat(v, h)), w, rz)
  BY <1>3, <1>4 DEF Around
<1>8. Around(Cat(A, Cat(v, h)), w, Cat(x, rz)) = Around(A, v, Cat(Cat(h, Cat(w, x)), rz))
  BY <1>3, <1>6 DEF Around
<1> QED BY <1>4, <1>5, <1>7, <1>8 DEF rz, MovesOn

\* DoExpand puts the rows below a folder after its row, if there are none of its
\* subtree before it.
LEMMA Expanded ==
    ASSUME NEW ch, NEW ex \in SUBSET Folders
    PROVE  \A p \in Folders : \A A, Z \in Seq(Row) : Clear(A, p) =>
               DoExpand(ch, ex)[p][Around(A, <<p>>, Z)]
                   = Around(A, <<p>>, Cat(RowsBelow(ch, ex)[p], Z))
<1> DEFINE e == DoExpand(ch, ex)
           f == RowsBelow(ch, ex)
           Puts(p) == \A A, Z \in Seq(Row) : Clear(A, p) =>
                          e[p][Around(A, <<p>>, Z)] = Around(A, <<p>>, Cat(f[p], Z))
           S == {p \in Lists : p \in Folders => Puts(p)}
<1>1. \A p \in Folders : \A tree \in Seq(Row) : e[p][tree] = Result(ch, ex, e, p, tree)
  BY DoExpandIs
<1>2. f \in [Lists -> Seq(Row)] /\ \A p \in Lists : f[p] = FlattenSeq(Blocks(ch, ex, f, p))
  BY RowsBelowIs
<1>3. ASSUME NEW p \in Folders, \A c \in Lists : Len(c) > Len(p) => c \in S,
             NEW A \in Seq(Row), NEW Z \in Seq(Row), Clear(A, p)
      PROVE  e[p][Around(A, <<p>>, Z)] = Around(A, <<p>>, Cat(f[p], Z))
  <2> DEFINE own == m_Children(ch, p)
             tree == Around(A, <<p>>, Z)
             l == LoopOf(ch, ex, e, p, tree)
             F == Blocks(ch, ex, f, p)
  <2>1. p \in Lists /\ p \in Row /\ p \in Disk
    BY ListTypes DEF Row
  <2>2. /\ own \in Seq(Row) /\ Len(own) \in Nat
        /\ \A i, j \in 1 .. Len(own) : own[i] = own[j] => i = j
        /\ Listed(ch, p) => \A i \in 1 .. Len(own) : own[i] \in EnumerateFiles(p)
    BY <2>1, ChildList
  <2>3. F \in Seq(Seq(Row)) /\ Len(F) = Len(own)
    BY <1>2, <2>1, BlocksType
  <2>4. \A i \in 1 .. Len(own) : F[i] = Block(ex, f, own[i])
    BY DEF Blocks
  <2>5. PICK v \in Seq(Row) : v = <<p>> /\ Range(v) = {p}
    <3>1. <<p>> \in Seq(Row) /\ Range(<<p>>) = {p}
      BY <2>1, Single DEF Range
    <3> QED BY <3>1
  <2>6. tree \in Seq(Row) /\ p \notin Range(A)
    <3>1. p \notin Range(A)
      BY <1>3 DEF Clear, Apart
    <3> QED BY <2>1, <3>1, Split
  <2>7. e[p][tree] = l[Len(own)] /\ Turns(Start(ch, p, tree), own, ex, e, l)
    BY <1>1, <2>6, LoopTurns DEF Result
  <2>8. Start(ch, p, tree) = Around(A, v, Cat(own, Z))
    BY <2>1, <2>2, <2>5, <2>6, Inserted DEF Start, Cat
  <2>9. ASSUME NEW n \in 1 .. Len(own), own[n] \in ex
        PROVE  LET c == own[n]
               IN  /\ c \in Folders /\ c \in Row /\ Listed(ch, p) /\ Puts(c)
                   /\ Clear(A, c) /\ Clear(v, c)
                   /\ \A j \in 1 .. Len(own) : j # n => Clear(F[j], c)
    <3> DEFINE c == own[n]
    <3>1. c \in Folders /\ c \in EnumerateFiles(p) /\ Listed(ch, p) /\ Len(c) > Len(p)
      BY <2>9, ExpandedChild
    <3>2. c \in Lists /\ c \in Disk /\ c \in Row /\ IsAbove(p, c)
      BY <2>1, <3>1, ListTypes, ChildOf DEF Row
    <3>3. Puts(c)
      <4> HIDE DEF Puts, own
      <4> QED BY <1>3, <3>1, <3>2
    <3>4. ASSUME NEW d \in Range(A)
          PROVE  Apart(c, d)
      <4>1. Apart(p, d)
        BY <1>3, <3>4 DEF Clear
      <4>2. d # c
        BY <3>2, <4>1 DEF Apart
      <4>3. ASSUME d \in Disk, IsAbove(c, d)
            PROVE  FALSE
        <5>1. IsAbove(p, d)
          BY <2>1, <3>2, <4>3, AboveAbove
        <5> QED BY <4>1, <4>3, <5>1 DEF Apart
      <4> QED BY <4>2, <4>3 DEF Apart
    <3>5. Apart(c, p)
      BY <2>1, <3>1, <3>2, ApartTypes
    <3>6. ASSUME NEW j \in 1 .. Len(own), j # n
          PROVE  Clear(F[j], c)
      <4>1. own[j] \in EnumerateFiles(p) /\ own[j] # c
        BY <2>2, <3>1, <3>6
      <4>2. Clear(Block(ex, f, own[j]), c)
        BY <2>1, <3>1, <3>2, <4>1, OtherChild
      <4> QED BY <2>4, <4>2
    <3> QED BY <2>5, <3>1, <3>2, <3>3, <3>4, <3>5, <3>6 DEF Clear
  <2>10. PICK g \in [0 .. Len(F) -> Seq(Row)] :
               /\ g[0] = <<>>
               /\ \A i \in 1 .. Len(F) : g[i] = g[i - 1] \o F[i]
               /\ FlattenSeq(F) = g[Len(F)]
    BY <2>3, Flattened
  <2>11. \A k \in 0 .. Len(F) : \A d :
             d \in Range(g[k]) <=> \E j \in 1 .. k : d \in Range(F[j])
    <3> HIDE DEF F
    <3> QED BY <2>3, <2>10, FlatRange
  <2> DEFINE rest(n) == SubSeq(own, n + 1, Len(own))
             V == {n \in Nat : n <= Len(own) =>
                      l[n] = Around(A, v, Cat(g[n], Cat(rest(n), Z)))}
  <2> HIDE DEF own, tree, l, F, e, f
  <2>12. 0 \in V
    <3>1. rest(0) = own
      BY <2>2
    <3>2. Cat(own, Z) \in Seq(Row)
      BY <2>2, Regrouped
    <3>3. Cat(<<>>, Cat(own, Z)) = Cat(own, Z)
      <4>1. \A s \in Seq(Row) : Cat(<<>>, s) = s
        BY DEF Cat
      <4> QED BY <3>2, <4>1
    <3>4. l[0] = Around(A, v, Cat(own, Z))
      BY <2>7, <2>8 DEF Turns
    <3> HIDE DEF rest
    <3> QED BY <2>10, <3>1, <3>3, <3>4
  <2>13. ASSUME NEW n \in Nat, n \in V
         PROVE  n + 1 \in V
    <3>1. CASE n + 1 <= Len(own)
      <4>1. /\ n + 1 \in 1 .. Len(own) /\ n <= Len(own) /\ (n + 1) - 1 = n /\ n + 1 \in Nat
            /\ n \in 0 .. Len(own)
        BY <2>13, <3>1
      <4>2. PICK c \in Row : c = own[n + 1]
        BY <2>2, <4>1
      <4>3. PICK w \in Seq(Row) : w = <<c>>
        BY Single
      <4>4. PICK r \in Seq(Row) : r = rest(n + 1)
        <5>1. SubSeq(own, n + 1 + 1, Len(own)) \in Seq(Row)
          BY <2>2, <4>1
        <5> QED BY <5>1
      <4>5. rest(n) = Cat(w, r)
        <5>1. Len(own) \in n + 1 .. Len(own)
          BY <2>2, <4>1
        <5>2. SubSeq(own, n + 1, Len(own)) = <<own[n + 1]>> \o SubSeq(own, n + 1 + 1, Len(own))
          BY <2>2, <4>1, <5>1, SubSeqRecursiveFirst
        <5> QED BY <4>2, <4>3, <4>4, <5>2 DEF Cat
      <4>6. PICK h \in Seq(Row) : h = g[n]
        BY <2>3, <2>10, <4>1
      <4> HIDE DEF rest
      <4>7. l[n] = Around(A, v, Cat(h, Cat(Cat(w, r), Z)))
        BY <2>13, <4>1, <4>5, <4>6
      <4>8. g[n + 1] = Cat(h, F[n + 1])
        BY <2>3, <2>10, <4>1, <4>6 DEF Cat
      <4>9. l[n + 1] = IF c \in ex THEN e[c][l[n]] ELSE l[n]
        BY <2>7, <4>1, <4>2 DEF Turns
      <4>10. F[n + 1] = Block(ex, f, c)
        BY <2>4, <4>1, <4>2
      <4>11. CASE c \notin ex
        <5>1. F[n + 1] = w
          BY <4>3, <4>10, <4>11 DEF Block
        <5>2. Cat(h, Cat(Cat(w, r), Z)) = Cat(Cat(h, w), Cat(r, Z))
          <6>1. MovesOn(Row, A, v, h, w, r, Z, w)
            BY Moved
          <6> QED BY <6>1 DEF MovesOn
        <5>3. l[n + 1] = Around(A, v, Cat(g[n + 1], Cat(r, Z)))
          BY <4>7, <4>8, <4>9, <4>11, <5>1, <5>2
        <5> QED BY <4>1, <4>4, <5>3
      <4>12. CASE c \in ex
        <5>1. /\ c \in Folders /\ Puts(c) /\ Clear(A, c) /\ Clear(v, c)
              /\ \A j \in 1 .. Len(own) : j # n + 1 => Clear(F[j], c)
          BY <2>9, <4>1, <4>2, <4>12
        <5>2. PICK x \in Seq(Row) : x = f[c]
          BY <1>2, <5>1, ListTypes
        <5>3. F[n + 1] = Cat(w, x)
          BY <4>3, <4>10, <4>12, <5>2 DEF Block, Cat
        <5>4. Clear(h, c)
          <6>1. ASSUME NEW d \in Range(h)
                PROVE  Apart(c, d)
            <7>1. PICK j \in 1 .. n : d \in Range(F[j])
              BY <2>3, <2>11, <4>1, <4>6, <6>1
            <7>2. j \in 1 .. Len(own) /\ j # n + 1
              BY <4>1
            <7> QED BY <5>1, <7>1, <7>2 DEF Clear
          <6> QED BY <6>1 DEF Clear
        <5>5. PICK B \in Seq(Row) : B = Cat(A, Cat(v, h)) /\ Clear(B, c)
          <6>1. PICK vh \in Seq(Row) : vh = Cat(v, h) /\ Clear(vh, c)
            BY <5>1, <5>4, ClearJoined DEF Cat
          <6> QED BY <5>1, <6>1, ClearJoined DEF Cat
        <5>6. /\ Around(A, v, Cat(h, Cat(Cat(w, r), Z))) = Around(B, w, Cat(r, Z))
              /\ Around(B, w, Cat(x, Cat(r, Z))) = Around(A, v, Cat(Cat(h, Cat(w, x)), Cat(r, Z)))
              /\ Cat(r, Z) \in Seq(Row)
          <6>1. MovesOn(Row, A, v, h, w, r, Z, x)
            BY Moved
          <6> QED BY <5>5, <6>1, Zenon DEF MovesOn
        <5>7. e[c][Around(B, w, Cat(r, Z))] = Around(B, w, Cat(x, Cat(r, Z)))
          BY <4>3, <5>1, <5>2, <5>5, <5>6
        <5>8. l[n + 1] = Around(A, v, Cat(g[n + 1], Cat(r, Z)))
          BY <4>7, <4>8, <4>9, <4>12, <5>3, <5>6, <5>7
        <5> QED BY <4>1, <4>4, <5>8
      <4> QED BY <4>11, <4>12
    <3>2. CASE ~(n + 1 <= Len(own))
      BY <3>2
    <3> QED BY <3>1, <3>2
  <2>14. Len(own) \in V
    <3>1. Nat \subseteq V
      <4> HIDE DEF V
      <4> QED BY <2>12, <2>13, Induction
    <3> HIDE DEF V
    <3> QED BY <2>2, <3>1
  <2>15. l[Len(own)] = Around(A, v, Cat(g[Len(own)], Cat(rest(Len(own)), Z)))
    <3>1. Len(own) <= Len(own)
      BY <2>2
    <3> QED BY <2>14, <3>1
  <2>16. rest(Len(own)) = <<>> /\ Cat(<<>>, Z) = Z
    BY <2>2 DEF Cat
  <2>17. f[p] = g[Len(own)]
    BY <1>2, <2>1, <2>3, <2>10 DEF F
  <2> HIDE DEF rest
  <2>18. e[p][tree] = Around(A, v, Cat(f[p], Z))
    BY <2>7, <2>15, <2>16, <2>17
  <2> QED BY <2>5, <2>18 DEF tree
<1>4. ASSUME NEW p \in Lists, \A c \in Lists : Len(c) > Len(p) => c \in S
      PROVE  p \in S
  <2>1. p \in Folders => Puts(p)
    <3> HIDE DEF S
    <3> QED BY <1>3, <1>4
  <2> QED BY <2>1
<1>5. Lists \subseteq S
  <2> HIDE DEF S
  <2> QED BY <1>4, LevelInduction
<1> QED BY <1>5, ListTypes

\* DoExpand adds no rows but those that belong below the folder.
LEMMA ExpandedRange ==
    ASSUME NEW ch, NEW ex \in SUBSET Folders
    PROVE  \A p \in Folders : \A tree \in Seq(Row) :
               /\ DoExpand(ch, ex)[p][tree] \in Seq(Row)
               /\ Range(DoExpand(ch, ex)[p][tree])
                      \subseteq Range(tree) \cup Range(RowsBelow(ch, ex)[p])
<1> DEFINE e == DoExpand(ch, ex)
           f == RowsBelow(ch, ex)
           Adds(p) == \A tree \in Seq(Row) : Range(e[p][tree]) \subseteq Range(tree) \cup Range(f[p])
           S == {p \in Lists : p \in Folders => Adds(p)}
<1>1. /\ e \in [Folders -> Expander]
      /\ \A p \in Folders : \A tree \in Seq(Row) : e[p][tree] = Result(ch, ex, e, p, tree)
  BY DoExpandIs
<1>2. \A p \in Folders : \A tree \in Seq(Row) : e[p][tree] \in Seq(Row)
  BY <1>1 DEF Expander
<1>3. ASSUME NEW p \in Folders, \A c \in Lists : Len(c) > Len(p) => c \in S,
             NEW tree \in Seq(Row)
      PROVE  Range(e[p][tree]) \subseteq Range(tree) \cup Range(f[p])
  <2> DEFINE own == m_Children(ch, p)
             l == LoopOf(ch, ex, e, p, tree)
             V == {s \in Seq(Row) : Range(s) \subseteq Range(tree) \cup Range(f[p])}
  <2>1. p \in Lists
    BY ListTypes
  <2>2. own \in Seq(Row) /\ Len(own) \in Nat /\ DOMAIN own = 1 .. Len(own)
    BY <2>1, ChildList
  <2>3. e[p][tree] = l[Len(own)] /\ Turns(Start(ch, p, tree), own, ex, e, l)
    BY <1>1, LoopTurns DEF Result
  <2>4. \A i \in 1 .. Len(own) :
            /\ own[i] \in Range(f[p])
            /\ own[i] \in ex => Range(f[own[i]]) \subseteq Range(f[p])
    BY <2>1, RowsIn
  <2>5. Start(ch, p, tree) \in V
    <3>1. Range(own) \subseteq Range(f[p])
      BY <2>2, <2>4 DEF Range
    <3> QED BY <2>2, <3>1, InsertedTypes DEF Start
  <2>6. ASSUME NEW n \in 1 .. Len(own), own[n] \in ex, NEW s \in V
        PROVE  e[own[n]][s] \in V
    <3>1. own[n] \in Folders /\ own[n] \in Lists /\ Len(own[n]) > Len(p)
      BY <2>6, ExpandedChild, ListTypes
    <3>2. Adds(own[n])
      <4> HIDE DEF Adds
      <4> QED BY <1>3, <3>1
    <3> QED BY <1>2, <2>4, <2>6, <3>1, <3>2
  <2> HIDE DEF V, own, l
  <2>7. \A n \in 0 .. Len(own) : l[n] \in V
    BY <2>2, <2>3, <2>5, <2>6, LoopTypes
  <2>8. Len(own) \in 0 .. Len(own)
    BY <2>2
  <2>9. e[p][tree] \in V
    BY <2>3, <2>7, <2>8
  <2> QED BY <2>9 DEF V
<1>4. ASSUME NEW p \in Lists, \A c \in Lists : Len(c) > Len(p) => c \in S
      PROVE  p \in S
  <2>1. p \in Folders => Adds(p)
    <3> HIDE DEF S
    <3> QED BY <1>3, <1>4
  <2> QED BY <2>1
<1>5. Lists \subseteq S
  <2> HIDE DEF S
  <2> QED BY <1>4, LevelInduction
<1> QED BY <1>2, <1>5, ListTypes

-----------------------------------------------------------------------------
(* Types, and how far the folders have come *)

Basic == TypeOK /\ Grows /\ ChildrenBegun /\ MiscountedAbove

LEMMA FolderTypes ==
    ASSUME NEW p \in Folders
    PROVE  /\ p \in Lists /\ p \in Disk /\ p \in Row /\ p # Loading /\ p # <<>>
           /\ Len(p) \in Nat /\ Len(p) > 0
           /\ Above(p) \subseteq Folders /\ p \notin Above(p)
           /\ \A q \in Above(p) : Len(q) < Len(p) /\ IsAbove(q, p) /\ Above(q) \subseteq Above(p)
           /\ Cardinality(EnumerateFiles(p)) \in Nat
<1>1. /\ p \in Lists /\ p \in Disk /\ p \in Row /\ p # Loading /\ p # <<>>
      /\ Len(p) \in Nat /\ Len(p) > 0
  BY ListTypes, LoadingAssumption DEF Row
<1>2. \A q \in Above(p) : q \in Folders /\ IsAbove(q, p) /\ Len(q) < Len(p)
  BY DEF Above, IsAbove
<1>3. p \notin Above(p)
  BY <1>1, <1>2
<1>4. ASSUME NEW q \in Above(p), NEW r \in Above(q)
      PROVE  r \in Above(p)
  <2>1. r \in Folders /\ r \in Lists /\ IsAbove(r, q) /\ q \in Lists /\ IsAbove(q, p)
    BY <1>2, <1>4, ListTypes DEF Above
  <2>2. IsAbove(r, p)
    BY <1>1, <2>1, AboveAbove
  <2> QED BY <2>1, <2>2 DEF Above
<1>5. Cardinality(EnumerateFiles(p)) \in Nat
  <2>1. EnumerateFiles(p) \subseteq Disk
    BY DEF EnumerateFiles
  <2> QED BY <2>1, FiniteDiskAssumption, FS_Subset, FS_CardinalityType
<1> QED BY <1>1, <1>2, <1>3, <1>4, <1>5

\* What is above a child is its folder, or above that.
LEMMA ChildAbove ==
    ASSUME NEW p \in Folders, NEW c \in EnumerateFiles(p), c \in Folders
    PROVE  /\ p \in Above(c) /\ Len(c) > 1 /\ c # p /\ c \notin Above(p)
           /\ \A q \in Above(c) : q = p \/ q \in Above(p)
<1>1. p \in Lists /\ c \in Disk /\ IsAbove(p, c) /\ Len(c) = Len(p) + 1 /\ Len(p) \in Nat /\ Len(p) > 0
  BY FolderTypes, ChildOf
<1>2. ASSUME NEW q \in Above(c)
      PROVE  q = p \/ q \in Above(p)
  <2>1. q \in Folders /\ q \in Lists /\ IsAbove(q, c) /\ Len(q) < Len(c) /\ Len(q) \in Nat
    BY <1>2, ListTypes DEF Above, IsAbove
  <2>2. Len(q) < Len(p) \/ Len(q) = Len(p)
    BY <1>1, <2>1
  <2> QED BY <1>1, <2>1, <2>2, AboveAbove DEF Above
<1>3. c # p /\ c \notin Above(p)
  BY <1>1, FolderTypes
<1> QED BY <1>1, <1>2, <1>3 DEF Above

\* The rows below a folder were asked for their children, if those of expanded
\* folders were.
LEMMA RowsBegun ==
    ASSUME NEW ch, NEW ex \in SUBSET Folders, NEW p \in Folders,
           HasArrived(ch, p) => \A c \in EnumerateFiles(p) \cap Folders : ch[c] # "null",
           \A r \in ex : HasArrived(ch, r) /\ Len(r) > 1 =>
               \A c \in EnumerateFiles(r) \cap Folders : ch[c] # "null"
    PROVE  \A d \in Range(RowsBelow(ch, ex)[p]) \cap Folders : ch[d] # "null"
<1>1. TAKE d \in Range(RowsBelow(ch, ex)[p]) \cap Folders
<1>2. d \in Disk /\ Shown(ch, ex, p, d) /\ IsAbove(p, d) /\ Listed(ch, p)
  BY FolderTypes, RowsAreShown DEF Shown
<1>3. Len(p) \in Nat /\ Len(p) > 0 /\ Len(d) \in Nat /\ Len(p) < Len(d) /\ d \in Seq(Component)
  BY <1>2, FolderTypes, PathTypes DEF IsAbove
<1> DEFINE r == SubSeq(d, 1, Len(d) - 1)
<1>4. r \in Folders /\ Len(r) = Len(d) - 1
  <2>1. Len(d) - 1 \in 1 .. Len(d) - 1 /\ Len(d) - 1 \in 0 .. Len(d) /\ 0 \in 0 .. Len(d) - 1
    BY <1>3
  <2> QED BY <1>2, <1>3, <2>1, PrefixIsFolder, PrefixOfPrefix
<1>5. d \in EnumerateFiles(r)
  <2>1. Len(d) = Len(r) + 1
    BY <1>3, <1>4
  <2> QED BY <1>2, <2>1 DEF EnumerateFiles, RemoveLastPathComponent
<1> HIDE DEF r
<1>6. r \in Lists /\ p \in Lists /\ IsAbove(r, d)
  BY <1>4, <1>5, FolderTypes, ChildOf
<1>7. CASE Len(r) = Len(p)
  <2>1. r = p
    BY <1>2, <1>6, <1>7, AboveAbove
  <2>2. HasArrived(ch, p)
    BY <1>2, FolderTypes DEF Listed
  <2> QED BY <1>5, <2>1, <2>2
<1>8. CASE Len(r) # Len(p)
  <2>1. Len(p) < Len(r) /\ Len(r) > 1
    BY <1>3, <1>4, <1>8
  <2>2. IsAbove(p, r)
    BY <1>2, <1>6, <2>1, AboveAbove
  <2>3. r \in ex /\ Listed(ch, r)
    BY <1>2, <1>4, <1>6, <2>2 DEF Shown
  <2>4. HasArrived(ch, r)
    BY <1>4, <2>3, FolderTypes DEF Listed
  <2> QED BY <1>5, <2>1, <2>3, <2>4
<1> QED BY <1>7, <1>8

\* When begun folders were asked for their children.
Asked(ch, begun) == [q \in Folders |-> IF q \in begun THEN "loading" ELSE ch[q]]

LEMMA AskedTypes ==
    ASSUME NEW ch \in [Folders -> {"null", "loading", "assigned", "tested", "loaded"}],
           NEW begun \in SUBSET Folders, \A c \in begun : ch[c] = "null"
    PROVE  /\ Asked(ch, begun) \in [Folders -> {"null", "loading", "assigned", "tested", "loaded"}]
           /\ \A q \in Folders :
                  /\ ch[q] # "null" => Asked(ch, begun)[q] = ch[q]
                  /\ q \in begun => Asked(ch, begun)[q] = "loading"
                  /\ q \notin begun => Asked(ch, begun)[q] = ch[q]
                  /\ HasArrived(Asked(ch, begun), q) <=> HasArrived(ch, q)
BY DEF Asked, HasArrived

LEMMA BegunTypes ==
    ASSUME NEW p
    PROVE  /\ Begun(p) \subseteq EnumerateFiles(p) \cap Folders
           /\ \A c \in Begun(p) : children[c] = "null"
           /\ \A c \in EnumerateFiles(p) \cap Folders : c \in Begun(p) \/ children[c] # "null"
BY DEF Begun

LEMMA CountTypes ==
    ASSUME NEW counts \in [Folders -> Int], NEW p, NEW n \in Int, NEW begun
    PROVE  /\ AddToExpandedChildrenCount(counts, p, n) \in [Folders -> Int]
           /\ Begin(begun, counts) \in [Folders -> Int]
BY DEF AddToExpandedChildrenCount, Begin

LEMMA InitBasic ==
    ASSUME Init
    PROVE  Basic
<1> USE DEF Init
<1>1. rows \in Seq(Row)
  BY ListTypes, ChildList
<1>2. ASSUME NEW p \in Range(rows) \cap Folders
      PROVE  children[p] # "null"
  <2>1. DOMAIN rows = 1 .. Len(rows)
    BY <1>1
  <2>2. PICK i \in 1 .. Len(rows) : p = rows[i]
    BY <1>2, <2>1 DEF Range
  <2>3. p \in EnumerateFiles(<<>>)
    BY <2>2, ListTypes, ChildList DEF Listed
  <2>4. Len(p) = 1 /\ p \in Disk
    <3>1. <<>> \in Lists /\ Len(<<>>) = 0
      BY ListTypes
    <3>2. p \in Disk /\ Len(p) = Len(<<>>) + 1
      BY <2>3, <3>1, ChildOf
    <3> QED BY <3>1, <3>2
  <2> QED BY <1>2, <2>4 DEF Volumes
<1>3. TypeOK
  BY <1>1, <1>2 DEF TypeOK
<1>4. Grows
  <2>1. ASSUME NEW p \in Folders, children[p] # "null", NEW q \in Above(p)
        PROVE  FALSE
    <3>1. Len(p) = 1
      BY <2>1 DEF Volumes
    <3>2. Len(q) < Len(p) /\ q \in Folders
      BY FolderTypes
    <3> QED BY <3>1, <3>2, FolderTypes
  <2> QED BY <2>1 DEF Grows
<1> QED BY <1>3, <1>4 DEF Basic, ChildrenBegun, MiscountedAbove

LEMMA ExpandBasic ==
    ASSUME Basic, NEW p \in Folders, Expand(p)
    PROVE  Basic'
<1> DEFINE begun == IF HasArrived(children, p) THEN Begun(p) ELSE {}
<1>1. /\ children \in [Folders -> {"null", "loading", "assigned", "tested", "loaded"}]
      /\ m_IsExpanded \subseteq Folders /\ m_ExpandedChildrenCount \in [Folders -> Int]
      /\ rows \in Seq(Row) /\ \A q \in Range(rows) \cap Folders : children[q] # "null"
  BY DEF Basic, TypeOK
<1>2. /\ begun \subseteq EnumerateFiles(p) \cap Folders
      /\ \A c \in begun : children[c] = "null" /\ HasArrived(children, p)
      /\ HasArrived(children, p) =>
             \A c \in EnumerateFiles(p) \cap Folders : c \in begun \/ children[c] # "null"
  BY BegunTypes
<1>3. children' = Asked(children, begun) /\ m_IsExpanded' = m_IsExpanded \cup {p}
  BY DEF Expand, Asked
<1>4. /\ m_ExpandedChildrenCount' =
             AddToExpandedChildrenCount(Begin(begun, m_ExpandedChildrenCount), p,
                                        m_ExpandedChildrenCount[p])
      /\ rows' = DoExpand(children', m_IsExpanded')[p][rows]
      /\ failure' = failure /\ miscounted' = miscounted
      /\ disturbed' = disturbed \cup (IF children[p] # "loaded" THEN {"hasty"} ELSE {})
                                \cup (IF Races(p) THEN {"raced"} ELSE {})
  BY DEF Expand
<1>5. children[p] # "null"
  BY <1>1 DEF Expand
<1> HIDE DEF begun
<1>6. /\ children' \in [Folders -> {"null", "loading", "assigned", "tested", "loaded"}]
      /\ \A q \in Folders :
             /\ children[q] # "null" => children'[q] = children[q]
             /\ q \in begun => children'[q] = "loading"
             /\ q \notin begun => children'[q] = children[q]
             /\ HasArrived(children', q) <=> HasArrived(children, q)
  <2>1. begun \in SUBSET Folders /\ \A c \in begun : children[c] = "null"
    BY <1>2
  <2> QED BY <1>1, <1>3, <2>1, AskedTypes
<1>7. m_ExpandedChildrenCount' \in [Folders -> Int]
  BY <1>1, <1>4, CountTypes
<1>8. ChildrenBegun'
  <2>1. ASSUME NEW r \in m_IsExpanded', HasArrived(children', r), Len(r) > 1,
               NEW c \in EnumerateFiles(r) \cap Folders
        PROVE  children'[c] # "null"
    <3>1. r \in Folders /\ HasArrived(children, r)
      BY <1>1, <1>3, <1>6, <2>1
    <3>2. c \in begun \/ children[c] # "null"
      BY <1>2, <1>3, <2>1, <3>1 DEF Basic, ChildrenBegun
    <3> QED BY <1>6, <3>2
  <2> QED BY <2>1 DEF ChildrenBegun
<1>9. rows' \in Seq(Row) /\ \A q \in Range(rows') \cap Folders : children'[q] # "null"
  <2>1. m_IsExpanded' \in SUBSET Folders
    BY <1>1, <1>3
  <2>2. /\ rows' \in Seq(Row)
        /\ Range(rows') \subseteq Range(rows) \cup Range(RowsBelow(children', m_IsExpanded')[p])
    BY <1>1, <1>4, <2>1, ExpandedRange
  <2>3. HasArrived(children', p) => \A c \in EnumerateFiles(p) \cap Folders : children'[c] # "null"
    BY <1>2, <1>6
  <2>4. \A r \in m_IsExpanded' : HasArrived(children', r) /\ Len(r) > 1 =>
            \A c \in EnumerateFiles(r) \cap Folders : children'[c] # "null"
    BY <1>8 DEF ChildrenBegun
  <2>5. \A q \in Range(RowsBelow(children', m_IsExpanded')[p]) \cap Folders : children'[q] # "null"
    BY <2>1, <2>3, <2>4, RowsBegun
  <2> QED BY <1>1, <1>6, <2>2, <2>5
<1>10. TypeOK'
  BY <1>1, <1>3, <1>4, <1>6, <1>7, <1>9 DEF Basic, TypeOK
<1>11. Grows'
  <2>1. ASSUME NEW q \in Folders, children'[q] # "null", NEW r \in Above(q)
        PROVE  HasArrived(children', r)
    <3>1. r \in Folders
      BY FolderTypes
    <3>2. CASE q \in begun
      <4>1. r = p \/ r \in Above(p)
        BY <1>2, <2>1, <3>2, ChildAbove
      <4> QED BY <1>2, <1>5, <1>6, <3>1, <3>2, <4>1 DEF Basic, Grows
    <3>3. CASE q \notin begun
      BY <1>6, <2>1, <3>1, <3>3 DEF Basic, Grows
    <3> QED BY <3>2, <3>3
  <2>2. ASSUME NEW q \in Folders
        PROVE  /\ q \in m_IsExpanded' => children'[q] # "null"
               /\ children'[q] \in {"assigned", "tested"} => Len(q) = 1
    BY <1>3, <1>5, <1>6 DEF Basic, Grows
  <2> QED BY <2>1, <2>2 DEF Grows, Above
<1>12. MiscountedAbove'
  <2>1. \A q \in miscounted : q \in Folders
    BY DEF Basic, TypeOK
  <2> QED BY <1>4, <1>6, <2>1 DEF Basic, MiscountedAbove, Above
<1> QED BY <1>8, <1>10, <1>11, <1>12 DEF Basic

LEMMA CollapseBasic ==
    ASSUME Basic, NEW p \in Folders, Collapse(p)
    PROVE  Basic'
<1>1. /\ m_IsExpanded' = m_IsExpanded \ {p} /\ children' = children /\ miscounted' = miscounted
      /\ rows' = RemoveRows(rows, p) /\ failure' \in {failure, "range"}
      /\ m_ExpandedChildrenCount' \in
             {m_ExpandedChildrenCount,
              AddToExpandedChildrenCount(m_ExpandedChildrenCount, p, -m_ExpandedChildrenCount[p])}
      /\ disturbed' = disturbed \cup (IF p \in miscounted THEN {"miscounted"} ELSE {})
                                \cup (IF Races(p) THEN {"raced"} ELSE {})
  BY DEF Collapse
<1>2. /\ rows \in Seq(Row) /\ m_ExpandedChildrenCount \in [Folders -> Int]
      /\ m_IsExpanded \subseteq Folders
  BY DEF Basic, TypeOK
<1>3. rows' \in Seq(Row) /\ Range(rows') \subseteq Range(rows)
  BY <1>1, <1>2, RemovedTypes
<1>4. m_ExpandedChildrenCount' \in [Folders -> Int]
  <2>1. m_ExpandedChildrenCount[p] \in Int /\ -m_ExpandedChildrenCount[p] \in Int
    BY <1>2
  <2> QED BY <1>1, <1>2, <2>1, CountTypes
<1>5. TypeOK'
  BY <1>1, <1>3, <1>4 DEF Basic, TypeOK
<1> QED BY <1>1, <1>2, <1>5 DEF Basic, Grows, ChildrenBegun, MiscountedAbove, Above

\* The steps in which one folder's children come one step further.
LEMMA OneArrives ==
    ASSUME Basic, NEW p \in Folders, NEW to \in {"assigned", "tested", "loaded"},
           children[p] # "null", to # "loaded" => Len(p) = 1,
           p \in m_IsExpanded => Len(p) = 1,
           children' = [children EXCEPT ![p] = to], rows' = rows,
           m_IsExpanded' = m_IsExpanded, miscounted' = miscounted,
           m_ExpandedChildrenCount' \in [Folders -> Int],
           failure' \in {"none", "range", "thread"}, disturbed' \subseteq disturbed \cup {"raced"}
    PROVE  Basic'
<1>1. /\ children \in [Folders -> {"null", "loading", "assigned", "tested", "loaded"}]
      /\ m_IsExpanded \subseteq Folders /\ miscounted \subseteq Folders
  BY DEF Basic, TypeOK
<1>2. /\ children' \in [Folders -> {"null", "loading", "assigned", "tested", "loaded"}]
      /\ children'[p] = to
      /\ \A q \in Folders : /\ q # p => children'[q] = children[q]
                            /\ children'[q] # "null" <=> children[q] # "null"
                            /\ HasArrived(children, q) => HasArrived(children', q)
                            /\ q # p => (HasArrived(children', q) <=> HasArrived(children, q))
  BY <1>1 DEF HasArrived
<1>3. TypeOK'
  BY <1>2 DEF Basic, TypeOK
<1>4. Grows'
  <2>1. ASSUME NEW q \in Folders, children'[q] # "null", NEW r \in Above(q)
        PROVE  HasArrived(children', r)
    BY <1>2, <2>1, FolderTypes DEF Basic, Grows
  <2>2. ASSUME NEW q \in Folders
        PROVE  /\ q \in m_IsExpanded' => children'[q] # "null"
               /\ children'[q] \in {"assigned", "tested"} => Len(q) = 1
    <3>1. CASE q = p
      BY <1>2, <3>1
    <3>2. CASE q # p
      BY <1>2, <3>2 DEF Basic, Grows
    <3> QED BY <1>2, <3>1, <3>2 DEF Basic, Grows
  <2> QED BY <2>1, <2>2 DEF Grows, Above
<1>5. ChildrenBegun'
  <2>1. ASSUME NEW r \in m_IsExpanded', HasArrived(children', r), Len(r) > 1,
               NEW c \in EnumerateFiles(r) \cap Folders
        PROVE  children'[c] # "null"
    <3>1. r \in Folders /\ r # p
      <4>1. r \in m_IsExpanded
        BY <2>1
      <4>2. CASE r = p
        <5>1. p \in m_IsExpanded
          BY <4>1, <4>2
        <5>2. Len(p) = 1
          BY <5>1
        <5>3. Len(p) > 1
          BY <2>1, <4>2
        <5> QED BY <5>2, <5>3
      <4> QED BY <1>1, <4>1, <4>2
    <3>2. children[c] # "null"
      BY <1>2, <2>1, <3>1 DEF Basic, ChildrenBegun
    <3> QED BY <1>2, <3>2
  <2> QED BY <2>1 DEF ChildrenBegun
<1>6. MiscountedAbove'
  BY <1>1, <1>2 DEF Basic, MiscountedAbove, Above
<1> QED BY <1>3, <1>4, <1>5, <1>6 DEF Basic

LEMMA ArriveCollapsedBasic ==
    ASSUME Basic, NEW p \in Folders,
           ArriveCollapsed(p) \/ AssignInVolume(p) \/ CountInVolume(p)
    PROVE  Basic'
<1>1. /\ m_ExpandedChildrenCount \in [Folders -> Int]
      /\ failure \in {"none", "range", "thread"}
      /\ Cardinality(EnumerateFiles(p)) \in Int
  BY FolderTypes DEF Basic, TypeOK
<1>2. CASE ArriveCollapsed(p)
  BY <1>1, <1>2, OneArrives DEF ArriveCollapsed
<1>3. CASE AssignInVolume(p)
  BY <1>1, <1>3, OneArrives DEF AssignInVolume
<1>4. CASE CountInVolume(p)
  <2>1. Len(p) = 1
    BY <1>4 DEF CountInVolume, Basic, Grows
  <2> QED BY <1>1, <1>4, <2>1, OneArrives DEF CountInVolume
<1> QED BY <1>2, <1>3, <1>4

LEMMA TestInVolumeBasic ==
    ASSUME Basic, NEW p \in Folders, TestInVolume(p)
    PROVE  Basic'
<1>1. Len(p) = 1 /\ children[p] = "assigned"
  BY DEF TestInVolume, Basic, Grows
<1>2. CASE p \in m_IsExpanded
  BY <1>2 DEF TestInVolume, Basic, TypeOK, Grows, ChildrenBegun, MiscountedAbove, Above
<1>3. CASE p \notin m_IsExpanded
  <2>1. /\ m_ExpandedChildrenCount \in [Folders -> Int]
        /\ failure \in {"none", "range", "thread"}
    BY DEF Basic, TypeOK
  <2> QED BY <1>1, <1>3, <2>1, OneArrives DEF TestInVolume
<1> QED BY <1>2, <1>3

LEMMA ArriveExpandedBasic ==
    ASSUME Basic, NEW p \in Folders, ArriveExpanded(p)
    PROVE  Basic'
<1> DEFINE size == Cardinality(EnumerateFiles(p))
           removed == m_ExpandedChildrenCount[p]
           counts == AddToExpandedChildrenCount(
                         [m_ExpandedChildrenCount EXCEPT ![p] = size],
                         p, -removed + (size - removed) + size)
           begun == Begun(p)
           known == [q \in Folders |-> IF q = p THEN "loaded" ELSE children[q]]
<1>1. /\ children \in [Folders -> {"null", "loading", "assigned", "tested", "loaded"}]
      /\ m_IsExpanded \subseteq Folders /\ m_ExpandedChildrenCount \in [Folders -> Int]
      /\ rows \in Seq(Row) /\ \A q \in Range(rows) \cap Folders : children[q] # "null"
      /\ miscounted \subseteq Folders /\ failure \in {"none", "range", "thread"}
  BY DEF Basic, TypeOK
<1>2. /\ children[p] = "loading" /\ Len(p) > 1 /\ p \in m_IsExpanded
      /\ miscounted' \in {miscounted, miscounted \cup Above(p)}
      /\ disturbed' \subseteq disturbed \cup {"hidden"}
      /\ m_IsExpanded' = m_IsExpanded
  BY DEF ArriveExpanded
<1>3. /\ begun \subseteq EnumerateFiles(p) \cap Folders
      /\ \A c \in begun : children[c] = "null"
      /\ \A c \in EnumerateFiles(p) \cap Folders : c \in begun \/ children[c] # "null"
  BY BegunTypes
<1>4. disturbed' \subseteq {"hasty", "raced", "miscounted", "hidden"} /\ miscounted' \subseteq Folders
  BY <1>1, <1>2, FolderTypes DEF Basic, TypeOK
<1>5. MiscountedAbove'
  <2>1. ASSUME NEW q \in miscounted'
        PROVE  HasArrived(children, q) /\ Above(q) \subseteq miscounted'
    <3>1. CASE q \in miscounted
      BY <1>2, <3>1 DEF Basic, MiscountedAbove
    <3>2. CASE q \in Above(p) /\ miscounted' = miscounted \cup Above(p)
      <4>1. HasArrived(children, q)
        BY <1>2, <3>2 DEF Basic, Grows
      <4>2. Above(q) \subseteq Above(p)
        BY <3>2, FolderTypes
      <4> QED BY <3>2, <4>1, <4>2
    <3> QED BY <1>2, <2>1, <3>1, <3>2
  <2>2. ASSUME NEW q \in Folders, HasArrived(children, q)
        PROVE  HasArrived(children', q)
    <3>1. children[q] # "null" /\ children[q] # "loading"
      BY <2>2 DEF HasArrived
    <3>2. children'[q] = children[q] \/ children'[q] = "loaded"
      <4>1. q \notin begun
        BY <1>3, <3>1
      <4> QED BY <4>1 DEF ArriveExpanded
    <3> QED BY <2>2, <3>2 DEF HasArrived
  <2> QED BY <1>4, <2>1, <2>2 DEF MiscountedAbove, Above
<1>6. CASE RemovesTooMany(p)
  <2>1. /\ failure' = "range" /\ rows' = RemoveRows(rows, p) /\ children' = children
        /\ m_ExpandedChildrenCount' = m_ExpandedChildrenCount
    BY <1>6 DEF ArriveExpanded
  <2>2. rows' \in Seq(Row) /\ Range(rows') \subseteq Range(rows)
    BY <1>1, <2>1, RemovedTypes
  <2>3. TypeOK'
    BY <1>1, <1>2, <1>4, <2>1, <2>2 DEF TypeOK
  <2> QED BY <1>2, <1>5, <2>1, <2>3 DEF Basic, Grows, ChildrenBegun, Above
<1>7. CASE ~RemovesTooMany(p)
  <2>1. /\ children' = [q \in Folders |-> IF q = p THEN "loaded"
                                         ELSE IF q \in begun THEN "loading"
                                         ELSE children[q]]
        /\ m_ExpandedChildrenCount' = Begin(begun, counts)
        /\ rows' = DoExpand(children', m_IsExpanded)[p][RemoveRows(rows, p)]
        /\ failure' = failure
    BY <1>7 DEF ArriveExpanded
  <2> HIDE DEF begun
  <2>2. /\ children' \in [Folders -> {"null", "loading", "assigned", "tested", "loaded"}]
        /\ children'[p] = "loaded"
        /\ \A q \in Folders : /\ q # p /\ children[q] # "null" => children'[q] = children[q]
                              /\ q # p /\ q \notin begun => children'[q] = children[q]
                              /\ q # p /\ q \in begun => children'[q] = "loading"
    BY <1>1, <1>3, <2>1
  <2>3. /\ \A q \in Folders : /\ children[q] # "null" => children'[q] # "null"
                              /\ HasArrived(children, q) => HasArrived(children', q)
                              /\ q # p => (HasArrived(children', q) <=> HasArrived(children, q))
    BY <1>2, <1>3, <2>2 DEF HasArrived
  <2>4. m_ExpandedChildrenCount' \in [Folders -> Int]
    <3>1. size \in Int /\ removed \in Int
      BY <1>1, FolderTypes
    <3>2. [m_ExpandedChildrenCount EXCEPT ![p] = size] \in [Folders -> Int]
      BY <1>1, <3>1
    <3>3. -removed + (size - removed) + size \in Int
      BY <3>1
    <3> HIDE DEF size, removed
    <3> QED BY <2>1, <3>2, <3>3, CountTypes
  <2>5. ChildrenBegun'
    <3>1. ASSUME NEW r \in m_IsExpanded', HasArrived(children', r), Len(r) > 1,
                 NEW c \in EnumerateFiles(r) \cap Folders
          PROVE  children'[c] # "null"
      <4>1. CASE r = p
        <5>1. c # p
          BY <3>1, <4>1, ChildAbove
        <5> QED BY <1>3, <2>2, <2>3, <3>1, <4>1, <5>1
      <4>2. CASE r # p
        <5>1. children[c] # "null"
          BY <1>1, <1>2, <2>3, <3>1, <4>2 DEF Basic, ChildrenBegun
        <5> QED BY <2>3, <5>1
      <4> QED BY <4>1, <4>2
    <3> QED BY <3>1 DEF ChildrenBegun
  <2>6. rows' \in Seq(Row) /\ \A q \in Range(rows') \cap Folders : children'[q] # "null"
    <3>1. PICK tree \in Seq(Row) : tree = RemoveRows(rows, p) /\ Range(tree) \subseteq Range(rows)
      BY <1>1, RemovedTypes
    <3>2. /\ rows' \in Seq(Row)
          /\ Range(rows') \subseteq Range(tree) \cup Range(RowsBelow(children', m_IsExpanded)[p])
      <4>1. m_IsExpanded \in SUBSET Folders
        BY <1>1
      <4> QED BY <2>1, <3>1, <4>1, ExpandedRange
    <3>3. \A r \in m_IsExpanded : HasArrived(children', r) /\ Len(r) > 1 =>
              \A c \in EnumerateFiles(r) \cap Folders : children'[c] # "null"
      BY <1>2, <2>5 DEF ChildrenBegun
    <3>4. \A q \in Range(RowsBelow(children', m_IsExpanded)[p]) \cap Folders : children'[q] # "null"
      <4>1. HasArrived(children', p) =>
                \A c \in EnumerateFiles(p) \cap Folders : children'[c] # "null"
        BY <1>2, <3>3
      <4>2. m_IsExpanded \in SUBSET Folders
        BY <1>1
      <4> QED BY <3>3, <4>1, <4>2, RowsBegun
    <3> QED BY <1>1, <2>3, <3>1, <3>2, <3>4
  <2>7. TypeOK'
    BY <1>1, <1>2, <1>4, <2>1, <2>2, <2>4, <2>6 DEF TypeOK
  <2>8. Grows'
    <3>1. ASSUME NEW q \in Folders, children'[q] # "null", NEW r \in Above(q)
          PROVE  HasArrived(children', r)
      <4>1. r \in Folders
        BY FolderTypes
      <4>2. CASE q \in begun
        <5>1. r = p \/ r \in Above(p)
          BY <1>3, <3>1, <4>2, ChildAbove
        <5>2. HasArrived(children', p)
          BY <2>2 DEF HasArrived
        <5>3. r \in Above(p) => HasArrived(children, r)
          BY <1>2 DEF Basic, Grows
        <5> QED BY <2>3, <4>1, <5>1, <5>2, <5>3
      <4>3. CASE q \notin begun
        <5>1. children[q] # "null"
          BY <1>2, <2>2, <3>1, <4>3
        <5> QED BY <2>3, <4>1, <5>1 DEF Basic, Grows
      <4> QED BY <4>2, <4>3
    <3>2. ASSUME NEW q \in Folders
          PROVE  /\ q \in m_IsExpanded' => children'[q] # "null"
                 /\ children'[q] \in {"assigned", "tested"} => Len(q) = 1
      <4>1. q \in m_IsExpanded' => children'[q] # "null"
        BY <1>2, <2>3 DEF Basic, Grows
      <4>2. children'[q] \in {"assigned", "tested"} => children[q] = children'[q]
        BY <2>2
      <4> QED BY <4>1, <4>2 DEF Basic, Grows
    <3> QED BY <3>1, <3>2 DEF Grows, Above
  <2> QED BY <1>5, <2>5, <2>7, <2>8 DEF Basic
<1> QED BY <1>6, <1>7

LEMMA NextBasic == Basic /\ [Next]_vars => Basic'
<1> SUFFICES ASSUME Basic, [Next]_vars
             PROVE  Basic'
  OBVIOUS
<1>1. CASE UNCHANGED vars
  BY <1>1 DEF vars, Basic, TypeOK, Grows, ChildrenBegun, MiscountedAbove, Above, HasArrived
<1>2. CASE Next
  <2>1. PICK p \in Folders :
            \/ Expand(p) \/ Collapse(p) \/ ArriveCollapsed(p) \/ ArriveExpanded(p)
            \/ AssignInVolume(p) \/ TestInVolume(p) \/ CountInVolume(p)
    BY <1>2 DEF Next
  <2> QED BY <2>1, ExpandBasic, CollapseBasic, ArriveCollapsedBasic, ArriveExpandedBasic,
             TestInVolumeBasic
<1> QED BY <1>1, <1>2

-----------------------------------------------------------------------------
(* What one step changes *)

LEMMA HoldsLength ==
    ASSUME NEW X \in Seq(Row), NEW Y \in Seq(Row), NEW a, NEW b, NEW p, Holds(a, X, b, Y, p)
    PROVE  /\ Len(a) \in Nat /\ Len(b) \in Nat /\ Len(X) \in Nat /\ Len(Y) \in Nat
           /\ Len(b) + Len(X) = Len(a) + Len(Y)
<1>1. PICK A \in Seq(Row), B \in Seq(Row) : a = Around(A, X, B) /\ b = Around(A, Y, B)
  BY DEF Holds
<1>2. ASSUME NEW s \in Seq(Row)
      PROVE  /\ Len(Around(A, s, B)) = Len(A) + (Len(s) + Len(B))
             /\ Len(A) \in Nat /\ Len(s) \in Nat /\ Len(B) \in Nat
  <2>1. PICK t \in Seq(Row) : t = s \o B /\ Len(t) = Len(s) + Len(B)
    <3>1. s \o B \in Seq(Row) /\ Len(s \o B) = Len(s) + Len(B)
      BY Joined
    <3> QED BY <3>1
  <2>2. Len(A \o t) = Len(A) + Len(t)
    BY <2>1, Joined
  <2>3. Around(A, s, B) = A \o t
    BY <2>1, Zenon DEF Around, Cat
  <2> QED BY <2>1, <2>2, <2>3, Joined
<1> QED BY <1>1, <1>2

LEMMA ChildrenSame ==
    ASSUME NEW ch, NEW ch2, NEW r, r # <<>> => ch2[r] = ch[r]
    PROVE  m_Children(ch2, r) = m_Children(ch, r)
BY DEF m_Children, HasArrived

\* All folders but p are expanded as they were, and then have the children that
\* they had.
SameBut(ch, ex, ch2, ex2, p) ==
    \A r \in Folders : r # p => /\ r \in ex <=> r \in ex2
                                /\ r \in ex => m_Children(ch2, r) = m_Children(ch, r)

\* The rows below a list change with p only if p is expanded and has a row there.
LEMMA KeptElsewhere ==
    ASSUME NEW ch, NEW ex \in SUBSET Folders, NEW ch2, NEW ex2 \in SUBSET Folders,
           NEW p, NEW q \in Lists, m_Children(ch2, q) = m_Children(ch, q),
           SameBut(ch, ex, ch2, ex2, p),
           Shown(ch, ex, q, p) => p \notin ex /\ p \notin ex2
    PROVE  RowsBelow(ch2, ex2)[q] = RowsBelow(ch, ex)[q]
<1>1. Untouched(ch, ex, ch2, ex2, q)
  BY DEF Untouched, SameBut
<1> QED BY <1>1, RowsKept

\* What is shown in the list: all above it is expanded and arrived.
LEMMA ShownInTree ==
    ASSUME NEW ch, NEW ex \in SUBSET Folders, NEW p \in Folders,
           p \in Range(RowsBelow(ch, ex)[<<>>])
    PROVE  /\ Shown(ch, ex, <<>>, p)
           /\ \A q \in Above(p) : q \in ex /\ HasArrived(ch, q) /\ Shown(ch, ex, q, p)
<1>1. Shown(ch, ex, <<>>, p)
  BY FolderTypes, ListTypes, RowsAreShown
<1>2. ASSUME NEW q \in Above(p)
      PROVE  q \in ex /\ HasArrived(ch, q) /\ Shown(ch, ex, q, p)
  <2>1. q \in Folders /\ q \in Lists /\ IsAbove(q, p) /\ q # <<>>
    BY <1>2, FolderTypes
  <2>2. IsAbove(<<>>, q)
    <3>1. /\ <<>> \in Lists /\ Len(<<>>) = 0 /\ Len(q) \in Nat /\ Len(q) > 0
      BY <2>1, FolderTypes, ListTypes
    <3>2. SubSeq(q, 1, Len(<<>>)) = <<>>
      BY <3>1
    <3> QED BY <3>1, <3>2 DEF IsAbove
  <2>3. q \in ex /\ HasArrived(ch, q)
    BY <1>1, <2>1, <2>2 DEF Shown, Listed
  <2>4. ASSUME NEW r \in Folders, IsAbove(q, r), IsAbove(r, p)
        PROVE  r \in ex /\ Listed(ch, r)
    <3>1. IsAbove(<<>>, r)
      BY <2>1, <2>2, <2>4, AboveAbove, FolderTypes, ListTypes
    <3> QED BY <1>1, <2>4, <3>1 DEF Shown
  <2> QED BY <2>1, <2>3, <2>4 DEF Shown, Listed
<1> QED BY <1>1, <1>2

\* What holds of rows and counts until they are disturbed.
CountsOf(ch, ex, counts, wrong) ==
    \A p \in Folders \ wrong :
        ch[p] \in {"loading", "loaded"} => counts[p] = Len(RowsBelow(ch, ex)[p])

Settled ==
    /\ Undisturbed
    /\ rows = RowsBelow(children, m_IsExpanded)[<<>>]
    /\ CountsOf(children, m_IsExpanded, m_ExpandedChildrenCount, miscounted)

\* A folder's children begin once it arrived.
LEMMA ChildrenNull ==
    ASSUME Grows, NEW p \in Folders, ~HasArrived(children, p), NEW c \in EnumerateFiles(p)
    PROVE  /\ c \in Folders => children[c] = "null"
           /\ m_IsExpanded \subseteq Folders => c \notin m_IsExpanded
<1>1. ASSUME c \in Folders
      PROVE  children[c] = "null" /\ c \notin m_IsExpanded
  BY <1>1, ChildAbove DEF Grows
<1> QED BY <1>1

\* Children that arrive in a collapsed folder change its own count only.
LEMMA OneArrivesSettled ==
    ASSUME Basic, Settled, NEW p \in Folders, NEW to \in {"assigned", "tested", "loaded"},
           children[p] # "null", p \notin m_IsExpanded,
           \A c \in EnumerateFiles(p) \cap Folders : children[c] = "null",
           children' = [children EXCEPT ![p] = to], rows' = rows,
           m_IsExpanded' = m_IsExpanded, miscounted' = miscounted, failure' = failure,
           \A q \in Folders : q # p => m_ExpandedChildrenCount'[q] = m_ExpandedChildrenCount[q],
           to = "loaded" => m_ExpandedChildrenCount'[p] = Cardinality(EnumerateFiles(p))
    PROVE  Settled'
<1>1. /\ children \in [Folders -> {"null", "loading", "assigned", "tested", "loaded"}]
      /\ m_IsExpanded \in SUBSET Folders
  BY DEF Basic, TypeOK
<1>2. children'[p] = to /\ \A q \in Folders : q # p => children'[q] = children[q]
  BY <1>1
<1>3. ASSUME NEW q \in Lists, q # p
      PROVE  RowsBelow(children', m_IsExpanded)[q] = RowsBelow(children, m_IsExpanded)[q]
  <2>1. ASSUME NEW r \in Lists, r # p
        PROVE  m_Children(children', r) = m_Children(children, r)
    <3>1. r # <<>> => children'[r] = children[r]
      BY <1>2, <2>1 DEF Lists
    <3> QED BY <3>1, ChildrenSame
  <2>2. SameBut(children, m_IsExpanded, children', m_IsExpanded, p)
    BY <2>1, ListTypes DEF SameBut
  <2>3. m_Children(children', q) = m_Children(children, q)
    BY <1>3, <2>1
  <2>4. Shown(children, m_IsExpanded, q, p) => p \notin m_IsExpanded
    OBVIOUS
  <2>5. q \in Lists
    BY <1>3
  <2>6. m_IsExpanded \in SUBSET Folders
    BY <1>1
  <2>7. PICK ch2, ch, ex : ch2 = children' /\ ch = children /\ ex = m_IsExpanded
    OBVIOUS
  <2>8. /\ ex \in SUBSET Folders /\ m_Children(ch2, q) = m_Children(ch, q)
        /\ SameBut(ch, ex, ch2, ex, p) /\ (Shown(ch, ex, q, p) => p \notin ex /\ p \notin ex)
    BY <2>2, <2>3, <2>4, <2>6, <2>7
  <2>9. RowsBelow(ch2, ex)[q] = RowsBelow(ch, ex)[q]
    BY <2>5, <2>8, KeptElsewhere
  <2> QED BY <2>7, <2>9
<1>4. to = "loaded" =>
          Len(RowsBelow(children', m_IsExpanded)[p]) = Cardinality(EnumerateFiles(p))
  <2>1. SUFFICES ASSUME to = "loaded"
                 PROVE  Len(RowsBelow(children', m_IsExpanded)[p]) = Cardinality(EnumerateFiles(p))
    OBVIOUS
  <2>2. \A c \in EnumerateFiles(p) : c \notin m_IsExpanded
    BY <1>1 DEF Basic, Grows
  <2>3. RowsBelow(children', m_IsExpanded)[p] = m_Children(children', p)
    BY <1>1, <2>2, FolderTypes, OnlyChildren
  <2>4. Listed(children', p)
    BY <1>2, <2>1 DEF Listed, HasArrived
  <2> QED BY <2>3, <2>4, FolderTypes, ChildList
<1>5. rows' = RowsBelow(children', m_IsExpanded')[<<>>]
  BY <1>3, ListTypes, FolderTypes DEF Settled
<1>6. CountsOf(children', m_IsExpanded', m_ExpandedChildrenCount', miscounted')
  <2>1. ASSUME NEW q \in Folders \ miscounted, children'[q] \in {"loading", "loaded"}
        PROVE  m_ExpandedChildrenCount'[q] = Len(RowsBelow(children', m_IsExpanded)[q])
    <3>1. CASE q = p
      BY <1>2, <1>4, <2>1, <3>1
    <3>2. CASE q # p
      <4>1. m_ExpandedChildrenCount[q] = Len(RowsBelow(children, m_IsExpanded)[q])
        BY <1>2, <2>1, <3>2 DEF Settled, CountsOf
      <4> QED BY <1>3, <2>1, <3>2, <4>1, ListTypes
    <3> QED BY <3>1, <3>2
  <2> QED BY <2>1 DEF CountsOf
<1>7. Undisturbed'
  <2>1. ASSUME NEW q \in Folders, children'[q] \in {"assigned", "tested"}
        PROVE  /\ q \notin m_IsExpanded
               /\ \A c \in EnumerateFiles(q) \cap Folders : children'[c] = "null"
    <3>1. CASE q = p
      BY <1>2, <3>1, ChildAbove
    <3>2. CASE q # p
      <4>1. /\ q \notin m_IsExpanded
            /\ \A c \in EnumerateFiles(q) \cap Folders : children[c] = "null"
        BY <1>2, <2>1, <3>2 DEF Settled, Undisturbed, CountedFirst
      <4> QED BY <1>2, <4>1
    <3> QED BY <3>1, <3>2
  <2> QED BY <2>1 DEF Settled, Undisturbed, CountedFirst
<1> QED BY <1>5, <1>6, <1>7 DEF Settled

LEMMA ArriveCollapsedSettled ==
    ASSUME Basic, Settled, NEW p \in Folders, ArriveCollapsed(p)
    PROVE  Settled'
<1>1. /\ children[p] = "loading" /\ p \notin m_IsExpanded
      /\ children' = [children EXCEPT ![p] = "loaded"]
      /\ m_ExpandedChildrenCount' =
            [m_ExpandedChildrenCount EXCEPT ![p] = Cardinality(EnumerateFiles(p))]
      /\ UNCHANGED <<m_IsExpanded, rows, failure, miscounted>>
  BY DEF ArriveCollapsed
<1>2. \A c \in EnumerateFiles(p) \cap Folders : children[c] = "null"
  BY <1>1, ChildrenNull DEF HasArrived, Basic
<1>3. /\ \A q \in Folders : q # p => m_ExpandedChildrenCount'[q] = m_ExpandedChildrenCount[q]
      /\ m_ExpandedChildrenCount'[p] = Cardinality(EnumerateFiles(p))
  BY <1>1 DEF Basic, TypeOK
<1> QED BY <1>1, <1>2, <1>3, OneArrivesSettled

LEMMA AssignInVolumeSettled ==
    ASSUME Basic, Settled, NEW p \in Folders, AssignInVolume(p), disturbed' \subseteq {"hasty"}
    PROVE  Settled'
<1>1. /\ children[p] = "loading" /\ p \notin m_IsExpanded
      /\ children' = [children EXCEPT ![p] = "assigned"]
      /\ UNCHANGED <<m_IsExpanded, m_ExpandedChildrenCount, rows, failure, miscounted>>
  BY DEF AssignInVolume
<1>2. \A c \in EnumerateFiles(p) \cap Folders : children[c] = "null"
  BY <1>1, ChildrenNull DEF HasArrived, Basic
<1> QED BY <1>1, <1>2, OneArrivesSettled

LEMMA TestInVolumeSettled ==
    ASSUME Basic, Settled, NEW p \in Folders, TestInVolume(p)
    PROVE  Settled'
<1>1. /\ children[p] = "assigned" /\ p \notin m_IsExpanded
      /\ \A c \in EnumerateFiles(p) \cap Folders : children[c] = "null"
  BY DEF TestInVolume, Settled, Undisturbed, CountedFirst
<1>2. /\ children' = [children EXCEPT ![p] = "tested"] /\ failure' = failure
      /\ UNCHANGED <<m_IsExpanded, m_ExpandedChildrenCount, rows, miscounted>>
  BY <1>1 DEF TestInVolume
<1> QED BY <1>1, <1>2, OneArrivesSettled

LEMMA CountInVolumeSettled ==
    ASSUME Basic, Settled, NEW p \in Folders, CountInVolume(p)
    PROVE  Settled'
<1>1. /\ children[p] = "tested" /\ p \notin m_IsExpanded
      /\ \A c \in EnumerateFiles(p) \cap Folders : children[c] = "null"
  BY DEF CountInVolume, Settled, Undisturbed, CountedFirst
<1>2. /\ children' = [children EXCEPT ![p] = "loaded"]
      /\ m_ExpandedChildrenCount' =
            [m_ExpandedChildrenCount EXCEPT ![p] = Cardinality(EnumerateFiles(p))]
      /\ UNCHANGED <<m_IsExpanded, rows, failure, miscounted>>
  BY DEF CountInVolume
<1>3. /\ \A q \in Folders : q # p => m_ExpandedChildrenCount'[q] = m_ExpandedChildrenCount[q]
      /\ m_ExpandedChildrenCount'[p] = Cardinality(EnumerateFiles(p))
  BY <1>2 DEF Basic, TypeOK
<1> QED BY <1>1, <1>2, <1>3, OneArrivesSettled

-----------------------------------------------------------------------------
(* Rows and counts follow *)

LEMMA RowsBelowType ==
    ASSUME NEW ch, NEW ex \in SUBSET Folders, NEW q \in Lists
    PROVE  RowsBelow(ch, ex)[q] \in Seq(Row) /\ Len(RowsBelow(ch, ex)[q]) \in Nat
<1>1. RowsBelow(ch, ex)[q] \in Seq(Row)
  BY RowsBelowIs
<1> QED BY <1>1, LenProperties

LEMMA BlockLength ==
    ASSUME NEW ch, NEW ex \in SUBSET Folders, NEW p \in Folders
    PROVE  LET f == RowsBelow(ch, ex)
           IN  /\ Block(ex, f, p) \in Seq(Row)
               /\ p \in ex => /\ Block(ex, f, p) = Cat(<<p>>, f[p])
                              /\ Len(Block(ex, f, p)) = 1 + Len(f[p])
               /\ p \notin ex => /\ Block(ex, f, p) = <<p>>
                                 /\ Len(Block(ex, f, p)) = 1
<1>1. p \in Row /\ p \in Lists
  BY FolderTypes
<1>2. <<p>> \in Seq(Row) /\ Len(<<p>>) = 1
  BY <1>1
<1>3. PICK z \in Seq(Row) : z = RowsBelow(ch, ex)[p]
  BY <1>1, RowsBelowType
<1>4. PICK w \in Seq(Row) : w = <<p>> /\ Len(w) = 1
  BY <1>2
<1>5. w \o z \in Seq(Row) /\ Len(w \o z) = 1 + Len(z)
  BY <1>4, Joined
<1> QED BY <1>3, <1>4, <1>5, Zenon DEF Block, Cat

\* When p's block grows by n rows, so do the rows below all that is above p.
LEMMA LengthsFollow ==
    ASSUME NEW ch, NEW ex \in SUBSET Folders, NEW ch2, NEW ex2 \in SUBSET Folders,
           NEW p \in Folders, SameElsewhere(ch, ex, ch2, ex2, p),
           NEW q \in Lists, Shown(ch, ex, q, p), NEW n \in Int,
           Len(Block(ex2, RowsBelow(ch2, ex2), p)) = Len(Block(ex, RowsBelow(ch, ex), p)) + n
    PROVE  Len(RowsBelow(ch2, ex2)[q]) = Len(RowsBelow(ch, ex)[q]) + n
<1>1. PICK X \in Seq(Row) : X = Block(ex, RowsBelow(ch, ex), p)
  BY BlockLength
<1>2. PICK Y \in Seq(Row) : Y = Block(ex2, RowsBelow(ch2, ex2), p)
  BY BlockLength
<1>3. PICK a : a = RowsBelow(ch, ex)[q]
  OBVIOUS
<1>4. PICK b : b = RowsBelow(ch2, ex2)[q]
  OBVIOUS
<1>5. Holds(a, X, b, Y, p)
  <2>1. Holds(RowsBelow(ch, ex)[q], Block(ex, RowsBelow(ch, ex), p),
              RowsBelow(ch2, ex2)[q], Block(ex2, RowsBelow(ch2, ex2), p), p)
    BY Hole
  <2> QED BY <1>1, <1>2, <1>3, <1>4, <2>1
<1>6. /\ Len(a) \in Nat /\ Len(b) \in Nat /\ Len(X) \in Nat /\ Len(Y) \in Nat
      /\ Len(b) + Len(X) = Len(a) + Len(Y)
  BY <1>5, HoldsLength
<1>7. Len(Y) = Len(X) + n
  BY <1>1, <1>2
<1>8. Len(b) = Len(a) + n
  BY <1>6, <1>7
<1> QED BY <1>3, <1>4, <1>8

\* DoExpand shows what belongs below a folder in the list.
LEMMA RowsExpanded ==
    ASSUME NEW ch, NEW ex \in SUBSET Folders, NEW ch2, NEW ex2 \in SUBSET Folders,
           NEW p \in Folders, SameElsewhere(ch, ex, ch2, ex2, p),
           Shown(ch, ex, <<>>, p), p \notin ex, p \in ex2
    PROVE  DoExpand(ch2, ex2)[p][RowsBelow(ch, ex)[<<>>]] = RowsBelow(ch2, ex2)[<<>>]
<1>1. PICK z \in Seq(Row) : z = RowsBelow(ch2, ex2)[p]
  BY FolderTypes, RowsBelowType
<1>2. PICK w \in Seq(Row) : w = <<p>>
  BY FolderTypes, Single
<1>3. Holds(RowsBelow(ch, ex)[<<>>], w, RowsBelow(ch2, ex2)[<<>>], Cat(w, z), p)
  <2>1. Holds(RowsBelow(ch, ex)[<<>>], Block(ex, RowsBelow(ch, ex), p),
              RowsBelow(ch2, ex2)[<<>>], Block(ex2, RowsBelow(ch2, ex2), p), p)
    BY ListTypes, Hole
  <2>2. /\ Block(ex, RowsBelow(ch, ex), p) = w
        /\ Block(ex2, RowsBelow(ch2, ex2), p) = Cat(w, z)
    BY <1>1, <1>2, BlockLength
  <2> QED BY <2>1, <2>2
<1>4. PICK A \in Seq(Row), B \in Seq(Row) :
          /\ Clear(A, p) /\ RowsBelow(ch, ex)[<<>>] = Around(A, w, B)
          /\ RowsBelow(ch2, ex2)[<<>>] = Around(A, Cat(w, z), B)
  BY <1>3 DEF Holds
<1>5. DoExpand(ch2, ex2)[p][Around(A, <<p>>, B)]
          = Around(A, <<p>>, Cat(RowsBelow(ch2, ex2)[p], B))
  BY <1>4, Expanded
<1>6. Around(A, Cat(w, z), B) = Around(A, w, Cat(z, B))
  <2>1. Cat(Cat(w, z), B) = Cat(w, Cat(z, B))
    BY Regrouped
  <2> QED BY <2>1 DEF Around
<1> QED BY <1>1, <1>2, <1>4, <1>5, <1>6, Zenon

\* Collapse, whose count is right, removes them again.
LEMMA RowsCollapsed ==
    ASSUME NEW ch, NEW ex \in SUBSET Folders, NEW ch2, NEW ex2 \in SUBSET Folders,
           NEW p \in Folders, SameElsewhere(ch, ex, ch2, ex2, p),
           Shown(ch, ex, <<>>, p), p \in ex, p \notin ex2,
           rows = RowsBelow(ch, ex)[<<>>],
           m_ExpandedChildrenCount[p] = Len(RowsBelow(ch, ex)[p])
    PROVE  RemoveRows(rows, p) = RowsBelow(ch2, ex2)[<<>>] /\ ~RemovesTooMany(p)
<1>1. PICK z \in Seq(Row) : z = RowsBelow(ch, ex)[p]
  BY FolderTypes, RowsBelowType
<1>2. PICK w \in Seq(Row) : w = <<p>>
  BY FolderTypes, Single
<1>3. Holds(RowsBelow(ch, ex)[<<>>], Cat(w, z), RowsBelow(ch2, ex2)[<<>>], w, p)
  <2>1. Holds(RowsBelow(ch, ex)[<<>>], Block(ex, RowsBelow(ch, ex), p),
              RowsBelow(ch2, ex2)[<<>>], Block(ex2, RowsBelow(ch2, ex2), p), p)
    BY ListTypes, Hole
  <2>2. /\ Block(ex, RowsBelow(ch, ex), p) = Cat(w, z)
        /\ Block(ex2, RowsBelow(ch2, ex2), p) = w
    BY <1>1, <1>2, BlockLength
  <2> QED BY <2>1, <2>2
<1>4. PICK A \in Seq(Row), B \in Seq(Row) :
          /\ Clear(A, p) /\ RowsBelow(ch, ex)[<<>>] = Around(A, Cat(w, z), B)
          /\ RowsBelow(ch2, ex2)[<<>>] = Around(A, w, B)
  BY <1>3 DEF Holds
<1>5. p \notin Range(A) /\ p \in Row
  BY <1>4, FolderTypes DEF Clear, Apart
<1>6. rows = Around(A, <<p>> \o z, B) /\ m_ExpandedChildrenCount[p] = Len(z)
  BY <1>1, <1>2, <1>4, Zenon DEF Cat
<1>7. RemoveRows(rows, p) = Around(A, <<p>>, B) /\ ~RemovesTooMany(p)
  BY <1>5, <1>6, Removed
<1> QED BY <1>2, <1>4, <1>7

-----------------------------------------------------------------------------
(* Each step leaves rows and counts settled *)

\* The rows below a list that is neither p nor above it stay, if p alone is toggled.
LEMMA KeptAside ==
    ASSUME NEW ch, NEW ex \in SUBSET Folders, NEW ch2, NEW ex2 \in SUBSET Folders,
           NEW p \in Folders, NEW q \in Folders, q \notin Above(p),
           m_Children(ch2, q) = m_Children(ch, q), SameBut(ch, ex, ch2, ex2, p)
    PROVE  RowsBelow(ch2, ex2)[q] = RowsBelow(ch, ex)[q]
<1>1. ~Shown(ch, ex, q, p)
  BY DEF Shown, Above
<1>2. q \in Lists
  BY FolderTypes
<1> QED BY <1>1, <1>2, KeptElsewhere

\* A folder waits for its children: it has one row below it.
LEMMA OneRow ==
    ASSUME NEW ch, NEW ex \in SUBSET Folders, NEW q \in Folders, ch[q] = "loading"
    PROVE  Len(RowsBelow(ch, ex)[q]) = 1
<1>1. ~Listed(ch, q)
  BY FolderTypes DEF Listed, HasArrived
<1>2. m_Children(ch, q) = <<Loading>>
  BY <1>1, FolderTypes, ChildList
<1>3. RowsBelow(ch, ex)[q] = m_Children(ch, q)
  BY <1>1, FolderTypes, OnlyChildren
<1> QED BY <1>2, <1>3

\* What begins are children, whose rows are not counted anywhere else.
LEMMA AskedElsewhere ==
    ASSUME NEW ch, NEW ex \in SUBSET Folders, NEW ex2 \in SUBSET Folders,
           NEW p \in Folders, NEW ch2,
           \A r \in Folders : r # p /\ r \notin EnumerateFiles(p) => ch2[r] = ch[r],
           \A r \in Folders : r # p => (r \in ex <=> r \in ex2)
    PROVE  SameElsewhere(ch, ex, ch2, ex2, p)
<1>1. ASSUME NEW r \in Lists, Apart(p, r)
      PROVE  /\ r \in ex <=> r \in ex2
             /\ m_Children(ch2, r) = m_Children(ch, r)
  <2>1. CASE r = <<>>
    <3>1. r \notin Folders
      BY <2>1, FolderTypes
    <3> QED BY <2>1, <3>1, ChildrenSame
  <2>2. CASE r \in Folders
    <3>1. r # p /\ r \notin EnumerateFiles(p)
      <4>1. r # p /\ ~IsAbove(p, r)
        BY <1>1, <2>2, FolderTypes DEF Apart
      <4> QED BY <2>2, <4>1, FolderTypes, ChildOf
    <3>2. ch2[r] = ch[r]
      BY <2>2, <3>1
    <3> QED BY <2>2, <3>1, <3>2, ChildrenSame
  <2> QED BY <1>1, <2>1, <2>2 DEF Lists
<1> QED BY <1>1 DEF SameElsewhere

LEMMA ExpandSettled ==
    ASSUME Basic, Settled, NEW p \in Folders, Expand(p), disturbed' \subseteq {"hasty"}
    PROVE  Settled'
<1> DEFINE begun == IF HasArrived(children, p) THEN Begun(p) ELSE {}
<1>1. /\ children \in [Folders -> {"null", "loading", "assigned", "tested", "loaded"}]
      /\ m_ExpandedChildrenCount \in [Folders -> Int] /\ rows \in Seq(Row)
      /\ m_IsExpanded \in SUBSET Folders
      /\ \A q \in Range(rows) \cap Folders : children[q] # "null"
  BY DEF Basic, TypeOK
<1>2. /\ p \notin m_IsExpanded /\ p \in Range(rows)
      /\ m_IsExpanded' = m_IsExpanded \cup {p}
      /\ children' = Asked(children, begun)
      /\ rows' = DoExpand(children', m_IsExpanded')[p][rows]
      /\ m_ExpandedChildrenCount' =
             AddToExpandedChildrenCount(Begin(begun, m_ExpandedChildrenCount), p,
                                        m_ExpandedChildrenCount[p])
      /\ failure' = failure /\ miscounted' = miscounted
  BY DEF Expand, Asked
<1>3. /\ begun \subseteq EnumerateFiles(p) \cap Folders
      /\ \A c \in begun : children[c] = "null"
  BY BegunTypes
<1>4. ~Races(p)
  BY DEF Expand
<1> HIDE DEF begun
<1>5. PICK ch : ch = children
  OBVIOUS
<1>6. PICK ch2 : ch2 = children'
  OBVIOUS
<1>7. PICK ex \in SUBSET Folders : ex = m_IsExpanded
  BY <1>1
<1>8. PICK ex2 \in SUBSET Folders : ex2 = m_IsExpanded' /\ ex2 = ex \cup {p}
  BY <1>1, <1>2, <1>7
<1>9. /\ \A q \in Folders : /\ q \in begun => ch2[q] = "loading"
                            /\ q \notin begun => ch2[q] = ch[q]
  <2>1. begun \in SUBSET Folders
    BY <1>3
  <2> QED BY <1>1, <1>2, <1>3, <1>5, <1>6, <2>1, AskedTypes
<1>10. /\ p \in Lists /\ p \notin begun /\ ch[p] # "null" /\ ch[p] \in {"loading", "loaded"}
  <2>1. p \in Range(rows) \cap Folders
    BY <1>2
  <2>2. ch[p] # "null"
    BY <1>1, <1>5, <2>1
  <2>3. ch[p] \notin {"assigned", "tested"}
    BY <1>4, <1>5 DEF Races
  <2>4. ch[p] \in {"null", "loading", "assigned", "tested", "loaded"}
    BY <1>1, <1>5
  <2> QED BY <1>3, <1>5, <2>2, <2>3, <2>4, FolderTypes
<1>11. /\ Shown(ch, ex, <<>>, p)
       /\ \A q \in Above(p) : q \in ex /\ HasArrived(ch, q) /\ Shown(ch, ex, q, p)
  <2>1. p \in Range(RowsBelow(ch, ex)[<<>>])
    BY <1>2, <1>5, <1>7 DEF Settled
  <2> QED BY <2>1, ShownInTree
<1>12. SameElsewhere(ch, ex, ch2, ex2, p)
  <2>1. \A r \in Folders : r # p /\ r \notin EnumerateFiles(p) => ch2[r] = ch[r]
    BY <1>3, <1>9
  <2>2. \A r \in Folders : r # p => (r \in ex <=> r \in ex2)
    BY <1>8
  <2> QED BY <2>1, <2>2, AskedElsewhere
<1>13. SameBut(ch, ex, ch2, ex2, p)
  <2>1. ASSUME NEW r \in Folders, r # p
        PROVE  /\ r \in ex <=> r \in ex2
               /\ r \in ex => m_Children(ch2, r) = m_Children(ch, r)
    <3>1. r \in ex => ch[r] # "null"
      BY <1>5, <1>7 DEF Basic, Grows
    <3>2. r \in ex => ch2[r] = ch[r]
      BY <1>3, <1>5, <1>9, <2>1, <3>1
    <3>3. r \in ex => m_Children(ch2, r) = m_Children(ch, r)
      BY <3>2, ChildrenSame
    <3> QED BY <1>8, <2>1, <3>3
  <2> QED BY <2>1 DEF SameBut
<1>14. RowsBelow(ch2, ex2)[p] = RowsBelow(ch, ex)[p]
  <2>1. m_Children(ch2, p) = m_Children(ch, p)
    BY <1>9, <1>10, ChildrenSame
  <2> QED BY <1>13, <2>1, FolderTypes, KeptAside
<1>15. rows' = RowsBelow(ch2, ex2)[<<>>]
  <2>1. rows = RowsBelow(ch, ex)[<<>>]
    BY <1>5, <1>7 DEF Settled
  <2>2. DoExpand(ch2, ex2)[p][RowsBelow(ch, ex)[<<>>]] = RowsBelow(ch2, ex2)[<<>>]
    BY <1>2, <1>7, <1>8, <1>11, <1>12, RowsExpanded
  <2> QED BY <1>2, <1>6, <1>8, <2>1, <2>2
<1>16. CountsOf(ch2, ex2, m_ExpandedChildrenCount', miscounted)
  <2>1. ASSUME NEW q \in Folders \ miscounted, ch2[q] \in {"loading", "loaded"}
        PROVE  m_ExpandedChildrenCount'[q] = Len(RowsBelow(ch2, ex2)[q])
    <3> DEFINE n == m_ExpandedChildrenCount[p]
    <3>1. m_ExpandedChildrenCount'[q] =
              (IF q \in begun THEN 1 ELSE m_ExpandedChildrenCount[q])
              + (IF q \in Above(p) THEN n ELSE 0)
      <4>1. /\ m_ExpandedChildrenCount[q] \in Int /\ n \in Int
        BY <1>1
      <4> QED BY <1>2, <4>1 DEF AddToExpandedChildrenCount, Begin
    <3>2. q \notin begun => m_ExpandedChildrenCount[q] = Len(RowsBelow(ch, ex)[q])
      BY <1>5, <1>7, <1>9, <2>1 DEF Settled, CountsOf
    <3>3. m_ExpandedChildrenCount[q] \in Int /\ n \in Int
      BY <1>1
    <3> HIDE DEF n
    <3>4. CASE q \in begun
      <4>1. q \notin Above(p)
        BY <1>3, <3>4, ChildAbove
      <4>2. Len(RowsBelow(ch2, ex2)[q]) = 1
        BY <1>9, <3>4, OneRow
      <4> QED BY <3>1, <3>4, <4>1, <4>2
    <3>5. CASE q \notin begun /\ q \notin Above(p)
      <4>1. m_Children(ch2, q) = m_Children(ch, q)
        BY <1>9, <3>5, ChildrenSame
      <4>2. RowsBelow(ch2, ex2)[q] = RowsBelow(ch, ex)[q]
        BY <1>13, <3>5, <4>1, KeptAside
      <4> QED BY <3>1, <3>2, <3>3, <3>5, <4>2
    <3>6. CASE q \notin begun /\ q \in Above(p)
      <4>1. p \notin miscounted
        BY <2>1, <3>6 DEF Basic, MiscountedAbove
      <4>2. n = Len(RowsBelow(ch, ex)[p])
        BY <1>5, <1>7, <1>10, <4>1 DEF Settled, CountsOf, n
      <4>3. Len(Block(ex2, RowsBelow(ch2, ex2), p)) = Len(Block(ex, RowsBelow(ch, ex), p)) + n
        <5>1. Len(Block(ex2, RowsBelow(ch2, ex2), p)) = 1 + Len(RowsBelow(ch2, ex2)[p])
          <6>1. p \in ex2
            BY <1>8
          <6> QED BY <6>1, BlockLength
        <5>2. Len(Block(ex, RowsBelow(ch, ex), p)) = 1
          BY <1>2, <1>7, BlockLength
        <5> QED BY <1>14, <4>2, <5>1, <5>2
      <4>4. q \in Lists /\ Shown(ch, ex, q, p)
        BY <1>11, <3>6, FolderTypes
      <4>5. Len(RowsBelow(ch2, ex2)[q]) = Len(RowsBelow(ch, ex)[q]) + n
        BY <1>12, <3>3, <4>3, <4>4, LengthsFollow
      <4> QED BY <3>1, <3>2, <3>6, <4>5
    <3> QED BY <3>4, <3>5, <3>6
  <2> QED BY <2>1 DEF CountsOf
<1>17. Undisturbed'
  <2>1. ASSUME NEW q \in Folders, ch2[q] \in {"assigned", "tested"}
        PROVE  /\ q \notin ex2
               /\ \A c \in EnumerateFiles(q) \cap Folders : ch2[c] = "null"
    <3>1. ch2[q] = ch[q]
      BY <1>9, <2>1
    <3>2. q # p
      BY <1>10, <2>1, <3>1
    <3>3. q \notin ex /\ \A c \in EnumerateFiles(q) \cap Folders : ch[c] = "null"
      BY <1>5, <1>7, <2>1, <3>1 DEF Settled, Undisturbed, CountedFirst
    <3>4. \A c \in EnumerateFiles(q) : c \notin begun
      BY <1>3, <3>2 DEF EnumerateFiles
    <3> QED BY <1>8, <1>9, <3>2, <3>3, <3>4
  <2> QED BY <1>2, <1>6, <1>8, <2>1 DEF Settled, Undisturbed, CountedFirst
<1> QED BY <1>2, <1>6, <1>8, <1>15, <1>16, <1>17 DEF Settled

LEMMA CollapseSettled ==
    ASSUME Basic, Settled, NEW p \in Folders, Collapse(p), disturbed' \subseteq {"hasty"}
    PROVE  Settled'
<1>1. /\ children \in [Folders -> {"null", "loading", "assigned", "tested", "loaded"}]
      /\ m_ExpandedChildrenCount \in [Folders -> Int] /\ rows \in Seq(Row)
      /\ m_IsExpanded \in SUBSET Folders
  BY DEF Basic, TypeOK
<1>2. /\ p \in m_IsExpanded /\ p \in Range(rows) /\ p \notin miscounted /\ ~Races(p)
      /\ m_IsExpanded' = m_IsExpanded \ {p} /\ rows' = RemoveRows(rows, p)
      /\ children' = children /\ miscounted' = miscounted
  BY DEF Collapse
<1>3. /\ children[p] # "null" /\ children[p] \notin {"assigned", "tested"}
      /\ children[p] \in {"loading", "loaded"}
  <2>1. children[p] # "null"
    BY <1>2 DEF Basic, Grows
  <2>2. children[p] \notin {"assigned", "tested"}
    BY <1>2 DEF Races
  <2>3. children[p] \in {"null", "loading", "assigned", "tested", "loaded"}
    BY <1>1
  <2> QED BY <2>1, <2>2, <2>3
<1>4. PICK ch : ch = children
  OBVIOUS
<1>5. PICK ex \in SUBSET Folders : ex = m_IsExpanded
  BY <1>1
<1>6. PICK ex2 \in SUBSET Folders : ex2 = m_IsExpanded' /\ ex2 = ex \ {p}
  BY <1>1, <1>2, <1>5
<1>7. p \in ex /\ p \notin ex2 /\ \A r \in Folders : r # p => (r \in ex <=> r \in ex2)
  BY <1>2, <1>5, <1>6
<1>8. PICK n \in Int : /\ n = m_ExpandedChildrenCount[p]
                       /\ n = Len(RowsBelow(ch, ex)[p])
  <2>1. m_ExpandedChildrenCount[p] \in Int
    BY <1>1
  <2> QED BY <1>2, <1>3, <1>4, <1>5, <2>1 DEF Settled, CountsOf
<1>9. /\ Shown(ch, ex, <<>>, p)
      /\ \A q \in Above(p) : q \in ex /\ HasArrived(ch, q) /\ Shown(ch, ex, q, p)
  <2>1. p \in Range(RowsBelow(ch, ex)[<<>>])
    BY <1>2, <1>4, <1>5 DEF Settled
  <2> QED BY <2>1, ShownInTree
<1>10. SameElsewhere(ch, ex, ch, ex2, p) /\ SameBut(ch, ex, ch, ex2, p)
  BY <1>7, AskedElsewhere DEF SameBut
<1>11. rows' = RowsBelow(ch, ex2)[<<>>] /\ ~RemovesTooMany(p)
  <2>1. rows = RowsBelow(ch, ex)[<<>>]
    BY <1>4, <1>5 DEF Settled
  <2>2. p \in ex /\ p \notin ex2
    BY <1>7
  <2>3. m_ExpandedChildrenCount[p] = Len(RowsBelow(ch, ex)[p])
    BY <1>8
  <2>4. Shown(ch, ex, <<>>, p) /\ SameElsewhere(ch, ex, ch, ex2, p)
    BY <1>9, <1>10
  <2>5. RemoveRows(rows, p) = RowsBelow(ch, ex2)[<<>>] /\ ~RemovesTooMany(p)
    BY <2>1, <2>2, <2>3, <2>4, RowsCollapsed
  <2> QED BY <1>2, <2>5
<1>12. /\ m_ExpandedChildrenCount' = AddToExpandedChildrenCount(m_ExpandedChildrenCount, p, -n)
       /\ failure' = failure
  BY <1>8, <1>11 DEF Collapse
<1>13. CountsOf(ch, ex2, m_ExpandedChildrenCount', miscounted)
  <2>1. ASSUME NEW q \in Folders \ miscounted, ch[q] \in {"loading", "loaded"}
        PROVE  m_ExpandedChildrenCount'[q] = Len(RowsBelow(ch, ex2)[q])
    <3>1. /\ m_ExpandedChildrenCount[q] \in Int
          /\ m_ExpandedChildrenCount'[q] =
                 m_ExpandedChildrenCount[q] + (IF q \in Above(p) THEN -n ELSE 0)
      <4>1. m_ExpandedChildrenCount[q] \in Int
        BY <1>1
      <4> QED BY <1>12, <4>1 DEF AddToExpandedChildrenCount
    <3>2. m_ExpandedChildrenCount[q] = Len(RowsBelow(ch, ex)[q])
      BY <1>4, <1>5, <2>1 DEF Settled, CountsOf
    <3>3. CASE q \notin Above(p)
      <4>1. RowsBelow(ch, ex2)[q] = RowsBelow(ch, ex)[q]
        BY <1>10, <3>3, KeptAside
      <4> QED BY <3>1, <3>2, <3>3, <4>1
    <3>4. CASE q \in Above(p)
      <4>1. Len(Block(ex2, RowsBelow(ch, ex2), p)) = Len(Block(ex, RowsBelow(ch, ex), p)) + (-n)
        <5>1. Len(Block(ex2, RowsBelow(ch, ex2), p)) = 1
          BY <1>7, BlockLength
        <5>2. Len(Block(ex, RowsBelow(ch, ex), p)) = 1 + n
          <6>1. p \in ex
            BY <1>7
          <6>2. Len(Block(ex, RowsBelow(ch, ex), p)) = 1 + Len(RowsBelow(ch, ex)[p])
            BY <6>1, BlockLength
          <6> QED BY <1>8, <6>2
        <5> QED BY <1>8, <5>1, <5>2
      <4>2. q \in Lists /\ Shown(ch, ex, q, p) /\ -n \in Int
        BY <1>9, <3>4, FolderTypes
      <4>3. Len(RowsBelow(ch, ex2)[q]) = Len(RowsBelow(ch, ex)[q]) + (-n)
        <5>1. SameElsewhere(ch, ex, ch, ex2, p) /\ Shown(ch, ex, q, p) /\ q \in Lists
          BY <1>10, <4>2
        <5>2. PICK m \in Int : m = -n
          BY <4>2
        <5>3. PICK same : same = ch
          OBVIOUS
        <5>4. /\ Len(Block(ex2, RowsBelow(same, ex2), p)) = Len(Block(ex, RowsBelow(ch, ex), p)) + m
              /\ SameElsewhere(ch, ex, same, ex2, p)
          BY <4>1, <5>1, <5>2, <5>3
        <5>5. Len(RowsBelow(same, ex2)[q]) = Len(RowsBelow(ch, ex)[q]) + m
          BY <5>1, <5>4, LengthsFollow
        <5> QED BY <5>2, <5>3, <5>5
      <4> QED BY <3>1, <3>2, <3>4, <4>3
    <3> QED BY <3>3, <3>4
  <2> QED BY <2>1 DEF CountsOf
<1>14. Undisturbed'
  BY <1>2, <1>12 DEF Settled, Undisturbed, CountedFirst
<1> QED BY <1>2, <1>4, <1>6, <1>11, <1>13, <1>14 DEF Settled

\* A folder that is shown is shown as well when it is collapsed.
LEMMA ShownCollapsed ==
    ASSUME NEW ch, NEW ex, NEW q, NEW p, Shown(ch, ex, q, p)
    PROVE  Shown(ch, ex \ {p}, q, p)
<1>1. ~IsAbove(p, p)
  BY DEF IsAbove
<1> QED BY <1>1 DEF Shown

LEMMA ArriveExpandedSettled ==
    ASSUME Basic, Settled, NEW p \in Folders, ArriveExpanded(p), disturbed' \subseteq {"hasty"}
    PROVE  Settled'
<1> DEFINE size == Cardinality(EnumerateFiles(p))
<1>1. /\ children \in [Folders -> {"null", "loading", "assigned", "tested", "loaded"}]
      /\ m_ExpandedChildrenCount \in [Folders -> Int] /\ rows \in Seq(Row)
      /\ m_IsExpanded \in SUBSET Folders /\ size \in Nat
  BY FolderTypes DEF Basic, TypeOK
<1>2. /\ children[p] = "loading" /\ p \in m_IsExpanded /\ p \in Range(rows)
      /\ m_IsExpanded' = m_IsExpanded
      /\ miscounted' = miscounted \cup (IF size = 1 THEN {} ELSE Above(p))
  BY DEF ArriveExpanded
<1>3. p \notin miscounted
  BY <1>2 DEF Basic, MiscountedAbove, HasArrived
<1>4. PICK ch : ch = children
  OBVIOUS
<1>5. PICK ex \in SUBSET Folders : ex = m_IsExpanded
  BY <1>1
<1>6. PICK closed \in SUBSET Folders : closed = ex \ {p}
  BY <1>5
<1>7. p \in ex /\ p \notin closed /\ \A r \in Folders : r # p => (r \in ex <=> r \in closed)
  BY <1>2, <1>5, <1>6
<1>8. m_ExpandedChildrenCount[p] = 1 /\ Len(RowsBelow(ch, ex)[p]) = 1
  <2>1. Len(RowsBelow(ch, ex)[p]) = 1
    BY <1>2, <1>4, OneRow
  <2> QED BY <1>2, <1>3, <1>4, <1>5, <2>1 DEF Settled, CountsOf
<1>9. /\ Shown(ch, ex, <<>>, p) /\ Shown(ch, closed, <<>>, p)
      /\ \A q \in Above(p) : q \in ex /\ HasArrived(ch, q) /\ Shown(ch, ex, q, p)
  <2>1. p \in Range(RowsBelow(ch, ex)[<<>>])
    BY <1>2, <1>4, <1>5 DEF Settled
  <2>2. /\ Shown(ch, ex, <<>>, p)
        /\ \A q \in Above(p) : q \in ex /\ HasArrived(ch, q) /\ Shown(ch, ex, q, p)
    BY <2>1, ShownInTree
  <2> QED BY <1>6, <2>2, ShownCollapsed
<1>10. RemoveRows(rows, p) = RowsBelow(ch, closed)[<<>>] /\ ~RemovesTooMany(p)
  <2>1. rows = RowsBelow(ch, ex)[<<>>]
    BY <1>4, <1>5 DEF Settled
  <2>2. SameElsewhere(ch, ex, ch, closed, p)
    BY <1>7, AskedElsewhere
  <2>3. m_ExpandedChildrenCount[p] = Len(RowsBelow(ch, ex)[p])
    BY <1>8
  <2> QED BY <1>7, <1>9, <2>1, <2>2, <2>3, RowsCollapsed
<1> DEFINE begun == Begun(p)
           counts == AddToExpandedChildrenCount(
                         [m_ExpandedChildrenCount EXCEPT ![p] = size],
                         p, -m_ExpandedChildrenCount[p] + (size - m_ExpandedChildrenCount[p]) + size)
<1>11. /\ children' = [q \in Folders |-> IF q = p THEN "loaded"
                                         ELSE IF q \in begun THEN "loading"
                                         ELSE children[q]]
       /\ m_ExpandedChildrenCount' = Begin(begun, counts)
       /\ rows' = DoExpand(children', m_IsExpanded)[p][RemoveRows(rows, p)]
       /\ failure' = failure
  BY <1>10 DEF ArriveExpanded
<1>12. /\ begun \subseteq EnumerateFiles(p) \cap Folders
       /\ \A c \in begun : children[c] = "null"
  BY BegunTypes
<1>13. ASSUME NEW q \in Folders
       PROVE  m_ExpandedChildrenCount'[q] =
                  IF q \in begun THEN 1
                  ELSE IF q = p THEN size
                  ELSE IF q \in Above(p) THEN m_ExpandedChildrenCount[q] + 2 * (size - 1)
                  ELSE m_ExpandedChildrenCount[q]
  <2>1. m_ExpandedChildrenCount[q] \in Int /\ p \notin Above(p)
    BY <1>1, FolderTypes
  <2> HIDE DEF begun, size
  <2>2. counts[q] = IF q = p THEN size
                    ELSE IF q \in Above(p) THEN m_ExpandedChildrenCount[q] + 2 * (size - 1)
                    ELSE m_ExpandedChildrenCount[q]
    BY <1>1, <1>8, <2>1 DEF AddToExpandedChildrenCount
  <2> HIDE DEF counts
  <2> QED BY <1>11, <2>2 DEF Begin
<1> HIDE DEF begun, counts
<1>14. PICK ch2 : ch2 = children'
  OBVIOUS
<1>15. /\ ch2[p] = "loaded" /\ p \notin begun
       /\ \A q \in Folders : q # p => /\ q \in begun => ch2[q] = "loading"
                                      /\ q \notin begun => ch2[q] = ch[q]
  BY <1>2, <1>4, <1>11, <1>12, <1>14
<1>16. rows' = RowsBelow(ch2, ex)[<<>>]
  <2>1. SameElsewhere(ch, closed, ch2, ex, p)
    <3>1. \A r \in Folders : r # p /\ r \notin EnumerateFiles(p) => ch2[r] = ch[r]
      BY <1>12, <1>15
    <3> QED BY <1>7, <3>1, AskedElsewhere
  <2>2. DoExpand(ch2, ex)[p][RowsBelow(ch, closed)[<<>>]] = RowsBelow(ch2, ex)[<<>>]
    BY <1>7, <1>9, <2>1, RowsExpanded
  <2> QED BY <1>5, <1>10, <1>11, <1>14, <2>2
<1>17. SameBut(ch, ex, ch2, ex, p) /\ SameElsewhere(ch, ex, ch2, ex, p)
  <2>1. ASSUME NEW r \in Folders, r # p
        PROVE  r \in ex => m_Children(ch2, r) = m_Children(ch, r)
    <3>1. r \in ex => ch[r] # "null"
      BY <1>4, <1>5 DEF Basic, Grows
    <3>2. r \in ex => ch2[r] = ch[r]
      BY <1>4, <1>12, <1>15, <2>1, <3>1
    <3> QED BY <3>2, ChildrenSame
  <2>2. \A r \in Folders : r # p /\ r \notin EnumerateFiles(p) => ch2[r] = ch[r]
    BY <1>12, <1>15
  <2> QED BY <2>1, <2>2, AskedElsewhere DEF SameBut
<1>18. Len(RowsBelow(ch2, ex)[p]) = size
  <2>1. Listed(ch2, p)
    BY <1>15 DEF Listed, HasArrived
  <2>2. \A c \in EnumerateFiles(p) : c \notin ex
    BY <1>1, <1>2, <1>5, ChildrenNull DEF Basic, HasArrived
  <2>3. RowsBelow(ch2, ex)[p] = m_Children(ch2, p)
    BY <2>2, FolderTypes, OnlyChildren
  <2>4. p \in Lists
    BY FolderTypes
  <2> QED BY <2>1, <2>3, <2>4, ChildList
<1>19. CountsOf(ch2, ex, m_ExpandedChildrenCount', miscounted')
  <2>1. ASSUME NEW q \in Folders \ miscounted', ch2[q] \in {"loading", "loaded"}
        PROVE  m_ExpandedChildrenCount'[q] = Len(RowsBelow(ch2, ex)[q])
    <3>1. q \in Folders /\ q \notin miscounted
      BY <1>2, <2>1
    <3>2. m_ExpandedChildrenCount[q] \in Int
      BY <1>1, <3>1
    <3>3. CASE q \in begun
      <4>1. q # p
        BY <1>15, <3>3
      <4>2. Len(RowsBelow(ch2, ex)[q]) = 1
        BY <1>15, <3>1, <3>3, <4>1, OneRow
      <4> QED BY <1>13, <3>1, <3>3, <4>2
    <3>4. CASE q = p
      BY <1>13, <1>15, <1>18, <3>4
    <3>5. CASE q \notin begun /\ q # p
      <4>1. ch2[q] = ch[q]
        BY <1>15, <3>1, <3>5
      <4>2. m_ExpandedChildrenCount[q] = Len(RowsBelow(ch, ex)[q])
        BY <1>4, <1>5, <2>1, <3>1, <4>1 DEF Settled, CountsOf
      <4>3. CASE q \notin Above(p)
        <5>1. m_Children(ch2, q) = m_Children(ch, q)
          BY <4>1, ChildrenSame
        <5>2. RowsBelow(ch2, ex)[q] = RowsBelow(ch, ex)[q]
          BY <1>17, <3>1, <4>3, <5>1, KeptAside
        <5> QED BY <1>13, <3>1, <3>5, <4>2, <4>3, <5>2
      <4>4. CASE q \in Above(p)
        <5>1. size = 1
          BY <1>2, <2>1, <4>4
        <5>2. Len(Block(ex, RowsBelow(ch2, ex), p)) = Len(Block(ex, RowsBelow(ch, ex), p)) + 0
          <6>1. p \in ex
            BY <1>7
          <6>2. Len(Block(ex, RowsBelow(ch2, ex), p)) = 1 + Len(RowsBelow(ch2, ex)[p])
            BY <6>1, BlockLength
          <6>3. Len(Block(ex, RowsBelow(ch, ex), p)) = 1 + Len(RowsBelow(ch, ex)[p])
            BY <6>1, BlockLength
          <6> QED BY <1>8, <1>18, <5>1, <6>2, <6>3
        <5>3. q \in Lists /\ Shown(ch, ex, q, p)
          BY <1>9, <4>4, FolderTypes
        <5>4. Len(RowsBelow(ch2, ex)[q]) = Len(RowsBelow(ch, ex)[q]) + 0
          <6>1. SameElsewhere(ch, ex, ch2, ex, p) /\ Shown(ch, ex, q, p) /\ q \in Lists
            BY <1>17, <5>3
          <6>2. PICK m \in Int : m = 0
            OBVIOUS
          <6>3. PICK same \in SUBSET Folders : same = ex
            OBVIOUS
          <6>4. /\ Len(Block(same, RowsBelow(ch2, same), p)) = Len(Block(ex, RowsBelow(ch, ex), p)) + m
                /\ SameElsewhere(ch, ex, ch2, same, p)
            BY <5>2, <6>1, <6>2, <6>3
          <6>5. Len(RowsBelow(ch2, same)[q]) = Len(RowsBelow(ch, ex)[q]) + m
            BY <6>1, <6>4, LengthsFollow
          <6> QED BY <6>2, <6>3, <6>5
        <5>5. m_ExpandedChildrenCount'[q] = m_ExpandedChildrenCount[q] + 2 * (1 - 1)
          BY <1>13, <3>1, <3>5, <4>4, <5>1
        <5> QED BY <3>2, <4>2, <5>4, <5>5
      <4> QED BY <4>3, <4>4
    <3> QED BY <3>3, <3>4, <3>5
  <2> QED BY <2>1 DEF CountsOf
<1>20. Undisturbed'
  <2>1. ASSUME NEW q \in Folders, ch2[q] \in {"assigned", "tested"}
        PROVE  /\ q \notin ex
               /\ \A c \in EnumerateFiles(q) \cap Folders : ch2[c] = "null"
    <3>1. q # p /\ ch2[q] = ch[q]
      BY <1>15, <2>1
    <3>2. q \notin ex /\ \A c \in EnumerateFiles(q) \cap Folders : ch[c] = "null"
      BY <1>4, <1>5, <2>1, <3>1 DEF Settled, Undisturbed, CountedFirst
    <3>3. \A c \in EnumerateFiles(q) : c \notin begun
      BY <1>12, <3>1 DEF EnumerateFiles
    <3>4. \A c \in EnumerateFiles(q) \cap Folders : c # p
      BY <1>2, <1>4, <3>2
    <3> QED BY <1>15, <3>2, <3>3, <3>4
  <2> QED BY <1>2, <1>5, <1>11, <1>14, <2>1 DEF Settled, Undisturbed, CountedFirst
<1> QED BY <1>2, <1>5, <1>14, <1>16, <1>19, <1>20 DEF Settled

-----------------------------------------------------------------------------
(* The invariant *)

LEMMA InitSettled ==
    ASSUME Init
    PROVE  Settled /\ Unhurried
<1>1. /\ \A p \in Folders : children[p] \in {"loading", "null"}
      /\ \A p \in Folders : children[p] = "loading" => m_ExpandedChildrenCount[p] = 1
      /\ m_IsExpanded = {} /\ rows = m_Children(children, <<>>) /\ failure = "none"
      /\ miscounted = {} /\ disturbed = {}
  BY DEF Init
<1>2. {} \in SUBSET Folders
  OBVIOUS
<1>3. rows = RowsBelow(children, {})[<<>>]
  BY <1>1, <1>2, ListTypes, OnlyChildren
<1>4. CountsOf(children, {}, m_ExpandedChildrenCount, {})
  <2>1. ASSUME NEW p \in Folders, children[p] \in {"loading", "loaded"}
        PROVE  m_ExpandedChildrenCount[p] = Len(RowsBelow(children, {})[p])
    <3>1. children[p] = "loading"
      BY <1>1, <2>1
    <3>2. Len(RowsBelow(children, {})[p]) = 1
      BY <1>2, <3>1, OneRow
    <3> QED BY <1>1, <3>1, <3>2
  <2> QED BY <2>1 DEF CountsOf
<1>5. Undisturbed
  <2>1. \A p \in Folders : children[p] \notin {"assigned", "tested"}
    BY <1>1
  <2> QED BY <1>1, <2>1 DEF Undisturbed, CountedFirst
<1> QED BY <1>1, <1>3, <1>4, <1>5 DEF Settled, Unhurried

\* What disturbed records is not forgotten.
LEMMA StaysDisturbed ==
    ASSUME [Next]_vars
    PROVE  disturbed \subseteq disturbed'
BY DEF Next, vars, Expand, Collapse, ArriveCollapsed, ArriveExpanded, AssignInVolume,
       TestInVolume, CountInVolume

LEMMA NextSettled ==
    ASSUME Basic, disturbed \subseteq {"hasty"} => Settled, [Next]_vars,
           disturbed' \subseteq {"hasty"}
    PROVE  Settled'
<1>1. Settled
  BY StaysDisturbed
<1>2. CASE UNCHANGED vars
  BY <1>1, <1>2 DEF vars, Settled, Undisturbed, CountedFirst, CountsOf
<1>3. CASE Next
  <2>1. PICK p \in Folders :
            \/ Expand(p) \/ Collapse(p) \/ ArriveCollapsed(p) \/ ArriveExpanded(p)
            \/ AssignInVolume(p) \/ TestInVolume(p) \/ CountInVolume(p)
    BY <1>3 DEF Next
  <2> QED BY <1>1, <2>1, ExpandSettled, CollapseSettled, ArriveCollapsedSettled,
             ArriveExpandedSettled, AssignInVolumeSettled, TestInVolumeSettled,
             CountInVolumeSettled
<1> QED BY <1>2, <1>3

\* In a list that nobody hurried, no toggle races with a volume.
LEMMA NoRace ==
    ASSUME Basic, Settled, Unhurried, NEW p \in Folders, p \in Range(rows),
           children[p] = "loaded"
    PROVE  ~Races(p)
<1>1. m_IsExpanded \in SUBSET Folders
  BY DEF Basic, TypeOK
<1>2. p \in Range(RowsBelow(children, m_IsExpanded)[<<>>])
  BY DEF Settled
<1>3. \A q \in Above(p) : q \in m_IsExpanded
  BY <1>1, <1>2, ShownInTree
<1>4. \A q \in Above(p) : children[q] = "loaded"
  BY <1>3 DEF Unhurried
<1> QED BY <1>4 DEF Races

LEMMA NextUnhurried ==
    ASSUME Basic, disturbed \subseteq {"hasty"} => Settled,
           "hasty" \notin disturbed => Unhurried, [Next]_vars, "hasty" \notin disturbed'
    PROVE  Unhurried'
<1>1. Unhurried
  BY StaysDisturbed
<1>2. /\ Settled /\ disturbed = {} /\ miscounted = {}
      /\ \A q \in m_IsExpanded : children[q] = "loaded"
  BY <1>1 DEF Unhurried
<1>3. /\ children \in [Folders -> {"null", "loading", "assigned", "tested", "loaded"}]
      /\ m_IsExpanded \subseteq Folders
  BY DEF Basic, TypeOK
<1>4. CASE UNCHANGED vars
  BY <1>1, <1>4 DEF vars, Unhurried
<1>5. CASE Next
  <2>1. PICK p \in Folders :
            \/ Expand(p) \/ Collapse(p) \/ ArriveCollapsed(p) \/ ArriveExpanded(p)
            \/ AssignInVolume(p) \/ TestInVolume(p) \/ CountInVolume(p)
    BY <1>5 DEF Next
  <2>2. CASE Expand(p)
    <3>1. children[p] = "loaded" /\ p \in Range(rows)
      BY <2>2 DEF Expand
    <3>2. ~Races(p)
      BY <1>1, <1>2, <3>1, NoRace
    <3>3. disturbed' = {} /\ miscounted' = {} /\ m_IsExpanded' = m_IsExpanded \cup {p}
      BY <1>2, <2>2, <3>1, <3>2 DEF Expand
    <3>4. \A q \in Folders : children[q] = "loaded" => children'[q] = "loaded"
      <4>1. \A c \in Begun(p) : children[c] = "null"
        BY BegunTypes
      <4> QED BY <2>2, <4>1 DEF Expand
    <3> QED BY <1>2, <1>3, <3>1, <3>3, <3>4 DEF Unhurried
  <2>3. CASE Collapse(p)
    <3>1. children[p] = "loaded" /\ p \in Range(rows)
      BY <1>2, <2>3 DEF Collapse
    <3>2. ~Races(p)
      BY <1>1, <1>2, <3>1, NoRace
    <3>3. /\ disturbed' = {} /\ miscounted' = {} /\ m_IsExpanded' = m_IsExpanded \ {p}
          /\ children' = children
      BY <1>2, <2>3, <3>2 DEF Collapse
    <3> QED BY <1>2, <3>3 DEF Unhurried
  <2>4. CASE ArriveExpanded(p)
    BY <1>2, <2>4 DEF ArriveExpanded
  <2>5. CASE ArriveCollapsed(p) \/ AssignInVolume(p) \/ TestInVolume(p) \/ CountInVolume(p)
    <3>1. p \notin m_IsExpanded
      BY <1>2, <2>5 DEF ArriveCollapsed, AssignInVolume, TestInVolume, CountInVolume
    <3>2. /\ disturbed' = disturbed /\ miscounted' = miscounted /\ m_IsExpanded' = m_IsExpanded
          /\ \A q \in Folders : q # p => children'[q] = children[q]
      BY <1>3, <2>5, <3>1 DEF ArriveCollapsed, AssignInVolume, TestInVolume, CountInVolume
    <3> QED BY <1>2, <1>3, <3>1, <3>2 DEF Unhurried
  <2> QED BY <2>1, <2>2, <2>3, <2>4, <2>5
<1> QED BY <1>4, <1>5

LEMMA InvariantParts ==
    IInv <=> /\ Basic
             /\ disturbed \subseteq {"hasty"} => Settled
             /\ "hasty" \notin disturbed => Unhurried
BY DEF IInv, Basic, Settled, RowsShowTree, RowsOfTree, CountsMatchRows, CountsOf

\* Whatever is toggled while children arrive: folders are asked for their children
\* from the top down, and until a volume is raced, children arrive out of sight or a
\* wrong count is used, the list is the tree's and the counts are the rows to remove.
THEOREM Invariance == Spec => []IInv
<1>1. Init => IInv
  BY InitBasic, InitSettled, InvariantParts
<1>2. IInv /\ [Next]_vars => IInv'
  <2> SUFFICES ASSUME IInv, [Next]_vars
               PROVE  IInv'
    OBVIOUS
  <2>1. /\ Basic
        /\ disturbed \subseteq {"hasty"} => Settled
        /\ "hasty" \notin disturbed => Unhurried
    BY InvariantParts
  <2>2. Basic'
    BY <2>1, NextBasic
  <2>3. disturbed' \subseteq {"hasty"} => Settled'
    BY <2>1, NextSettled
  <2>4. "hasty" \notin disturbed' => Unhurried'
    BY <2>1, NextUnhurried
  <2>5. (IInv <=> /\ Basic
                  /\ disturbed \subseteq {"hasty"} => Settled
                  /\ "hasty" \notin disturbed => Unhurried)'
    BY InvariantParts, PTL
  <2> QED BY <2>2, <2>3, <2>4, <2>5
<1> QED BY <1>1, <1>2, PTL DEF Spec

\* Every variable keeps its type, whatever is toggled and whenever children arrive.
THEOREM TypeCorrect == Spec => []TypeOK
<1>1. IInv => TypeOK
  BY DEF IInv
<1> QED BY <1>1, Invariance, PTL

\* The list box shows each box whose folders are expanded, once and in the order of
\* the tree, until one of the three things happens that its code does not allow for.
THEOREM RowsShown == Spec => []RowsShowTree
<1>1. IInv => RowsShowTree
  BY DEF IInv
<1> QED BY <1>1, Invariance, PTL

\* Until then m_ExpandedChildrenCount is the number of rows that Collapse has to
\* remove, but for folders above one whose children arrived late.
THEOREM CountsMatch == Spec => []CountsMatchRows
<1>1. IInv => CountsMatchRows
  BY DEF IInv
<1> QED BY <1>1, Invariance, PTL

\* Neither a missing row nor the pool thread's change of the list ends a process
\* whose user expanded only folders whose children had arrived.
THEOREM HasteFirst == Spec => []EndsOnlyInHaste
<1>1. IInv => EndsOnlyInHaste
  BY DEF IInv, Undisturbed, Unhurried, EndsOnlyInHaste
<1> QED BY <1>1, Invariance, PTL
=============================================================================
