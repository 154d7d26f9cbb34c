--------------------------- MODULE FileTreeProofs ---------------------------
(***************************************************************************)
(* The types, the counts and the marks of FileTree, for every disk, any    *)
(* clicks and whatever order the enumerations end in.                      *)
(***************************************************************************)
EXTENDS FileTreeInvariant, SharedFilesProofs, FiniteSetTheorems

-----------------------------------------------------------------------------
(* What a click adds to the counts above the box *)

\* The loop up to the volume is a recursion that ends.
LEMMA AddedIsRecursive ==
    ASSUME NEW p \in Disk, NEW delta
    PROVE  LET added == AddToSelectedChildrenCount(p, delta)
           IN  added = [n \in 1 .. Len(p) |->
                           IF n = Len(p) THEN delta
                           ELSE PassOn(SubSeq(p, 1, n), added[n + 1])]
<1> DEFINE Solves(f, k) ==
               f = [n \in Len(p) - k .. Len(p) |->
                       IF n = Len(p) THEN delta ELSE PassOn(SubSeq(p, 1, n), f[n + 1])]
           T == {k \in Nat : k < Len(p) /\ ~\E f : Solves(f, k)}
<1>1. Len(p) \in Nat /\ Len(p) > 0
  BY PathTypes
<1>2. T = {}
  <2>1. SUFFICES ASSUME T # {} PROVE FALSE
    OBVIOUS
  <2>2. PICK k \in T : \A m \in T : k <= m
    <3>1. T \subseteq Nat
      OBVIOUS
    <3> HIDE DEF T
    <3> QED BY <2>1, <3>1, LeastNatural
  <2>3. k \in Nat /\ k < Len(p) /\ ~\E f : Solves(f, k)
    OBVIOUS
  <2>4. CASE k = 0
    <3> DEFINE f == [n \in Len(p) - k .. Len(p) |-> delta]
    <3>1. \A n \in Len(p) - k .. Len(p) : n = Len(p)
      BY <1>1, <2>4
    <3>2. Solves(f, k)
      BY <3>1
    <3> QED BY <2>3, <3>2
  <2>5. CASE k # 0
    <3>1. k - 1 \in Nat /\ k - 1 < Len(p) /\ ~(k <= k - 1)
      BY <1>1, <2>3, <2>5
    <3>2. k - 1 \notin T
      BY <2>2, <3>1
    <3>3. PICK f : Solves(f, k - 1)
      BY <3>1, <3>2
    <3> DEFINE g == [n \in Len(p) - k .. Len(p) |->
                        IF n = Len(p) - k THEN PassOn(SubSeq(p, 1, n), f[n + 1]) ELSE f[n]]
    <3>4. ASSUME NEW n \in Len(p) - k .. Len(p)
          PROVE  g[n] = IF n = Len(p) THEN delta ELSE PassOn(SubSeq(p, 1, n), g[n + 1])
      <4>1. n # Len(p) => n + 1 \in Len(p) - k .. Len(p) /\ n + 1 # Len(p) - k
        BY <1>1, <2>3
      <4>2. n # Len(p) => g[n + 1] = f[n + 1]
        BY <4>1
      <4>3. CASE n = Len(p) - k
        <5>1. n # Len(p)
          BY <1>1, <2>3, <2>5, <4>3
        <5> QED BY <4>2, <4>3, <5>1
      <4>4. CASE n # Len(p) - k
        <5>1. n \in Len(p) - (k - 1) .. Len(p)
          BY <1>1, <2>3, <4>4
        <5>2. f[n] = IF n = Len(p) THEN delta ELSE PassOn(SubSeq(p, 1, n), f[n + 1])
          BY <3>3, <5>1
        <5> QED BY <4>2, <4>4, <5>2
      <4> QED BY <4>3, <4>4
    <3>5. Solves(g, k)
      BY <3>4
    <3> QED BY <2>3, <3>5
  <2> QED BY <2>4, <2>5
<1>3. PICK f : Solves(f, Len(p) - 1)
  <2>1. Len(p) - 1 \in Nat /\ Len(p) - 1 < Len(p)
    BY <1>1
  <2> QED BY <1>2, <2>1
<1>4. Len(p) - (Len(p) - 1) = 1
  BY <1>1
<1> HIDE DEF T
<1>5. f = [n \in 1 .. Len(p) |->
              IF n = Len(p) THEN delta ELSE PassOn(SubSeq(p, 1, n), f[n + 1])]
  BY <1>3, <1>4
<1> QED BY <1>5, Zenon DEF AddToSelectedChildrenCount

\* The counts change by integers.
LEMMA AddedIsInteger ==
    ASSUME NEW p \in Disk, NEW delta \in Int, NEW n \in 1 .. Len(p)
    PROVE  AddToSelectedChildrenCount(p, delta)[n] \in Int
<1> DEFINE added == AddToSelectedChildrenCount(p, delta)
           T == {k \in Nat : k < Len(p) /\ added[Len(p) - k] \notin Int}
<1>1. Len(p) \in Nat /\ Len(p) > 0
  BY PathTypes
<1>2. \A m \in 1 .. Len(p) :
          added[m] = IF m = Len(p) THEN delta ELSE PassOn(SubSeq(p, 1, m), added[m + 1])
  BY AddedIsRecursive
<1> HIDE DEF added
<1>3. SUFFICES ASSUME added[n] \notin Int PROVE FALSE
  BY DEF added
<1>4. T \subseteq Nat /\ Len(p) - n \in T
  <2>1. Len(p) - n \in Nat /\ Len(p) - n < Len(p) /\ Len(p) - (Len(p) - n) = n
    BY <1>1
  <2> QED BY <1>3, <2>1
<1>5. PICK k \in T : \A m \in T : k <= m
  <2> HIDE DEF T
  <2> QED BY <1>4, LeastNatural
<1>6. k \in Nat /\ k < Len(p) /\ added[Len(p) - k] \notin Int
  OBVIOUS
<1>7. k # 0 => added[Len(p) - (k - 1)] \in Int
  <2>1. k # 0 => k - 1 \in Nat /\ k - 1 < Len(p) /\ ~(k <= k - 1)
    BY <1>1, <1>6
  <2> QED BY <1>5, <2>1
<1>8. Len(p) - k \in 1 .. Len(p) /\ (k # 0 => (Len(p) - k) + 1 = Len(p) - (k - 1))
      /\ (k # 0 => Len(p) - k # Len(p))
  BY <1>1, <1>6
<1>9. \A q, count : count \in Int => PassOn(q, count) \in Int
  BY DEF PassOn, One
<1>10. CASE k = 0
  <2>1. Len(p) - k = Len(p)
    BY <1>1, <1>10
  <2> QED BY <1>2, <1>6, <1>8, <2>1
<1>11. CASE k # 0
  BY <1>2, <1>6, <1>7, <1>8, <1>9, <1>11
<1> QED BY <1>10, <1>11

LEMMA DisjointUnion ==
    ASSUME NEW S, NEW T, IsFiniteSet(S), IsFiniteSet(T), S \cap T = {}
    PROVE  Cardinality(S \cup T) = Cardinality(S) + Cardinality(T)
<1>1. Cardinality(S \cup T) = Cardinality(S) + Cardinality(T) - Cardinality(S \cap T)
  BY FS_Union
<1>2. Cardinality(S \cap T) = 0
  BY FS_EmptySet
<1>3. Cardinality(S) \in Nat /\ Cardinality(T) \in Nat
  BY FS_CardinalityType
<1> QED BY <1>1, <1>2, <1>3

-----------------------------------------------------------------------------
(* What is above what *)

\* EnumerateFiles(p) is what has the parent p.
LEMMA ChildOf ==
    ASSUME NEW p \in Folders, NEW c \in Disk
    PROVE  /\ c \in EnumerateFiles(p) <=> RemoveLastPathComponent(c) = p
           /\ c \in EnumerateFiles(p) => IsAbove(p, c)
<1>1. p \in Seq(Component) /\ Len(p) \in Nat /\ Len(p) > 0
  BY OnDisk, PathTypes
<1>2. c \in Seq(Component) /\ Len(c) \in Nat /\ Len(c) > 0
  BY PathTypes
<1>3. Len(RemoveLastPathComponent(c)) = Len(c) - 1
  <2>1. Len(c) - 1 \in 0 .. Len(c) /\ 0 \in 0 .. Len(c) - 1
    BY <1>2
  <2> QED BY <1>2, <2>1, PrefixOfPrefix DEF RemoveLastPathComponent
<1>4. RemoveLastPathComponent(c) = p => Len(c) = Len(p) + 1
  BY <1>1, <1>2, <1>3
<1>5. Len(c) = Len(p) + 1 => Len(p) < Len(c) /\ Len(c) - 1 = Len(p)
  BY <1>1, <1>2
<1> QED BY <1>4, <1>5 DEF EnumerateFiles, IsAbove, RemoveLastPathComponent

\* What is above a box is its folder, or above that.
LEMMA AboveChild ==
    ASSUME NEW p \in Folders, NEW q \in Folders, NEW c \in EnumerateFiles(p)
    PROVE  IsAbove(q, c) <=> q \in {p} \cup Above(p)
<1>1. /\ p \in Seq(Component) /\ Len(p) \in Nat /\ Len(p) > 0
      /\ q \in Seq(Component) /\ Len(q) \in Nat /\ Len(q) > 0
  BY OnDisk, PathTypes
<1>2. /\ c \in Seq(Component) /\ Len(c) \in Nat
      /\ Len(c) = Len(p) + 1 /\ SubSeq(c, 1, Len(p)) = p
  <2>1. c \in Disk /\ IsAbove(p, c) /\ Len(c) = Len(p) + 1
    BY ChildOf DEF EnumerateFiles
  <2> QED BY <2>1, PathTypes DEF IsAbove
<1>3. CASE Len(q) <= Len(p)
  <2>1. SubSeq(c, 1, Len(q)) = SubSeq(p, 1, Len(q))
    <3>1. Len(p) \in 0 .. Len(c) /\ Len(q) \in 0 .. Len(p)
      BY <1>1, <1>2, <1>3
    <3> QED BY <1>2, <3>1, PrefixOfPrefix
  <2>2. Len(q) = Len(p) => SubSeq(p, 1, Len(q)) = p
    BY <1>1
  <2>3. Len(q) < Len(c) /\ (Len(q) < Len(p) <=> Len(q) # Len(p))
    BY <1>1, <1>2, <1>3
  <2> QED BY <2>1, <2>2, <2>3 DEF IsAbove, Above
<1>4. CASE ~(Len(q) <= Len(p))
  BY <1>1, <1>2, <1>4 DEF IsAbove, Above
<1> QED BY <1>3, <1>4

\* A path that lies below another is that path with more components.
LEMMA AboveIsPrefix ==
    ASSUME NEW q \in Disk, NEW c \in Disk
    PROVE  IsAbove(q, c) <=> /\ Len(q) \in 1 .. Len(c) - 1
                             /\ SubSeq(c, 1, Len(q)) = q
<1>1. Len(q) \in Nat /\ Len(q) > 0 /\ Len(c) \in Nat
  BY PathTypes
<1>2. Len(q) < Len(c) <=> Len(q) \in 1 .. Len(c) - 1
  BY <1>1
<1> QED BY <1>2 DEF IsAbove

LEMMA AboveIsFolder ==
    ASSUME NEW q \in Disk, NEW c \in Disk, IsAbove(q, c)
    PROVE  /\ q \in Folders
           /\ RemoveLastPathComponent(c) \in Folders
           /\ q # c /\ Len(c) # 1
<1>1. Len(q) \in 1 .. Len(c) - 1 /\ SubSeq(c, 1, Len(q)) = q /\ Len(c) \in Nat
  BY AboveIsPrefix, PathTypes
<1>2. Len(c) > 1 /\ Len(q) # Len(c)
  BY <1>1
<1>3. q # c
  BY <1>2
<1>4. Len(c) # 1
  <2>1. \A n \in Nat : n > 1 => n # 1
    OBVIOUS
  <2> QED BY <1>1, <1>2, <2>1, Zenon
<1> QED BY <1>1, <1>2, <1>3, <1>4, PrefixIsFolder, ParentIsFolder DEF RemoveLastPathComponent

LEMMA AboveIsTransitive ==
    ASSUME NEW q \in Disk, NEW r \in Disk, NEW c \in Disk, IsAbove(q, r), IsAbove(r, c)
    PROVE  IsAbove(q, c)
<1>1. /\ Len(q) \in 1 .. Len(r) - 1 /\ SubSeq(r, 1, Len(q)) = q
      /\ Len(r) \in 1 .. Len(c) - 1 /\ SubSeq(c, 1, Len(r)) = r
      /\ c \in Seq(Component) /\ Len(c) \in Nat
  BY AboveIsPrefix, PathTypes
<1>2. Len(r) \in 0 .. Len(c) /\ Len(q) \in 0 .. Len(r) /\ Len(q) \in 1 .. Len(c) - 1
  BY <1>1
<1>3. SubSeq(SubSeq(c, 1, Len(r)), 1, Len(q)) = SubSeq(c, 1, Len(q))
  BY <1>1, <1>2, PrefixOfPrefix
<1> QED BY <1>1, <1>2, <1>3, AboveIsPrefix

\* Of two folders above a path one is above the other.
LEMMA AboveIsLinear ==
    ASSUME NEW q \in Disk, NEW r \in Disk, NEW c \in Disk, IsAbove(q, c), IsAbove(r, c)
    PROVE  q = r \/ IsAbove(q, r) \/ IsAbove(r, q)
<1>1. /\ Len(q) \in 1 .. Len(c) - 1 /\ SubSeq(c, 1, Len(q)) = q
      /\ Len(r) \in 1 .. Len(c) - 1 /\ SubSeq(c, 1, Len(r)) = r
      /\ c \in Seq(Component) /\ Len(c) \in Nat
  BY AboveIsPrefix, PathTypes
<1>2. ASSUME NEW a \in Disk, NEW b \in Disk,
             Len(a) \in 1 .. Len(c) - 1, SubSeq(c, 1, Len(a)) = a,
             Len(b) \in 1 .. Len(c) - 1, SubSeq(c, 1, Len(b)) = b, Len(a) < Len(b)
      PROVE  IsAbove(a, b)
  <2>1. Len(b) \in 0 .. Len(c) /\ Len(a) \in 0 .. Len(b) /\ Len(a) \in 1 .. Len(b) - 1
    BY <1>1, <1>2
  <2>2. SubSeq(SubSeq(c, 1, Len(b)), 1, Len(a)) = SubSeq(c, 1, Len(a))
    BY <1>1, <2>1, PrefixOfPrefix
  <2> QED BY <1>2, <2>1, <2>2, AboveIsPrefix
<1>3. Len(q) = Len(r) \/ Len(q) < Len(r) \/ Len(r) < Len(q)
  <2>1. \A m, n \in Nat : m = n \/ m < n \/ n < m
    OBVIOUS
  <2> QED BY <2>1, PathTypes, Zenon
<1> QED BY <1>1, <1>2, <1>3

\* What is above a path is its folder or above it.
LEMMA AboveParent ==
    ASSUME NEW q \in Disk, NEW c \in Disk, IsAbove(q, c)
    PROVE  \/ q = RemoveLastPathComponent(c)
           \/ IsAbove(q, RemoveLastPathComponent(c))
<1>1. RemoveLastPathComponent(c) \in Folders /\ q \in Folders
  BY AboveIsFolder
<1>2. c \in EnumerateFiles(RemoveLastPathComponent(c))
  BY <1>1, ChildOf
<1> QED BY <1>1, <1>2, AboveChild DEF Above

-----------------------------------------------------------------------------
(* Boxes, and those that are counted *)

\* A box is found by way of the boxes above it.
LEMMA BoxesAreReached ==
    ASSUME GrowthInv, NEW c \in Boxes, NEW q \in Disk, IsAbove(q, c)
    PROVE  q \in Boxes /\ HasArrived(q)
<1> DEFINE T == {n \in Nat : \E d \in Boxes : n = Len(d) /\ IsAbove(q, d)}
<1>1. \A d \in Boxes : d \in Disk /\ Len(d) \in Nat
  BY PathTypes DEF Boxes, GrowthInv, TypeOK
<1>2. PICK n \in T : \A m \in T : n <= m
  <2>1. T \subseteq Nat /\ Len(c) \in T
    BY <1>1
  <2> HIDE DEF T
  <2> QED BY <2>1, LeastNatural
<1>3. PICK d \in Boxes : n = Len(d) /\ IsAbove(q, d)
  OBVIOUS
<1> DEFINE parent == RemoveLastPathComponent(d)
<1>4. /\ d \in Disk /\ parent \in Folders /\ Len(d) # 1
      /\ q = parent \/ IsAbove(q, parent)
  BY <1>1, <1>3, AboveIsFolder, AboveParent
<1>5. parent \in Boxes /\ HasArrived(parent)
  BY <1>4 DEF Boxes, GrowthInv, Grows, HasArrived, IsCounting
<1>6. IsAbove(parent, d) /\ Len(parent) \in Nat
  BY <1>4, OnDisk, ChildOf, PathTypes
<1>7. ~IsAbove(q, parent)
  <2>1. IsAbove(q, parent) => Len(parent) \in T
    BY <1>5, <1>6
  <2>2. ~(n <= Len(parent))
    BY <1>1, <1>3, <1>6 DEF IsAbove
  <2> QED BY <1>2, <2>1, <2>2
<1> QED BY <1>4, <1>5, <1>7

\* What is counted below a path.
LEMMA CountedAreBoxes ==
    ASSUME GrowthInv, NEW q \in Disk
    PROVE  /\ Counted(q) = {c \in Boxes : /\ IsAbove(q, c)
                                          /\ IsCounted(RemoveLastPathComponent(c))}
           /\ Counted(q) \subseteq Disk
           /\ IsFiniteSet(Counted(q))
           /\ Counted(q) # {} => q \in Folders
           /\ q \notin Counted(q)
<1>1. Counted(q) \subseteq Disk
  BY DEF Counted, GrowthInv, TypeOK
<1>2. ASSUME NEW c \in Counted(q)
      PROVE  c \in Boxes /\ q \in Folders /\ q # c
  BY <1>1, AboveIsFolder DEF Counted, IsCounted, Boxes, HasArrived, IsCounting
<1>3. IsFiniteSet(Counted(q))
  BY <1>1, FiniteDiskAssumption, FS_Subset
<1> QED BY <1>1, <1>2, <1>3 DEF Counted, Boxes

LEMMA CountedBelow ==
    ASSUME GrowthInv, NEW q \in Disk, NEW r \in Disk, IsAbove(q, r)
    PROVE  Counted(r) \subseteq Counted(q)
<1> SUFFICES ASSUME NEW c \in Counted(r)
             PROVE  IsAbove(q, c)
  BY DEF Counted
<1>1. c \in Disk /\ IsAbove(r, c)
  BY CountedAreBoxes DEF Counted
<1> QED BY <1>1, AboveIsTransitive

\* A box in a folder whose children were counted.
LEMMA BoxIsCounted ==
    ASSUME GrowthInv, NEW q \in Disk, children[q] \notin {"uncounted", "adding"},
           NEW c \in Boxes, IsAbove(q, c)
    PROVE  c \in Counted(q)
<1> DEFINE parent == RemoveLastPathComponent(c)
<1>1. c \in Disk
  BY DEF Boxes, GrowthInv, TypeOK
<1>2. parent \in Folders
  BY <1>1, AboveIsFolder
<1>3. Len(c) # 1
  BY <1>1, AboveIsFolder
<1>4. HasArrived(parent)
  BY <1>3 DEF Boxes
<1>5. children[parent] \notin {"uncounted", "adding"}
  <2>1. q = parent \/ IsAbove(q, parent)
    BY <1>1, AboveParent
  <2>2. IsAbove(q, parent) => Len(parent) # 1
    BY <1>2, OnDisk, AboveIsFolder
  <2> QED BY <1>2, <2>1, <2>2 DEF GrowthInv, Grows, IsCounting
<1> QED BY <1>4, <1>5 DEF Counted, IsCounted, Boxes, HasArrived, IsCounting

\* The same folders are counted.
LEMMA CountedAsBefore ==
    ASSUME GrowthInv, UNCHANGED built, \A q \in Folders : IsCounted(q)' <=> IsCounted(q)
    PROVE  \A q \in Folders : Counted(q)' = Counted(q)
<1> SUFFICES ASSUME NEW q \in Folders, NEW c \in built, IsAbove(q, c)
             PROVE  RemoveLastPathComponent(c) \in Folders
  BY DEF Counted
<1> QED BY OnDisk, AboveIsFolder DEF GrowthInv, TypeOK

\* One folder more is counted.
LEMMA CountedWithChildren ==
    ASSUME GrowthInv, UNCHANGED built, NEW p \in Folders,
           ~IsCounted(p), NEW counted \in {"added", "loaded"},
           children' = [children EXCEPT ![p] = counted],
           EnumerateFiles(p) \subseteq built, NEW q \in Folders
    PROVE  /\ Cardinality(Counted(q)) \in Nat /\ Cardinality(EnumerateFiles(p)) \in Nat
           /\ IF q \in {p} \cup Above(p)
              THEN /\ Counted(q)' = Counted(q) \cup EnumerateFiles(p)
                   /\ Cardinality(Counted(q)') =
                          Cardinality(Counted(q)) + Cardinality(EnumerateFiles(p))
              ELSE Counted(q)' = Counted(q)
<1>1. Counted(q)' = Counted(q) \cup {c \in EnumerateFiles(p) : IsAbove(q, c)}
  <2>1. ASSUME NEW c \in built, IsAbove(q, c)
        PROVE  IsCounted(RemoveLastPathComponent(c))'
                   <=> IsCounted(RemoveLastPathComponent(c)) \/ c \in EnumerateFiles(p)
    <3>1. c \in Disk
      BY DEF GrowthInv, TypeOK
    <3>2. RemoveLastPathComponent(c) \in Folders
      BY <2>1, <3>1, OnDisk, AboveIsFolder
    <3>3. RemoveLastPathComponent(c) = p <=> c \in EnumerateFiles(p)
      BY <3>1, ChildOf DEF EnumerateFiles
    <3> QED BY <3>2, <3>3 DEF GrowthInv, TypeOK, IsCounted
  <2>2. EnumerateFiles(p) \subseteq built
    OBVIOUS
  <2> QED BY <2>1, <2>2 DEF Counted
<1>2. {c \in EnumerateFiles(p) : IsAbove(q, c)} =
          IF q \in {p} \cup Above(p) THEN EnumerateFiles(p) ELSE {}
  BY AboveChild
<1>3. Counted(q) \cap EnumerateFiles(p) = {}
  <2>1. \A c \in EnumerateFiles(p) : RemoveLastPathComponent(c) = p
    BY DEF EnumerateFiles
  <2> QED BY <2>1 DEF Counted
<1>4. /\ IsFiniteSet(Counted(q)) /\ IsFiniteSet(EnumerateFiles(p))
      /\ Cardinality(Counted(q)) \in Nat /\ Cardinality(EnumerateFiles(p)) \in Nat
  BY FiniteDiskAssumption, OnDisk, CountedAreBoxes, FS_Subset, FS_CardinalityType
     DEF EnumerateFiles
<1>5. Cardinality(Counted(q) \cup EnumerateFiles(p))
          = Cardinality(Counted(q)) + Cardinality(EnumerateFiles(p))
  BY <1>3, <1>4, DisjointUnion
<1> QED BY <1>1, <1>2, <1>4, <1>5

-----------------------------------------------------------------------------
(* The growth of the tree *)

LEMMA InitGrowth == Init => GrowthInv
<1> SUFFICES ASSUME Init PROVE GrowthInv
  OBVIOUS
<1>1. \A p \in Volumes : p \in Folders
  BY DiskAssumption DEF Volumes
<1>2. Cardinality(Disk) \in Nat
  BY FiniteDiskAssumption, FS_CardinalityType
<1>3. TypeOK
  BY <1>1, <1>2, MaxClicksAssumption DEF Init, TypeOK, CheckMark, Volumes
<1>4. Grows
  <2>1. ASSUME NEW p \in Folders, NEW c \in EnumerateFiles(p)
        PROVE  c \notin Volumes
    BY OnDisk, AboveIsFolder, ChildOf DEF EnumerateFiles, Volumes
  <2> QED BY <2>1 DEF Init, Grows, HasArrived, IsCounting, Boxes, Volumes
<1>5. ASSUME NEW p \in Folders
      PROVE  total[p] = Cardinality(Counted(p))
  <2>1. \A c \in Volumes : ~IsAbove(p, c)
    BY OnDisk, AboveIsFolder DEF Volumes
  <2>2. Counted(p) = {}
    BY <2>1 DEF Init, Counted
  <2> QED BY <2>2, OnDisk, FS_EmptySet DEF Init
<1>6. FilesCountNothing
  BY OnDisk DEF Init, FilesCountNothing
<1>7. Cardinality({}) = 0
  BY FS_EmptySet
<1>8. TotalsCountBoxes /\ HeldIsTotal /\ overlapped = {}
  BY <1>5, <1>7, OnDisk DEF Init, TotalsCountBoxes, HeldIsTotal
<1> QED BY <1>3, <1>4, <1>6, <1>8 DEF GrowthInv

LEMMA FitsOnDisk ==
    ASSUME NEW S \in SUBSET Disk
    PROVE  Cardinality(S) \in 0 .. Cardinality(Disk)
<1>1. IsFiniteSet(S) /\ Cardinality(S) <= Cardinality(Disk)
  BY FiniteDiskAssumption, FS_Subset
<1> QED BY <1>1, FiniteDiskAssumption, FS_CardinalityType

\* A folder is counted once, for all the folders above it.
LEMMA ArriveGrowth ==
    ASSUME GrowthInv, NEW p \in Folders, Arrive(p)
    PROVE  GrowthInv'
<1>1. /\ children' \in [Folders -> {"null", "loading", "uncounted", "adding", "added", "loaded"}]
      /\ \A q \in Folders : children'[q] = IF q = p THEN "loaded" ELSE children[q]
      /\ children[p] = "loading"
  BY DEF Arrive, GrowthInv, TypeOK
<1>2. \A q \in Folders : HasArrived(q) => HasArrived(q)'
  BY <1>1 DEF HasArrived, IsCounting
<1>3. Boxes \subseteq Boxes'
  <2>1. \A c \in built : Len(c) = 1 \/ RemoveLastPathComponent(c) \in Folders
    BY DiskAssumption DEF GrowthInv, TypeOK, RemoveLastPathComponent
  <2> QED BY <1>2, <2>1 DEF Arrive, Boxes
<1>4. Grows'
  <2>1. \A q \in expanded' : HasArrived(q)'
    BY <1>2 DEF Arrive, GrowthInv, Grows, TypeOK
  <2> QED BY <1>1, <1>3, <2>1 DEF Arrive, GrowthInv, Grows, HasArrived, IsCounting
<1>5. ASSUME NEW q \in Folders
      PROVE  /\ Cardinality(Counted(q)) \in Nat
             /\ Cardinality(Counted(q)) <= Cardinality(Counted(q)')
             /\ total'[q] <= Cardinality(Counted(q)')
             /\ q \notin overlapped => total'[q] = Cardinality(Counted(q)')
             /\ q \notin {p} \cup Above(p) => total'[q] = total[q]
             /\ Counted(q)' \subseteq Disk
  <2> DEFINE n == Cardinality(EnumerateFiles(p))
             new == Cardinality(Counted(q)')
  <2>1. /\ Cardinality(Counted(q)) \in Nat /\ n \in Nat
        /\ new = IF q \in {p} \cup Above(p) THEN Cardinality(Counted(q)) + n
                 ELSE Cardinality(Counted(q))
    BY <1>1, CountedWithChildren DEF Arrive, IsCounted
  <2>2. total'[q] = IF q \in {p} \cup Above(p) THEN total[q] + n ELSE total[q]
    BY OnDisk DEF Arrive, AddToChildrenCount
  <2>3. /\ total[q] \in Int /\ total[q] <= Cardinality(Counted(q))
        /\ q \notin overlapped => total[q] = Cardinality(Counted(q))
    <3>1. \A m \in 0 .. Cardinality(Disk) : m \in Int
      OBVIOUS
    <3> QED BY <3>1, OnDisk DEF GrowthInv, TypeOK, TotalsCountBoxes
  <2>4. Counted(q)' \subseteq Disk
    BY DEF Arrive, Counted, GrowthInv, TypeOK
  <2> HIDE DEF n, new
  <2>5. /\ Cardinality(Counted(q)) <= new /\ total'[q] <= new
        /\ q \notin overlapped => total'[q] = new
    BY <2>1, <2>2, <2>3
  <2> QED BY <2>1, <2>2, <2>4, <2>5 DEF new
<1>6. \A q \in Files : total'[q] = total[q] /\ selected'[q] = selected[q]
  BY DEF Arrive, AddToChildrenCount, Above, Files
<1>7. overlapped \subseteq overlapped' /\ overlapped' \subseteq Volumes
  <2>1. ASSUME NEW v \in Above(p), children[v] = "adding"
        PROVE  v \in Volumes
    BY <2>1, OnDisk DEF Above, GrowthInv, Grows, IsCounting, Volumes
  <2> QED BY <2>1 DEF Arrive, GrowthInv, TypeOK
<1>8. TotalsCountBoxes' /\ FilesCountNothing'
  BY <1>5, <1>6, <1>7 DEF GrowthInv, TotalsCountBoxes, FilesCountNothing
<1>9. HeldIsTotal'
  <2>1. ASSUME NEW q \in Folders, children'[q] = "adding"
        PROVE  /\ held[q] <= Cardinality(Counted(q)')
               /\ q \notin overlapped' => held[q] = total'[q]
    <3>1. q # p /\ children[q] = "adding"
      BY <1>1, <2>1
    <3>2. held[q] \in Int /\ Cardinality(Counted(q)') \in Int
      <4>1. \A m \in 0 .. Cardinality(Disk) : m \in Int
        OBVIOUS
      <4> QED BY <1>5, <4>1, FitsOnDisk DEF GrowthInv, TypeOK
    <3>3. held[q] <= Cardinality(Counted(q)) /\ (q \notin overlapped => held[q] = total[q])
      BY <3>1 DEF GrowthInv, HeldIsTotal
    <3>4. q \notin overlapped' => q \notin overlapped /\ q \notin {p} \cup Above(p)
      BY <3>1 DEF Arrive
    <3>5. held[q] <= Cardinality(Counted(q)')
      BY <1>5, <3>2, <3>3
    <3> QED BY <1>5, <3>3, <3>4, <3>5
  <2> QED BY <2>1 DEF Arrive, HeldIsTotal
<1>10. overlapped' # {} => "raced" \in disturbed'
  <2>1. CASE overlapped # {}
    BY <2>1 DEF Arrive, GrowthInv
  <2>2. CASE overlapped = {}
    BY <2>2 DEF Arrive
  <2> QED BY <2>1, <2>2
<1>11. TypeOK'
  <2>1. \A q \in Folders : total'[q] \in 0 .. Cardinality(Disk)
    <3>1. ASSUME NEW q \in Folders PROVE total'[q] \in 0 .. Cardinality(Disk)
      <4>1. Cardinality(Counted(q)') \in 0 .. Cardinality(Disk)
        BY <1>5, FitsOnDisk
      <4>2. total'[q] \in Nat
        <5>1. total[q] \in Nat
          <6>1. \A m \in 0 .. Cardinality(Disk) : m \in Nat
            OBVIOUS
          <6> QED BY <6>1, OnDisk DEF GrowthInv, TypeOK
        <5>2. Cardinality(EnumerateFiles(p)) \in Nat
          BY FiniteDiskAssumption, FS_Subset, FS_CardinalityType DEF EnumerateFiles
        <5> QED BY <5>1, <5>2, OnDisk DEF Arrive, AddToChildrenCount
      <4> QED BY <1>5, <4>1, <4>2, FiniteDiskAssumption, FS_CardinalityType
    <3> QED BY <3>1
  <2>2. total' \in [Disk -> 0 .. Cardinality(Disk)]
    BY <1>6, <2>1 DEF Arrive, AddToChildrenCount, GrowthInv, TypeOK, Files
  <2>3. selected' \in [Disk -> Int]
    BY <2>2 DEF Arrive, AddToChildrenCount, GrowthInv, TypeOK
  <2>4. disturbed' \subseteq {"late", "unselected", "raced"}
    BY DEF Arrive, GrowthInv, TypeOK
  <2> QED BY <1>1, <1>2, <1>7, <2>2, <2>3, <2>4 DEF Arrive, GrowthInv, TypeOK
<1> QED BY <1>4, <1>8, <1>9, <1>10, <1>11 DEF GrowthInv

LEMMA ConstructChildGrowth ==
    ASSUME GrowthInv, NEW p \in Folders, NEW c \in Disk, ConstructChild(p, c)
    PROVE  /\ GrowthInv'
           /\ \A q \in Folders : Counted(q)' = Counted(q)
           /\ Boxes' = Boxes
<1>1. /\ RemoveLastPathComponent(c) = p /\ children[p] = "loading"
      /\ Len(c) # 1 /\ c \in Disk /\ c \in EnumerateFiles(p)
  BY OnDisk, ChildOf, AboveIsFolder DEF ConstructChild, EnumerateFiles
<1>2. ASSUME NEW q \in Folders
      PROVE  Counted(q)' = Counted(q)
  BY <1>1 DEF ConstructChild, Counted, IsCounted
<1>3. Boxes' = Boxes
  BY <1>1 DEF ConstructChild, Boxes, HasArrived, IsCounting
<1>4. TypeOK'
  <2>1. mark[p] \in {"checked", "unchecked"}
    BY <1>1, OnDisk DEF GrowthInv, TypeOK, CheckMark, HasArrived, IsCounting
  <2> QED BY <2>1
       DEF ConstructChild, GrowthInv, TypeOK, CheckMark, HasArrived, IsCounting, counts, pool
<1>5. Grows'
  <2>1. \A q \in Folders : children[q] = "null" => EnumerateFiles(q) \cap built' = {}
    BY <1>1 DEF ConstructChild, GrowthInv, Grows, EnumerateFiles
  <2> QED BY <1>3, <2>1 DEF ConstructChild, GrowthInv, Grows, HasArrived, IsCounting
<1>6. /\ TotalsCountBoxes' /\ FilesCountNothing' /\ HeldIsTotal'
      /\ overlapped' # {} => "raced" \in disturbed'
  BY <1>2
     DEF ConstructChild, GrowthInv, TotalsCountBoxes, FilesCountNothing, HeldIsTotal, counts, pool
<1> QED BY <1>2, <1>3, <1>4, <1>5, <1>6 DEF GrowthInv

LEMMA ArriveInVolumeGrowth ==
    ASSUME GrowthInv, NEW p \in Folders, ArriveInVolume(p)
    PROVE  GrowthInv'
<1>1. /\ children' \in [Folders -> {"null", "loading", "uncounted", "adding", "added", "loaded"}]
      /\ \A q \in Folders : children'[q] = IF q = p THEN "uncounted" ELSE children[q]
      /\ children[p] = "loading"
  BY DEF ArriveInVolume, GrowthInv, TypeOK
<1>2. \A q \in Folders : HasArrived(q) => HasArrived(q)'
  BY <1>1 DEF HasArrived, IsCounting
<1>3. Boxes \subseteq Boxes'
  <2>1. \A c \in built : Len(c) = 1 \/ RemoveLastPathComponent(c) \in Folders
    BY DiskAssumption DEF GrowthInv, TypeOK, RemoveLastPathComponent
  <2> QED BY <1>2, <2>1 DEF ArriveInVolume, Boxes
<1>4. Grows'
  <2>1. \A q \in expanded' : HasArrived(q)'
    BY <1>2 DEF ArriveInVolume, GrowthInv, Grows, TypeOK
  <2> QED BY <1>1, <1>3, <2>1 DEF ArriveInVolume, GrowthInv, Grows, HasArrived, IsCounting
<1>5. \A q \in Folders : Counted(q)' = Counted(q)
  BY <1>1, CountedAsBefore DEF ArriveInVolume, IsCounted
<1>6. TypeOK'
  BY <1>1, <1>2 DEF ArriveInVolume, GrowthInv, TypeOK, counts, pool
<1>7. /\ TotalsCountBoxes' /\ FilesCountNothing' /\ HeldIsTotal'
      /\ overlapped' # {} => "raced" \in disturbed'
  BY <1>1, <1>5
     DEF ArriveInVolume, GrowthInv, TotalsCountBoxes, FilesCountNothing, HeldIsTotal, counts, pool
<1> QED BY <1>4, <1>6, <1>7 DEF GrowthInv

\* A step of a volume's pool thread neither adds boxes nor changes their marks.
LEMMA PoolThreadStep ==
    ASSUME GrowthInv, NEW p \in Folders, IsCounting(p), NEW next \in {"adding", "added", "loaded"},
           children' = [children EXCEPT ![p] = next], UNCHANGED <<built, mark, expanded>>
    PROVE  /\ children' \in [Folders ->
                  {"null", "loading", "uncounted", "adding", "added", "loaded"}]
           /\ \A q \in Folders : children'[q] = IF q = p THEN next ELSE children[q]
           /\ \A q \in Folders : HasArrived(q)' <=> HasArrived(q)
           /\ Boxes' = Boxes /\ Grows'
           /\ p \in Disk /\ p \in Boxes /\ HasArrived(p) /\ EnumerateFiles(p) \subseteq built
           /\ Above(p) = {}
           /\ Agreement => MarkedAlike' /\ ChildrenTakeMark'
<1>1. /\ children' \in [Folders -> {"null", "loading", "uncounted", "adding", "added", "loaded"}]
      /\ \A q \in Folders : children'[q] = IF q = p THEN next ELSE children[q]
  BY DEF GrowthInv, TypeOK
<1>2. \A q \in Folders : HasArrived(q)' <=> HasArrived(q)
  BY <1>1 DEF HasArrived, IsCounting
<1>3. Boxes' = Boxes
  <2>1. \A c \in built : Len(c) = 1 \/ RemoveLastPathComponent(c) \in Folders
    BY DiskAssumption DEF GrowthInv, TypeOK, RemoveLastPathComponent
  <2> QED BY <1>2, <2>1 DEF Boxes
<1>4. \A q \in Folders : IsCounting(q)' => IsCounting(q)
  BY <1>1 DEF IsCounting
<1>5. Grows'
  <2>1. \A q \in expanded' : HasArrived(q)'
    BY <1>2 DEF GrowthInv, Grows, TypeOK
  <2>2. \A q \in Folders : children'[q] = "null" <=> children[q] = "null"
    BY <1>1 DEF IsCounting
  <2> QED BY <1>2, <1>3, <1>4, <2>1, <2>2 DEF GrowthInv, Grows
<1>6. /\ p \in Disk /\ p \in Boxes /\ HasArrived(p) /\ EnumerateFiles(p) \subseteq built
      /\ Len(p) = 1
  BY OnDisk DEF GrowthInv, Grows, HasArrived, IsCounting
<1>7. Above(p) = {}
  <2>1. ASSUME NEW q \in Above(p) PROVE FALSE
    BY <1>6, OnDisk, AboveIsFolder DEF Above
  <2> QED BY <2>1
<1>8. Agreement => MarkedAlike' /\ ChildrenTakeMark'
  <2>1. \A q \in Folders : children'[q] = "loading" <=> children[q] = "loading"
    BY <1>1 DEF IsCounting
  <2> QED BY <1>3, <1>4, <2>1 DEF Agreement, MarkedAlike, ChildrenTakeMark
<1> QED BY <1>1, <1>2, <1>3, <1>5, <1>6, <1>7, <1>8

LEMMA ReadVolumeTotalGrowth ==
    ASSUME GrowthInv, NEW p \in Folders, ReadVolumeTotal(p)
    PROVE  /\ GrowthInv'
           /\ \A q \in Folders : Counted(q)' = Counted(q)
<1>1. IsCounting(p)
  BY DEF ReadVolumeTotal, IsCounting
<1>2. /\ children' \in [Folders -> {"null", "loading", "uncounted", "adding", "added", "loaded"}]
      /\ \A q \in Folders : children'[q] = IF q = p THEN "adding" ELSE children[q]
      /\ \A q \in Folders : HasArrived(q)' <=> HasArrived(q)
      /\ Grows' /\ p \in Disk
  BY <1>1, PoolThreadStep DEF ReadVolumeTotal
<1>3. \A q \in Folders : Counted(q)' = Counted(q)
  BY <1>2, CountedAsBefore DEF ReadVolumeTotal, IsCounted
<1>4. held' \in [Folders -> 0 .. Cardinality(Disk)]
      /\ \A q \in Folders : held'[q] = IF q = p THEN total[p] ELSE held[q]
  BY <1>2 DEF ReadVolumeTotal, GrowthInv, TypeOK
<1>5. TypeOK'
  BY <1>2, <1>4 DEF ReadVolumeTotal, GrowthInv, TypeOK, counts
<1>6. /\ TotalsCountBoxes' /\ FilesCountNothing'
      /\ overlapped' # {} => "raced" \in disturbed'
  BY <1>3 DEF ReadVolumeTotal, GrowthInv, TotalsCountBoxes, FilesCountNothing, counts
<1>7. HeldIsTotal'
  BY <1>2, <1>3, <1>4 DEF ReadVolumeTotal, GrowthInv, TotalsCountBoxes, HeldIsTotal, counts
<1> QED BY <1>2, <1>3, <1>5, <1>6, <1>7 DEF GrowthInv

LEMMA WriteVolumeTotalGrowth ==
    ASSUME GrowthInv, NEW p \in Folders, WriteVolumeTotal(p)
    PROVE  GrowthInv'
<1>1. IsCounting(p)
  BY DEF WriteVolumeTotal, IsCounting
<1>2. /\ children' \in [Folders -> {"null", "loading", "uncounted", "adding", "added", "loaded"}]
      /\ \A q \in Folders : children'[q] = IF q = p THEN "added" ELSE children[q]
      /\ \A q \in Folders : HasArrived(q)' <=> HasArrived(q)
      /\ Grows' /\ p \in Disk /\ Above(p) = {} /\ EnumerateFiles(p) \subseteq built
  BY <1>1, PoolThreadStep DEF WriteVolumeTotal
<1>3. \A q \in Disk \ {p} : total'[q] = total[q]
  BY DEF WriteVolumeTotal, GrowthInv, TypeOK
<1>4. ASSUME NEW q \in Folders
      PROVE  /\ Cardinality(Counted(q)) \in Nat /\ Cardinality(EnumerateFiles(p)) \in Nat
             /\ IF q = p
                THEN Cardinality(Counted(q)') =
                         Cardinality(Counted(q)) + Cardinality(EnumerateFiles(p))
                ELSE Counted(q)' = Counted(q)
             /\ Counted(q)' \subseteq Disk
  <2>1. ~IsCounted(p)
    BY DEF WriteVolumeTotal, IsCounted
  <2>2. Counted(q)' \subseteq Disk
    BY DEF WriteVolumeTotal, Counted, GrowthInv, TypeOK
  <2> QED BY <1>2, <2>1, <2>2, CountedWithChildren DEF WriteVolumeTotal
<1>5. \A m \in 0 .. Cardinality(Disk) : m \in Nat
  OBVIOUS
<1>6. total[p] \in Nat /\ held[p] \in Nat
  BY <1>2, <1>5 DEF GrowthInv, TypeOK
<1>7. /\ total'[p] \in Nat
      /\ total'[p] <= Cardinality(Counted(p)')
      /\ p \notin overlapped => total'[p] = Cardinality(Counted(p)')
  <2> DEFINE n == Cardinality(EnumerateFiles(p))
             old == Cardinality(Counted(p))
             new == Cardinality(Counted(p)')
  <2>1. old \in Nat /\ n \in Nat /\ new = old + n
    BY <1>4
  <2>2. /\ held[p] <= old /\ (p \notin overlapped => held[p] = total[p])
        /\ total[p] <= old /\ (p \notin overlapped => total[p] = old)
    BY DEF WriteVolumeTotal, GrowthInv, HeldIsTotal, TotalsCountBoxes
  <2>3. total'[p] = held[p] + n \/ (p \in overlapped /\ total'[p] = total[p])
    BY <1>2 DEF WriteVolumeTotal, GrowthInv, TypeOK
  <2> HIDE DEF n, old, new
  <2>4. total'[p] \in Nat /\ total'[p] <= new /\ (p \notin overlapped => total'[p] = new)
    BY <1>6, <2>1, <2>2, <2>3
  <2> QED BY <2>4 DEF new
<1>8. TotalsCountBoxes'
  <2>1. ASSUME NEW q \in Folders
        PROVE  /\ total'[q] <= Cardinality(Counted(q)')
               /\ q \notin overlapped' => total'[q] = Cardinality(Counted(q)')
    <3>1. CASE q = p
      BY <1>7, <3>1 DEF WriteVolumeTotal
    <3>2. CASE q # p
      BY <1>3, <1>4, <3>2, OnDisk DEF WriteVolumeTotal, GrowthInv, TotalsCountBoxes
    <3> QED BY <3>1, <3>2
  <2> QED BY <2>1 DEF TotalsCountBoxes
<1>9. HeldIsTotal'
  <2>1. ASSUME NEW q \in Folders, children'[q] = "adding"
        PROVE  /\ held'[q] <= Cardinality(Counted(q)')
               /\ q \notin overlapped' => held'[q] = total'[q]
    <3>1. q # p /\ children[q] = "adding"
      BY <1>2, <2>1
    <3>2. held'[q] = held[q]
      BY <3>1 DEF WriteVolumeTotal, GrowthInv, TypeOK
    <3> QED BY <1>3, <1>4, <3>1, <3>2, OnDisk DEF WriteVolumeTotal, GrowthInv, HeldIsTotal
  <2> QED BY <2>1 DEF HeldIsTotal
<1>10. FilesCountNothing' /\ (overlapped' # {} => "raced" \in disturbed')
  <2>1. \A f \in Files : total'[f] = total[f]
    BY <1>3 DEF Files
  <2> QED BY <2>1 DEF WriteVolumeTotal, GrowthInv, FilesCountNothing
<1>11. TypeOK'
  <2>1. total'[p] \in 0 .. Cardinality(Disk)
    <3>1. Cardinality(Counted(p)') \in 0 .. Cardinality(Disk)
      BY <1>4, FitsOnDisk
    <3> QED BY <1>7, <3>1, FiniteDiskAssumption, FS_CardinalityType
  <2>2. total' = [q \in Disk |-> total'[q]]
    BY DEF WriteVolumeTotal, GrowthInv, TypeOK
  <2>3. total' \in [Disk -> 0 .. Cardinality(Disk)]
    BY <1>3, <2>1, <2>2 DEF GrowthInv, TypeOK
  <2>4. held' \in [Folders -> 0 .. Cardinality(Disk)]
    <3>1. 0 \in 0 .. Cardinality(Disk)
      BY FiniteDiskAssumption, FS_CardinalityType
    <3> QED BY <3>1 DEF WriteVolumeTotal, GrowthInv, TypeOK
  <2> QED BY <1>2, <2>3, <2>4 DEF WriteVolumeTotal, GrowthInv, TypeOK
<1> QED BY <1>2, <1>8, <1>9, <1>10, <1>11 DEF GrowthInv

LEMMA SelectInVolumeGrowth ==
    ASSUME GrowthInv, NEW p \in Folders, SelectInVolume(p)
    PROVE  /\ GrowthInv'
           /\ \A q \in Folders : Counted(q)' = Counted(q)
<1>1. IsCounting(p)
  BY DEF SelectInVolume, IsCounting
<1>2. /\ children' \in [Folders -> {"null", "loading", "uncounted", "adding", "added", "loaded"}]
      /\ \A q \in Folders : children'[q] = IF q = p THEN "loaded" ELSE children[q]
      /\ \A q \in Folders : HasArrived(q)' <=> HasArrived(q)
      /\ Grows' /\ p \in Disk /\ p \notin Files
  BY <1>1, PoolThreadStep DEF SelectInVolume, Files
<1>3. \A q \in Folders : Counted(q)' = Counted(q)
  BY <1>2, CountedAsBefore DEF SelectInVolume, IsCounted
<1>4. selected' \in [Disk -> Int] /\ \A q \in Disk : q # p => selected'[q] = selected[q]
  <2>1. \A m \in 0 .. Cardinality(Disk) : m \in Int
    OBVIOUS
  <2>2. total[p] \in Int
    BY <1>2, <2>1 DEF GrowthInv, TypeOK
  <2> QED BY <2>2 DEF SelectInVolume, GrowthInv, TypeOK
<1>5. TypeOK'
  BY <1>2, <1>4 DEF SelectInVolume, GrowthInv, TypeOK, pool
<1>6. /\ TotalsCountBoxes' /\ (overlapped' # {} => "raced" \in disturbed')
      /\ HeldIsTotal'
  BY <1>2, <1>3 DEF SelectInVolume, GrowthInv, TotalsCountBoxes, HeldIsTotal, pool
<1>7. FilesCountNothing'
  <2>1. \A f \in Files : f \in Disk /\ f # p
    BY <1>2 DEF Files
  <2> QED BY <1>4, <2>1 DEF SelectInVolume, GrowthInv, FilesCountNothing
<1> QED BY <1>2, <1>3, <1>5, <1>6, <1>7 DEF GrowthInv

LEMMA ExpandGrowth ==
    ASSUME GrowthInv, NEW p \in Folders, Expand(p)
    PROVE  /\ GrowthInv'
           /\ \A q \in Folders : Counted(q)' = Counted(q)
           /\ Boxes' = Boxes
<1>1. /\ children' \in [Folders -> {"null", "loading", "uncounted", "adding", "added", "loaded"}]
      /\ \A q \in Folders :
            children'[q] = IF q \in EnumerateFiles(p) /\ children[q] = "null"
                           THEN "loading" ELSE children[q]
  BY DEF Expand, GrowthInv, TypeOK
<1>2. \A q \in Folders : HasArrived(q)' <=> HasArrived(q)
  BY <1>1 DEF HasArrived, IsCounting
<1>3. Boxes' = Boxes
  <2>1. \A c \in built : Len(c) = 1 \/ RemoveLastPathComponent(c) \in Folders
    BY DiskAssumption DEF GrowthInv, TypeOK, RemoveLastPathComponent
  <2> QED BY <1>2, <2>1 DEF Expand, Boxes
<1>4. Grows'
  <2>1. \A q \in expanded' : HasArrived(q)'
    BY <1>2 DEF Expand, GrowthInv, Grows, TypeOK
  <2>2. \A q \in EnumerateFiles(p) : q \in Boxes
    BY DEF Expand, GrowthInv, Grows, EnumerateFiles, Boxes
  <2> QED BY <1>1, <1>3, <2>1, <2>2 DEF Expand, GrowthInv, Grows, HasArrived, IsCounting
<1>5. \A q \in Folders : Counted(q)' = Counted(q)
  BY <1>1, CountedAsBefore DEF Expand, IsCounted
<1>6. TypeOK'
  BY <1>1, <1>2 DEF Expand, GrowthInv, TypeOK, counts, pool
<1>7. /\ TotalsCountBoxes' /\ FilesCountNothing' /\ HeldIsTotal'
      /\ overlapped' # {} => "raced" \in disturbed'
  BY <1>1, <1>5
     DEF Expand, GrowthInv, TotalsCountBoxes, FilesCountNothing, HeldIsTotal, counts, pool
<1> QED BY <1>3, <1>4, <1>5, <1>6, <1>7 DEF GrowthInv

-----------------------------------------------------------------------------
(* A click *)

\* The mark that a click on p gives.
NewMark(p) == IF mark[p] = "unchecked" THEN "checked" ELSE "unchecked"

SelectionDelta(p) ==
    IF NewMark(p) = "checked" THEN total[p] - selected[p] + 1 ELSE -selected[p] - 1

\* What reaches the folder q above p.
Reaches(q, p) == AddToSelectedChildrenCount(p, SelectionDelta(p))[Len(q) + 1]

\* The boxes that get the new mark whatever becomes of their count.
Given(p) == {p} \cup SetSelectionToChildren(p, NewMark(p))

LEMMA ClickEffect ==
    ASSUME GrowthInv, NEW p \in Disk, Click(p)
    PROVE  /\ p \in Boxes /\ NewMark(p) \in {"checked", "unchecked"} /\ mark[p] # NewMark(p)
           /\ \A q \in Above(p) : q \in Folders /\ q \in Disk /\ HasArrived(q)
           /\ DOMAIN mark' = Disk /\ DOMAIN selected' = Disk
           /\ \A q \in Given(p) :
                 /\ q \in Boxes
                 /\ q = p \/ IsAbove(p, q)
                 /\ mark'[q] = NewMark(p)
                 /\ selected'[q] = IF NewMark(p) = "checked" THEN total[q] ELSE 0
           /\ \A q \in Above(p) :
                 /\ selected'[q] = selected[q] + Reaches(q, p)
                 /\ mark'[q] = MarkFor(q, selected'[q])
           /\ \A q \in Disk \ (Given(p) \cup Above(p)) :
                 mark'[q] = mark[q] /\ selected'[q] = selected[q]
           /\ UNCHANGED <<built, children, total, expanded, held, overlapped>>
<1> DEFINE added == AddToSelectedChildrenCount(p, SelectionDelta(p))
<1>1. /\ Shown(p)
      /\ selected' = [q \in Disk |->
             IF q \in Given(p) THEN IF NewMark(p) = "checked" THEN total[q] ELSE 0
             ELSE IF q \in Above(p) THEN selected[q] + added[Len(q) + 1]
             ELSE selected[q]]
      /\ mark' = [q \in Disk |->
             IF q \in Given(p) THEN NewMark(p)
             ELSE IF q \in Above(p) THEN MarkFor(q, selected'[q])
             ELSE mark[q]]
      /\ UNCHANGED <<built, children, total, expanded, held, overlapped>>
  BY DEF Click, NewMark, SelectionDelta, Given, pool
<1>2. p \in Boxes
  BY <1>1 DEF Shown
<1>3. Boxes \subseteq Disk
  BY DEF Boxes, GrowthInv, TypeOK
<1>4. \A q \in Given(p) : q \in Boxes /\ q \in Disk /\ (q = p \/ IsAbove(p, q))
  BY <1>2, <1>3 DEF Given, SetSelectionToChildren
<1>5. \A q \in Above(p) : q \in Folders /\ q \in Disk /\ HasArrived(q)
  BY <1>1, OnDisk DEF Shown, Above, GrowthInv, Grows
<1>6. \A q \in Above(p) : q \notin Given(p)
  <2>1. SUFFICES ASSUME NEW q \in Above(p), q \in Given(p) PROVE FALSE
    OBVIOUS
  <2>2. q \in Disk /\ IsAbove(q, p) /\ (q = p \/ IsAbove(p, q))
    BY <1>4, <1>5, <2>1 DEF Above
  <2>3. ~(q = p)
    BY <2>2, AboveIsFolder
  <2> QED BY <2>2, <2>3, AboveIsTransitive, AboveIsFolder
<1>7. NewMark(p) \in {"checked", "unchecked"} /\ mark[p] # NewMark(p)
  BY DEF NewMark
<1> HIDE DEF added
<1>8. \A q \in Above(p) : added[Len(q) + 1] = Reaches(q, p)
  BY DEF added, Reaches
<1> QED BY <1>1, <1>2, <1>4, <1>5, <1>6, <1>7, <1>8

LEMMA ClickGrowth ==
    ASSUME GrowthInv, NEW p \in Disk, Click(p)
    PROVE  /\ GrowthInv'
           /\ \A q \in Disk : Counted(q)' = Counted(q)
           /\ Boxes' = Boxes
<1>1. \A q \in Disk : total[q] \in Int /\ selected[q] \in Int
  <2>1. \A n \in 0 .. Cardinality(Disk) : n \in Int
    OBVIOUS
  <2> QED BY <2>1 DEF GrowthInv, TypeOK
<1>2. \A q \in Above(p) : Reaches(q, p) \in Int
  <2>1. ASSUME NEW q \in Above(p)
        PROVE  Len(q) + 1 \in 1 .. Len(p)
    <3>1. Len(q) \in Nat /\ Len(q) < Len(p) /\ Len(p) \in Nat
      BY OnDisk, PathTypes DEF Above, IsAbove
    <3> QED BY <3>1
  <2>2. SelectionDelta(p) \in Int
    BY <1>1 DEF SelectionDelta
  <2> QED BY <2>1, <2>2, AddedIsInteger DEF Reaches
<1>3. selected' \in [Disk -> Int]
  <2>1. ASSUME NEW q \in Disk
        PROVE  selected'[q] \in Int
    BY <1>1, <1>2, ClickEffect
  <2>2. selected' = [q \in Disk |-> selected'[q]]
    BY DEF Click
  <2> QED BY <2>1, <2>2
<1>4. \A q \in Disk : \A count : MarkFor(q, count) \in CheckMark
  BY DEF GrowthInv, TypeOK, MarkFor, CheckMark
<1>5. mark' \in [Disk -> CheckMark]
  <2>1. ASSUME NEW q \in Disk
        PROVE  mark'[q] \in CheckMark
    BY <1>4, ClickEffect DEF GrowthInv, TypeOK, CheckMark
  <2>2. mark' = [q \in Disk |-> mark'[q]]
    BY DEF Click
  <2> QED BY <2>1, <2>2
<1>6. \A q \in Disk : mark'[q] = "indeterminate" => q \in Folders /\ HasArrived(q)
  BY ClickEffect DEF GrowthInv, TypeOK
<1>7. TypeOK'
  <2>1. clicks' \in 0 .. MaxClicks /\ disturbed' \subseteq {"late", "unselected", "raced"}
    BY MaxClicksAssumption DEF Click, GrowthInv, TypeOK
  <2> QED BY <1>3, <1>5, <1>6, <2>1, ClickEffect DEF GrowthInv, TypeOK, HasArrived, IsCounting
<1>8. Boxes' = Boxes /\ \A q \in Disk : Counted(q)' = Counted(q)
  BY ClickEffect DEF Boxes, HasArrived, IsCounting, Counted, IsCounted
<1>9. /\ Grows' /\ TotalsCountBoxes' /\ HeldIsTotal'
      /\ overlapped' # {} => "raced" \in disturbed'
  <2>1. disturbed \subseteq disturbed'
    BY DEF Click
  <2> QED BY <1>8, <2>1, OnDisk, ClickEffect
       DEF GrowthInv, Grows, HasArrived, IsCounting, TotalsCountBoxes, HeldIsTotal
<1>10. FilesCountNothing'
  <2>1. ASSUME NEW f \in Files
        PROVE  total'[f] = 0 /\ selected'[f] = 0
    <3>1. f \in Disk /\ f \notin Above(p) /\ total[f] = 0 /\ selected[f] = 0
      BY DEF Files, Above, GrowthInv, FilesCountNothing
    <3> QED BY <3>1, ClickEffect
  <2> QED BY <2>1 DEF FilesCountNothing
<1> QED BY <1>7, <1>8, <1>9, <1>10 DEF GrowthInv

-----------------------------------------------------------------------------
(* Counting the checked boxes *)

LEMMA CheckedIsFinite ==
    ASSUME NEW S, IsFiniteSet(S), NEW marks
    PROVE  /\ IsFiniteSet(Checked(marks, S)) /\ Cardinality(Checked(marks, S)) \in Nat
           /\ Cardinality(Checked(marks, S)) = 0 <=> Checked(marks, S) = {}
           /\ Cardinality(Checked(marks, S)) = Cardinality(S) <=> Checked(marks, S) = S
<1>1. Checked(marks, S) \in SUBSET S
  BY DEF Checked
<1> QED BY <1>1, FS_Subset, FS_CardinalityType, FS_EmptySet

LEMMA CheckedSplits ==
    ASSUME NEW S, IsFiniteSet(S), NEW D \in SUBSET S, NEW marks
    PROVE  Cardinality(Checked(marks, S)) =
               Cardinality(Checked(marks, D)) + Cardinality(Checked(marks, S \ D))
<1>1. IsFiniteSet(D) /\ IsFiniteSet(S \ D)
  BY FS_Subset
<1> DEFINE inside == Checked(marks, D)
           outside == Checked(marks, S \ D)
<1>2. Checked(marks, S) = inside \cup outside /\ inside \cap outside = {}
  BY DEF Checked
<1>3. /\ IsFiniteSet(inside) /\ IsFiniteSet(outside)
      /\ Cardinality(inside) \in Nat /\ Cardinality(outside) \in Nat
  BY <1>1, CheckedIsFinite
<1> HIDE DEF inside, outside
<1>4. Cardinality(inside \cup outside) = Cardinality(inside) + Cardinality(outside)
  BY <1>2, <1>3, DisjointUnion
<1> QED BY <1>2, <1>4 DEF inside, outside

LEMMA CheckedWithOwn ==
    ASSUME NEW S, IsFiniteSet(S), NEW r, r \notin S, NEW marks
    PROVE  /\ IsFiniteSet({r} \cup S)
           /\ Cardinality(Checked(marks, {r} \cup S)) =
                  Cardinality(Checked(marks, S)) + One(marks[r] = "checked")
<1>1. IsFiniteSet({r} \cup S)
  BY FS_AddElement
<1>2. IsFiniteSet(Checked(marks, S)) /\ r \notin Checked(marks, S)
      /\ Cardinality(Checked(marks, S)) \in Nat
  BY CheckedIsFinite DEF Checked
<1>3. CASE marks[r] = "checked"
  <2>1. Checked(marks, {r} \cup S) = Checked(marks, S) \cup {r}
    BY <1>3 DEF Checked
  <2> QED BY <1>1, <1>2, <1>3, <2>1, FS_AddElement DEF One
<1>4. CASE marks[r] # "checked"
  <2>1. Checked(marks, {r} \cup S) = Checked(marks, S)
    BY <1>4 DEF Checked
  <2> QED BY <1>1, <1>2, <1>4, <2>1 DEF One
<1> QED BY <1>3, <1>4

\* The counts of a file fit, too.
LEMMA CountsOfAll ==
    ASSUME GrowthInv, SelectedRight, overlapped = {},
           NEW p \in Disk, p \in Folders => ~IsCounting(p)
    PROVE  /\ total[p] = Cardinality(Counted(p))
           /\ selected[p] = Cardinality(Checked(mark, Counted(p)))
<1>1. CASE p \in Folders
  BY <1>1 DEF GrowthInv, TotalsCountBoxes, SelectedRight, IsCounting
<1>2. CASE p \notin Folders
  <2>1. Counted(p) = {} /\ Checked(mark, {}) = {}
    BY <1>2, CountedAreBoxes DEF Checked
  <2> QED BY <1>2, <2>1, FS_EmptySet DEF GrowthInv, FilesCountNothing, Files
<1> QED BY <1>1, <1>2

-----------------------------------------------------------------------------
(* Which boxes a click changes *)

Below(p) == {c \in Boxes : IsAbove(p, c)}

LEMMA ClickBelow ==
    ASSUME GrowthInv, MarkedAlike, NEW p \in Disk, Click(p), NEW c \in Below(p)
    PROVE  mark'[c] = NewMark(p)
<1>1. c \in Boxes /\ c \in Disk /\ IsAbove(p, c) /\ c \in Seq(Component) /\ Len(c) \in Nat
  BY PathTypes DEF Below, Boxes, GrowthInv, TypeOK
<1>2. CASE c \in Given(p)
  BY <1>2, ClickEffect
<1>3. CASE c \notin Given(p)
  <2>1. PICK n \in Len(p) + 1 .. Len(c) :
            SubSeq(c, 1, n) \notin Boxes \/ mark[SubSeq(c, 1, n)] = NewMark(p)
    BY <1>1, <1>3 DEF Given, SetSelectionToChildren
  <2> DEFINE r == SubSeq(c, 1, n)
  <2>2. r = c \/ (r \in Folders /\ IsAbove(r, c))
    <3>1. Len(p) \in Nat /\ Len(p) > 0
      BY PathTypes
    <3>2. CASE n = Len(c)
      BY <1>1, <3>2
    <3>3. CASE n # Len(c)
      <4>1. n \in 1 .. Len(c) - 1 /\ n \in 0 .. Len(c) /\ n < Len(c) /\ n \in 0 .. n
        BY <1>1, <2>1, <3>1, <3>3
      <4>2. r \in Folders /\ Len(r) = n
        BY <1>1, <4>1, PrefixIsFolder, PrefixOfPrefix
      <4> QED BY <4>1, <4>2 DEF IsAbove
    <3> QED BY <3>2, <3>3
  <2>3. r \in Boxes
    BY <1>1, <2>2, OnDisk, BoxesAreReached
  <2> HIDE DEF r
  <2>4. mark[r] = NewMark(p)
    BY <2>1, <2>3 DEF r
  <2>5. mark[c] = NewMark(p)
    BY <1>1, <2>2, <2>3, <2>4, ClickEffect DEF MarkedAlike
  <2>6. c \notin Above(p)
    BY <1>1, OnDisk, AboveIsTransitive, AboveIsFolder DEF Above
  <2> QED BY <1>1, <1>3, <2>5, <2>6, ClickEffect
<1> QED BY <1>2, <1>3

\* Other boxes keep their marks and counts.
LEMMA ClickElsewhere ==
    ASSUME GrowthInv, NEW p \in Disk, Click(p),
           NEW c \in Disk, c # p, c \notin Above(p), c \notin Below(p)
    PROVE  mark'[c] = mark[c] /\ selected'[c] = selected[c]
<1>1. c \notin Given(p)
  BY ClickEffect DEF Below
<1> QED BY <1>1, ClickEffect

\* What is below another box that is changed in no way is not changed, either.
LEMMA ElsewhereBelow ==
    ASSUME GrowthInv, NEW p \in Boxes, NEW q \in Disk, q # p, q \notin Above(p), q \notin Below(p),
           NEW c \in Boxes, IsAbove(q, c)
    PROVE  c # p /\ c \notin Above(p) /\ c \notin Below(p)
<1>1. p \in Disk /\ c \in Disk /\ q \in Folders
  BY AboveIsFolder DEF Boxes, GrowthInv, TypeOK
<1>2. c # p
  BY <1>1 DEF Above
<1>3. c \notin Above(p)
  BY <1>1, AboveIsTransitive DEF Above
<1>4. c \notin Below(p)
  <2>1. SUFFICES ASSUME IsAbove(p, c) PROVE FALSE
    BY DEF Below
  <2>2. IsAbove(p, q)
    BY <1>1, <2>1, AboveIsLinear DEF Above
  <2>3. q \in Boxes
    BY BoxesAreReached
  <2> QED BY <2>2, <2>3 DEF Below
<1> QED BY <1>2, <1>3, <1>4

\* A click that disturbs nothing.
LEMMA QuietClick ==
    ASSUME GrowthInv, NEW p \in Disk, Click(p), disturbed' = {}
    PROVE  /\ overlapped = {}
           /\ \A q \in Folders : q = p \/ q \in Above(p) \/ q \in Below(p) => ~IsCounting(q)
           /\ \A q \in Above(p) : children[q] = "loaded"
           /\ Above(p) # {} => mark[p] = "checked" \/ mark[p] = "unchecked"
           /\ \A q \in Folders :
                 children[q] = "loading" /\ EnumerateFiles(q) \cap built # {} =>
                     mark'[q] = mark[q]
<1>1. /\ ~Races(p) /\ ~(mark[p] = "indeterminate" /\ Len(p) > 1)
      /\ disturbed = {} /\ overlapped = {}
  BY DEF Click, GrowthInv
<1>2. \A q \in Above(p) : ~IsCounting(q) /\ children[q] = "loaded"
  BY <1>1, ClickEffect DEF Races, HasArrived, Above
<1>3. ASSUME NEW q \in Folders, q = p \/ q \in Above(p) \/ q \in Below(p)
      PROVE  ~IsCounting(q)
  <2>1. CASE q = p
    BY <1>1, <2>1 DEF Races
  <2>2. CASE q \in Below(p)
    <3>1. Len(q) # 1
      BY <2>2, OnDisk, AboveIsFolder DEF Below
    <3> QED BY <3>1 DEF GrowthInv, Grows
  <2> QED BY <1>2, <1>3, <2>1, <2>2
<1>4. Above(p) # {} => Len(p) > 1
  <2>1. ASSUME NEW q \in Above(p) PROVE Len(p) > 1
    <3>1. Len(q) \in Nat /\ Len(q) > 0 /\ Len(p) \in Nat /\ Len(q) < Len(p)
      BY OnDisk, PathTypes DEF Above, IsAbove
    <3> QED BY <3>1
  <2> QED BY <2>1
<1>5. mark[p] \in CheckMark
  BY DEF GrowthInv, TypeOK
<1> QED BY <1>1, <1>2, <1>3, <1>4, <1>5 DEF Races, CheckMark

-----------------------------------------------------------------------------
(* What a click makes of the counts *)

\* A box with what is counted below it.
WithCounted(r) == {r} \cup Counted(r)

\* The box r adds to the folder above it by how many more boxes are checked.
AddsChange(r, p) ==
    Cardinality(Checked(mark, WithCounted(r)))
            + AddToSelectedChildrenCount(p, SelectionDelta(p))[Len(r)]
        = Cardinality(Checked(mark', WithCounted(r)))

\* The box that is clicked, and those below it.
LEMMA CountsBelow ==
    ASSUME GrowthInv, MarkedAlike, SelectedRight, NEW p \in Disk, Click(p), disturbed' = {},
           NEW q \in Disk, q = p \/ q \in Below(p)
    PROVE  selected'[q] = Cardinality(Checked(mark', Counted(q)))
<1>1. /\ Counted(q) \subseteq Below(p) /\ IsFiniteSet(Counted(q))
      /\ \A c \in Counted(q) : c \in Boxes /\ IsAbove(q, c) /\ c \in Disk
  <2>1. ASSUME NEW c \in Counted(q)
        PROVE  c \in Boxes /\ IsAbove(q, c) /\ c \in Disk /\ IsAbove(p, c)
    BY CountedAreBoxes, AboveIsTransitive DEF Below
  <2> QED BY <2>1, CountedAreBoxes DEF Below
<1>2. \A c \in Counted(q) : mark'[c] = NewMark(p)
  BY <1>1, ClickBelow
<1>3. total[q] = Cardinality(Counted(q)) /\ selected[q] = Cardinality(Checked(mark, Counted(q)))
  BY QuietClick, CountsOfAll
<1>4. CASE q \in Given(p)
  <2>1. CASE NewMark(p) = "checked"
    <3>1. Checked(mark', Counted(q)) = Counted(q)
      BY <1>2, <2>1 DEF Checked
    <3> QED BY <1>3, <1>4, <2>1, <3>1, ClickEffect
  <2>2. CASE NewMark(p) # "checked"
    <3>1. Checked(mark', Counted(q)) = {}
      BY <1>2, <2>2 DEF Checked
    <3> QED BY <1>4, <2>2, <3>1, FS_EmptySet, ClickEffect
  <2> QED BY <2>1, <2>2
<1>5. CASE q \notin Given(p)
  <2>1. q # p /\ q \in Boxes /\ IsAbove(p, q)
    BY <1>5 DEF Given, Below
  <2>2. q \notin Above(p)
    BY <2>1, OnDisk, AboveIsTransitive, AboveIsFolder DEF Above
  <2>3. mark'[q] = mark[q] /\ selected'[q] = selected[q]
    BY <1>5, <2>2, ClickEffect
  <2>4. mark[q] = NewMark(p)
    BY <2>1, <2>3, ClickBelow DEF Below
  <2>5. \A c \in Counted(q) : mark[c] = NewMark(p)
    <3>1. ASSUME NEW c \in Counted(q) PROVE mark[c] = NewMark(p)
      BY <1>1, <2>1, <2>4, ClickEffect, AboveIsFolder DEF MarkedAlike
    <3> QED BY <3>1
  <2>6. Checked(mark', Counted(q)) = Checked(mark, Counted(q))
    BY <1>2, <2>5 DEF Checked
  <2> QED BY <1>3, <2>3, <2>6
<1> QED BY <1>4, <1>5

\* The clicked box: selectionDelta is the change.
LEMMA ClickedAddsChange ==
    ASSUME GrowthInv, MarkedAlike, SelectedRight, NEW p \in Disk, Click(p), disturbed' = {},
           mark[p] \in {"checked", "unchecked"}
    PROVE  AddsChange(p, p)
<1> DEFINE old == Cardinality(Checked(mark, Counted(p)))
           new == Cardinality(Checked(mark', Counted(p)))
<1>1. /\ IsFiniteSet(Counted(p)) /\ p \notin Counted(p)
      /\ total[p] = Cardinality(Counted(p)) /\ selected[p] = old
      /\ selected'[p] = new
  BY CountedAreBoxes, QuietClick, CountsOfAll, CountsBelow
<1>2. new = IF NewMark(p) = "checked" THEN total[p] ELSE 0
  BY <1>1, ClickEffect DEF Given
<1>3. old \in Nat /\ new \in Nat /\ total[p] \in Nat
  BY <1>1, CheckedIsFinite, FS_CardinalityType
<1>4. /\ Cardinality(Checked(mark, WithCounted(p))) = old + One(mark[p] = "checked")
      /\ Cardinality(Checked(mark', WithCounted(p))) = new + One(mark'[p] = "checked")
  BY <1>1, CheckedWithOwn DEF WithCounted
<1>5. mark'[p] = NewMark(p)
  BY ClickEffect DEF Given
<1>6. AddToSelectedChildrenCount(p, SelectionDelta(p))[Len(p)] = SelectionDelta(p)
  <2>1. Len(p) \in 1 .. Len(p)
    BY PathTypes
  <2> QED BY <2>1, AddedIsRecursive
<1> HIDE DEF old, new
<1>7. CASE mark[p] = "checked"
  <2>1. NewMark(p) = "unchecked" /\ SelectionDelta(p) = -old - 1 /\ new = 0
    BY <1>1, <1>2, <1>7 DEF NewMark, SelectionDelta
  <2> QED BY <1>3, <1>4, <1>5, <1>6, <1>7, <2>1 DEF AddsChange, One
<1>8. CASE mark[p] = "unchecked"
  <2>1. NewMark(p) = "checked" /\ SelectionDelta(p) = new - old + 1
    BY <1>1, <1>2, <1>8 DEF NewMark, SelectionDelta
  <2> QED BY <1>3, <1>4, <1>5, <1>6, <1>8, <2>1 DEF AddsChange, One
<1> QED BY <1>7, <1>8

\* The next level below a folder above p.
LEMMA NextLevel ==
    ASSUME NEW p \in Disk, NEW q \in Above(p)
    PROVE  \E r \in {p} \cup Above(p) :
               r \in Disk /\ q \in Disk /\ IsAbove(q, r) /\ Len(r) = Len(q) + 1
                   /\ Len(q) \in 1 .. Len(p) - 1 /\ SubSeq(p, 1, Len(q)) = q
<1>1. /\ q \in Disk /\ Len(q) \in 1 .. Len(p) - 1 /\ SubSeq(p, 1, Len(q)) = q
      /\ p \in Seq(Component) /\ Len(p) \in Nat
  BY OnDisk, AboveIsPrefix, PathTypes DEF Above
<1> DEFINE r == SubSeq(p, 1, Len(q) + 1)
<1>2. /\ Len(q) + 1 \in 1 .. Len(p) /\ Len(q) + 1 \in 0 .. Len(p)
      /\ Len(q) \in 0 .. Len(q) + 1 /\ Len(q) \in 1 .. (Len(q) + 1) - 1
  BY <1>1
<1>3. Len(r) = Len(q) + 1 /\ SubSeq(r, 1, Len(q)) = q
  BY <1>1, <1>2, PrefixOfPrefix
<1>4. r = p \/ r \in Above(p)
  <2>1. CASE Len(q) + 1 = Len(p)
    BY <1>1, <2>1
  <2>2. CASE Len(q) + 1 # Len(p)
    <3>1. Len(q) + 1 \in 1 .. Len(p) - 1
      BY <1>1, <1>2, <2>2
    <3>2. r \in Folders
      BY <3>1, PrefixIsFolder
    <3> QED BY <1>3, <3>1, <3>2, OnDisk, AboveIsPrefix DEF Above
  <2> QED BY <2>1, <2>2
<1> HIDE DEF r
<1>5. r \in Disk
  BY <1>4, OnDisk DEF Above
<1> QED BY <1>1, <1>2, <1>3, <1>4, <1>5, AboveIsPrefix

\* What is counted below q but not below its next level is not changed.
LEMMA AsideOfClick ==
    ASSUME GrowthInv, NEW p \in Disk, Click(p), disturbed' = {},
           NEW q \in Above(p), NEW r \in {p} \cup Above(p),
           IsAbove(q, r), Len(r) = Len(q) + 1
    PROVE  /\ r \in Counted(q) /\ WithCounted(r) \subseteq Counted(q)
           /\ \A c \in Counted(q) \ WithCounted(r) : mark'[c] = mark[c]
<1>1. p \in Boxes /\ q \in Disk /\ r \in Disk
  BY ClickEffect, OnDisk DEF Above
<1>2. r \in Boxes
  BY <1>1, BoxesAreReached DEF Above
<1>3. children[q] = "loaded"
  BY QuietClick
<1>4. r \in Counted(q) /\ WithCounted(r) \subseteq Counted(q)
  BY <1>1, <1>2, <1>3, BoxIsCounted, CountedBelow DEF WithCounted
<1>5. ASSUME NEW c \in Counted(q) \ WithCounted(r)
      PROVE  mark'[c] = mark[c]
  <2>1. c \in Disk /\ c \in Boxes /\ IsAbove(q, c) /\ c # r /\ c \notin Counted(r)
    BY <1>1, CountedAreBoxes DEF WithCounted
  <2>2. ~IsAbove(c, r)
    <3>1. Len(q) \in Nat /\ Len(c) \in Nat /\ Len(q) < Len(c)
      BY <1>1, <2>1, PathTypes DEF IsAbove
    <3>2. ~(Len(c) < Len(q) + 1)
      BY <3>1
    <3> QED BY <3>2 DEF IsAbove
  <2>3. ~IsAbove(r, c)
    <3>1. SUFFICES ASSUME IsAbove(r, c) PROVE FALSE
      OBVIOUS
    <3>2. r \in Folders
      BY <1>1, <2>1, <3>1, AboveIsFolder
    <3>3. children[r] \notin {"uncounted", "adding"}
      BY <3>2, QuietClick DEF IsCounting
    <3> QED BY <1>1, <2>1, <3>1, <3>3, BoxIsCounted
  <2>4. c # p /\ c \notin Above(p) /\ c \notin Below(p)
    <3>1. CASE r = p
      BY <2>1, <2>2, <2>3, <3>1 DEF Above, Below
    <3>2. CASE IsAbove(r, p)
      <4>1. c # p
        BY <2>3, <3>2
      <4>2. c \notin Above(p)
        BY <1>1, <2>1, <2>2, <2>3, <3>2, AboveIsLinear DEF Above
      <4>3. c \notin Below(p)
        BY <1>1, <2>1, <2>3, <3>2, AboveIsTransitive DEF Below
      <4> QED BY <4>1, <4>2, <4>3
    <3> QED BY <3>1, <3>2 DEF Above
  <2> QED BY <2>1, <2>4, ClickElsewhere
<1> QED BY <1>4, <1>5

\* One level up: the folder's count becomes right, and it passes on the change.
LEMMA PassesOnChange ==
    ASSUME GrowthInv, SelectedRight, NEW p \in Disk, Click(p), disturbed' = {},
           NEW q \in Above(p), NEW r \in {p} \cup Above(p),
           IsAbove(q, r), Len(r) = Len(q) + 1,
           Len(q) \in 1 .. Len(p) - 1, SubSeq(p, 1, Len(q)) = q,
           AddsChange(r, p)
    PROVE  /\ selected'[q] = Cardinality(Checked(mark', Counted(q)))
           /\ AddsChange(q, p)
<1> DEFINE added == AddToSelectedChildrenCount(p, SelectionDelta(p))
           D == WithCounted(r)
           rest == Cardinality(Checked(mark, Counted(q) \ D))
           oldD == Cardinality(Checked(mark, D))
           newD == Cardinality(Checked(mark', D))
           old == Cardinality(Checked(mark, Counted(q)))
           new == Cardinality(Checked(mark', Counted(q)))
<1>1. q \in Disk /\ IsFiniteSet(Counted(q)) /\ q \notin Counted(q)
  BY OnDisk, CountedAreBoxes DEF Above
<1>2. D \in SUBSET Counted(q) /\ IsFiniteSet(D) /\ IsFiniteSet(Counted(q) \ D)
  BY <1>1, AsideOfClick, FS_Subset
<1>3. Checked(mark', Counted(q) \ D) = Checked(mark, Counted(q) \ D)
  BY AsideOfClick DEF Checked
<1>4. old = oldD + rest /\ new = newD + rest
  BY <1>1, <1>2, <1>3, CheckedSplits
<1>5. old \in Nat /\ new \in Nat /\ oldD \in Nat /\ newD \in Nat /\ rest \in Nat
  BY <1>1, <1>2, CheckedIsFinite
<1>6. oldD + added[Len(q) + 1] = newD
  BY DEF AddsChange
<1>7. /\ Len(p) \in Nat /\ Len(q) \in 1 .. Len(p) /\ Len(q) + 1 \in 1 .. Len(p)
      /\ Len(q) # Len(p)
  BY PathTypes
<1>8. SelectionDelta(p) \in Int
  <2>1. \A n \in 0 .. Cardinality(Disk) : n \in Int
    OBVIOUS
  <2>2. total[p] \in Int /\ selected[p] \in Int
    BY <2>1 DEF GrowthInv, TypeOK
  <2> QED BY <2>2 DEF SelectionDelta
<1>9. added[Len(q) + 1] \in Int
  BY <1>7, <1>8, AddedIsInteger
<1>10. added[Len(q)] = PassOn(q, added[Len(q) + 1])
  <2>1. \A n \in 1 .. Len(p) : n # Len(p) => added[n] = PassOn(SubSeq(p, 1, n), added[n + 1])
    BY AddedIsRecursive
  <2> HIDE DEF added
  <2> QED BY <1>7, <2>1
<1>11. selected[q] = old /\ selected'[q] = selected[q] + added[Len(q) + 1]
       /\ mark'[q] = MarkFor(q, selected'[q])
  BY <1>1, QuietClick, CountsOfAll, ClickEffect DEF Reaches, Above
<1>12. /\ Cardinality(Checked(mark, WithCounted(q))) = old + One(mark[q] = "checked")
       /\ Cardinality(Checked(mark', WithCounted(q))) = new + One(mark'[q] = "checked")
  BY <1>1, CheckedWithOwn DEF WithCounted
<1> HIDE DEF added, D, rest, oldD, newD, old, new
<1>13. selected'[q] = new /\ old + added[Len(q) + 1] = new
  BY <1>4, <1>5, <1>6, <1>9, <1>11
<1>14. added[Len(q)] = added[Len(q) + 1] + One(mark'[q] = "checked") - One(mark[q] = "checked")
  BY <1>10, <1>11 DEF PassOn
<1>15. One(mark'[q] = "checked") \in Int /\ One(mark[q] = "checked") \in Int
  BY DEF One
<1>16. old + One(mark[q] = "checked") + added[Len(q)] = new + One(mark'[q] = "checked")
  <2> DEFINE a == One(mark'[q] = "checked")
             b == One(mark[q] = "checked")
             x == added[Len(q) + 1]
  <2>1. a \in Int /\ b \in Int /\ x \in Int /\ old + x = new /\ added[Len(q)] = x + a - b
    BY <1>9, <1>13, <1>14, <1>15
  <2> HIDE DEF a, b, x
  <2>2. old + b + (x + a - b) = new + a
    BY <1>5, <2>1
  <2> QED BY <2>1, <2>2 DEF a, b
<1>17. AddsChange(q, p)
  BY <1>12, <1>16 DEF AddsChange, added
<1> QED BY <1>13, <1>17 DEF new

\* All the way up to the volume.
LEMMA CountsAbove ==
    ASSUME GrowthInv, Agreement, NEW p \in Disk, Click(p), disturbed' = {}, NEW q \in Above(p)
    PROVE  selected'[q] = Cardinality(Checked(mark', Counted(q)))
<1> DEFINE T == {n \in Nat : \E r \in {p} \cup Above(p) :
                                 n = Len(p) - Len(r) /\ ~AddsChange(r, p)}
<1> USE DEF Agreement
<1>1. AddsChange(p, p)
  BY QuietClick, ClickedAddsChange
<1>2. \A r \in {p} \cup Above(p) : AddsChange(r, p)
  <2>1. SUFFICES ASSUME NEW r \in {p} \cup Above(p), ~AddsChange(r, p) PROVE FALSE
    OBVIOUS
  <2>2. \A s \in {p} \cup Above(p) : /\ Len(p) - Len(s) \in Nat
                                     /\ Len(p) \in Nat /\ Len(s) \in Nat
    <3>1. ASSUME NEW s \in {p} \cup Above(p)
          PROVE  Len(p) - Len(s) \in Nat /\ Len(p) \in Nat /\ Len(s) \in Nat
      <4>1. Len(p) \in Nat /\ Len(s) \in Nat /\ (s = p \/ Len(s) < Len(p))
        BY OnDisk, PathTypes DEF Above, IsAbove
      <4> QED BY <4>1
    <3> QED BY <3>1
  <2>3. PICK n \in T : \A m \in T : n <= m
    <3>1. T \subseteq Nat /\ Len(p) - Len(r) \in T
      BY <2>1, <2>2
    <3> HIDE DEF T
    <3> QED BY <3>1, LeastNatural
  <2>4. PICK s \in {p} \cup Above(p) : n = Len(p) - Len(s) /\ ~AddsChange(s, p)
    OBVIOUS
  <2>5. s \in Above(p)
    BY <1>1, <2>4
  <2>6. PICK t \in {p} \cup Above(p) :
            /\ IsAbove(s, t) /\ Len(t) = Len(s) + 1
            /\ Len(s) \in 1 .. Len(p) - 1 /\ SubSeq(p, 1, Len(s)) = s
    BY <2>5, NextLevel
  <2>7. ~(n <= Len(p) - Len(t))
    BY <2>2, <2>4, <2>6
  <2>8. AddsChange(t, p)
    BY <2>2, <2>3, <2>7
  <2> QED BY <2>4, <2>5, <2>6, <2>8, PassesOnChange
<1>3. PICK r \in {p} \cup Above(p) :
          /\ IsAbove(q, r) /\ Len(r) = Len(q) + 1
          /\ Len(q) \in 1 .. Len(p) - 1 /\ SubSeq(p, 1, Len(q)) = q
  BY NextLevel
<1> QED BY <1>2, <1>3, PassesOnChange

-----------------------------------------------------------------------------
(* What a click makes of the marks *)

LEMMA ClickAgreement ==
    ASSUME GrowthInv, Agreement, NEW p \in Disk, Click(p), disturbed' = {}
    PROVE  Agreement'
<1>1. /\ GrowthInv' /\ Boxes' = Boxes /\ UNCHANGED <<built, children, total, expanded>>
      /\ \A q \in Disk : Counted(q)' = Counted(q)
      /\ p \in Boxes
  BY ClickGrowth, ClickEffect
<1>2. \A q \in Disk : q \notin Above(p) /\ q # p /\ q \notin Below(p) =>
          mark'[q] = mark[q] /\ selected'[q] = selected[q]
  BY ClickElsewhere
<1>3. ASSUME NEW q \in Disk, q \notin Above(p), q # p, q \notin Below(p)
      PROVE  \A c \in Boxes : IsAbove(q, c) => mark'[c] = mark[c]
  <2>1. ASSUME NEW c \in Boxes, IsAbove(q, c) PROVE mark'[c] = mark[c]
    <3>1. c \in Disk
      BY DEF Boxes, GrowthInv, TypeOK
    <3> QED BY <1>1, <1>2, <1>3, <2>1, <3>1, ElsewhereBelow
  <2> QED BY <2>1
<1>4. mark'[p] = NewMark(p) /\ \A c \in Below(p) : mark'[c] = NewMark(p)
  BY ClickEffect, ClickBelow DEF Given, Agreement
<1>5. NewMark(p) \in {"checked", "unchecked"}
  BY ClickEffect
<1>6. \A q \in Disk : /\ IsFiniteSet(Counted(q)) /\ Counted(q) \subseteq Boxes
                      /\ \A c \in Counted(q) : IsAbove(q, c)
  BY CountedAreBoxes
<1>7. SelectedRight'
  <2>1. ASSUME NEW q \in Folders, children[q] # "added" \/ mark'[q] # "checked"
        PROVE  selected'[q] = Cardinality(Checked(mark', Counted(q)))
    <3>1. q \in Disk
      BY OnDisk
    <3>2. CASE q \in Above(p)
      BY <3>2, CountsAbove
    <3>3. CASE q = p \/ q \in Below(p)
      BY <3>1, <3>3, CountsBelow DEF Agreement
    <3>4. CASE q \notin Above(p) /\ q # p /\ q \notin Below(p)
      <4>1. Checked(mark', Counted(q)) = Checked(mark, Counted(q))
        BY <1>3, <1>6, <3>1, <3>4 DEF Checked
      <4> QED BY <1>2, <2>1, <3>1, <3>4, <4>1 DEF Agreement, SelectedRight
    <3> QED BY <3>2, <3>3, <3>4
  <2> QED BY <1>1, <2>1, OnDisk DEF SelectedRight
<1>8. ASSUME NEW q \in Above(p)
      PROVE  /\ q \in Disk /\ children[q] = "loaded"
             /\ total[q] = Cardinality(Counted(q)) /\ total[q] # 0
             /\ mark'[q] = IF Checked(mark', Counted(q)) = Counted(q) THEN "checked"
                           ELSE IF Checked(mark', Counted(q)) = {} THEN "unchecked"
                           ELSE "indeterminate"
  <2>1. q \in Disk /\ q \in Folders /\ children[q] = "loaded"
    BY OnDisk, QuietClick DEF Above
  <2>2. p \in Counted(q)
    BY <1>1, <2>1, BoxIsCounted DEF Above
  <2>3. total[q] = Cardinality(Counted(q)) /\ total[q] # 0
    BY <1>6, <2>1, <2>2, QuietClick, CountsOfAll, FS_EmptySet DEF Agreement
  <2>4. mark'[q] = MarkFor(q, selected'[q])
    BY ClickEffect
  <2>5. selected'[q] = Cardinality(Checked(mark', Counted(q)))
    BY CountsAbove
  <2> QED BY <1>6, <2>1, <2>3, <2>4, <2>5, CheckedIsFinite DEF MarkFor
<1>9. ASSUME NEW q \in Folders, mark'[q] = "indeterminate"
      PROVE  \E c, d \in Counted(q) : mark'[c] = "checked" /\ mark'[d] # "checked"
  <2>1. q \in Disk /\ q # p /\ q \notin Below(p)
    BY <1>4, <1>5, <1>9, OnDisk
  <2>2. CASE q \in Above(p)
    BY <1>8, <1>9, <2>2 DEF Checked
  <2>3. CASE q \notin Above(p)
    <3>1. PICK c \in Counted(q), d \in Counted(q) : mark[c] = "checked" /\ mark[d] # "checked"
      BY <1>2, <1>9, <2>1, <2>3 DEF Agreement, Mixed
    <3>2. mark'[c] = mark[c] /\ mark'[d] = mark[d]
      BY <1>3, <1>6, <2>1, <2>3
    <3> QED BY <3>1, <3>2
  <2> QED BY <2>2, <2>3
<1>10. Mixed'
  BY <1>1, <1>9, OnDisk DEF Mixed
<1>11. ASSUME NEW q \in Boxes \cap Folders, mark'[q] # "indeterminate",
              NEW c \in Boxes, IsAbove(q, c)
       PROVE  mark'[c] = mark'[q]
  <2>1. q \in Disk /\ c \in Disk
    BY OnDisk DEF Boxes, GrowthInv, TypeOK
  <2>2. CASE q = p \/ q \in Below(p)
    <3>1. c \in Below(p)
      BY <1>11, <2>1, <2>2, AboveIsTransitive DEF Below
    <3> QED BY <1>4, <2>2, <3>1
  <2>3. CASE q \notin Above(p) /\ q # p /\ q \notin Below(p)
    <3>1. mark'[q] = mark[q] /\ mark'[c] = mark[c]
      BY <1>2, <1>3, <1>11, <2>1, <2>3
    <3> QED BY <1>11, <3>1 DEF Agreement, MarkedAlike
  <2>4. CASE q \in Above(p)
    <3>1. c \in Counted(q)
      BY <1>8, <1>11, <2>1, <2>4, BoxIsCounted
    <3>2. CASE Checked(mark', Counted(q)) = Counted(q)
      BY <1>8, <2>4, <3>1, <3>2 DEF Checked
    <3>3. CASE Checked(mark', Counted(q)) = {} /\ Checked(mark', Counted(q)) # Counted(q)
      <4>1. mark'[c] # "checked"
        BY <3>1, <3>3 DEF Checked
      <4>2. mark'[c] # "indeterminate"
        <5>1. SUFFICES ASSUME mark'[c] = "indeterminate" PROVE FALSE
          OBVIOUS
        <5>2. c \in Folders
          BY <1>1, <2>1, <5>1 DEF GrowthInv, TypeOK
        <5>3. PICK d \in Counted(c) : mark'[d] = "checked"
          BY <1>9, <5>1, <5>2
        <5>4. d \in Counted(q)
          BY <1>11, <2>1, CountedBelow
        <5> QED BY <3>3, <5>3, <5>4 DEF Checked
      <4>3. mark'[c] \in CheckMark
        BY <1>1, <2>1 DEF GrowthInv, TypeOK
      <4> QED BY <1>8, <2>4, <3>3, <4>1, <4>2, <4>3 DEF CheckMark
    <3> QED BY <1>8, <1>11, <2>4, <3>2, <3>3
  <2> QED BY <2>2, <2>3, <2>4
<1>12. MarkedAlike'
  BY <1>1, <1>11 DEF MarkedAlike
<1>13. ASSUME NEW q \in Folders, children[q] = "loading", NEW c \in EnumerateFiles(q) \cap built
       PROVE  mark'[c] = mark'[q]
  <2>1. mark'[q] = mark[q]
    BY <1>13, QuietClick
  <2>2. c \in Disk /\ RemoveLastPathComponent(c) = q /\ Len(c) # 1
    BY <1>13, ChildOf, AboveIsFolder, OnDisk DEF EnumerateFiles
  <2>3. c \notin Boxes
    BY <1>13, <2>2 DEF Boxes, HasArrived, IsCounting
  <2>4. c # p /\ c \notin Below(p) /\ c \notin Above(p)
    BY <1>1, <2>2, <2>3, BoxesAreReached DEF Below, Above
  <2> QED BY <1>2, <1>13, <2>1, <2>2, <2>4 DEF Agreement, ChildrenTakeMark
<1>14. ASSUME NEW q \in Folders, IsCounting(q)
       PROVE  mark'[q] # "indeterminate"
  <2>1. q \in Disk /\ q # p /\ q \notin Above(p) /\ q \notin Below(p)
    BY <1>14, OnDisk, QuietClick
  <2> QED BY <1>2, <1>14, <2>1 DEF Agreement, ChildrenTakeMark
<1>15. ChildrenTakeMark'
  BY <1>1, <1>13, <1>14 DEF ChildrenTakeMark, IsCounting
<1> QED BY <1>7, <1>10, <1>12, <1>15 DEF Agreement

-----------------------------------------------------------------------------
(* What the enumeration makes of counts and marks *)

LEMMA ConstructChildAgreement ==
    ASSUME GrowthInv, Agreement, NEW p \in Folders, NEW c \in Disk, ConstructChild(p, c)
    PROVE  Agreement'
<1>1. /\ GrowthInv' /\ Boxes' = Boxes /\ \A q \in Folders : Counted(q)' = Counted(q)
      /\ \A q \in Folders : Counted(q) \subseteq Boxes
  BY ConstructChildGrowth, CountedAreBoxes, OnDisk
<1>2. /\ children[p] = "loading" /\ c \in EnumerateFiles(p) \ built /\ built' = built \cup {c}
      /\ c \notin Boxes /\ RemoveLastPathComponent(c) = p
      /\ UNCHANGED <<children, selected>>
  BY DEF ConstructChild, counts, EnumerateFiles, Boxes
<1>3. mark[p] # "indeterminate" /\ p # c
  BY <1>2, OnDisk, ChildOf, AboveIsFolder DEF GrowthInv, TypeOK, HasArrived, IsCounting
<1>4. \A q \in Disk : mark'[q] = IF q = c THEN mark[p] ELSE mark[q]
  BY <1>3 DEF ConstructChild, GrowthInv, TypeOK
<1>5. ASSUME NEW q \in Folders, children[q] = "loading" \/ IsCounting(q)
      PROVE  q # c
  BY <1>2, <1>5 DEF GrowthInv, Grows, IsCounting
<1>6. ChildrenTakeMark'
  <2>1. ASSUME NEW q \in Folders, children[q] = "loading",
               NEW d \in EnumerateFiles(q) \cap built'
        PROVE  mark'[d] = mark'[q]
    <3>1. CASE d = c
      <4>1. q = p
        BY <1>2, <3>1 DEF EnumerateFiles
      <4> QED BY <1>3, <1>4, <3>1, <4>1, OnDisk
    <3>2. CASE d # c
      <4>1. d \in Disk /\ d \in built /\ q \in Disk
        BY <1>2, <2>1, <3>2, OnDisk DEF EnumerateFiles
      <4> QED BY <1>4, <1>5, <2>1, <3>2, <4>1 DEF Agreement, ChildrenTakeMark
    <3> QED BY <3>1, <3>2
  <2>2. ASSUME NEW q \in Folders, IsCounting(q)
        PROVE  mark'[q] # "indeterminate"
    BY <1>4, <1>5, <2>2, OnDisk DEF Agreement, ChildrenTakeMark
  <2> QED BY <1>2, <2>1, <2>2 DEF ChildrenTakeMark, IsCounting
<1>7. \A b \in Boxes : b \in Disk /\ mark'[b] = mark[b]
  BY <1>2, <1>4 DEF Boxes, GrowthInv, TypeOK
<1>8. MarkedAlike'
  BY <1>1, <1>7 DEF Agreement, MarkedAlike
<1>9. Mixed'
  <2>1. ASSUME NEW q \in Folders, mark'[q] = "indeterminate"
        PROVE  \E a, b \in Counted(q) : mark'[a] = "checked" /\ mark'[b] # "checked"
    <3>1. mark[q] = "indeterminate"
      BY <1>3, <1>4, <2>1, OnDisk
    <3>2. PICK a \in Counted(q), b \in Counted(q) : mark[a] = "checked" /\ mark[b] # "checked"
      BY <3>1 DEF Agreement, Mixed
    <3> QED BY <1>1, <1>7, <3>2
  <2> QED BY <1>1, <2>1 DEF Mixed
<1>10. SelectedRight'
  <2>1. ASSUME NEW q \in Folders PROVE Checked(mark', Counted(q)) = Checked(mark, Counted(q))
    BY <1>1, <1>7 DEF Checked
  <2>2. \A q \in Folders : children[q] = "added" => mark'[q] = mark[q]
    BY <1>4, <1>5, OnDisk DEF IsCounting
  <2> QED BY <1>1, <1>2, <2>1, <2>2 DEF Agreement, SelectedRight
<1> QED BY <1>6, <1>8, <1>9, <1>10 DEF Agreement

\* When children take the place of the placeholder, the boxes below the folder
\* and those above it agree with them.
LEMMA ArrivalKeepsMarks ==
    ASSUME GrowthInv, Agreement, NEW p \in Folders, children[p] = "loading",
           EnumerateFiles(p) \subseteq built,
           NEW arrived \in {"uncounted", "loaded"},
           children' = [children EXCEPT ![p] = arrived],
           UNCHANGED <<built, mark>>
    PROVE  MarkedAlike' /\ ChildrenTakeMark'
<1>1. /\ \A q \in Folders : children'[q] = IF q = p THEN arrived ELSE children[q]
      /\ p \in Disk /\ p \in Boxes
  BY OnDisk DEF GrowthInv, TypeOK, Grows
<1>2. mark[p] # "indeterminate" /\ \A c \in EnumerateFiles(p) : mark[c] = mark[p]
  BY <1>1 DEF GrowthInv, TypeOK, HasArrived, IsCounting, Agreement, ChildrenTakeMark
<1>3. ChildrenTakeMark'
  BY <1>1, <1>2 DEF Agreement, ChildrenTakeMark, IsCounting
<1>4. ASSUME NEW c \in Boxes'
      PROVE  c \in Disk /\ (c \in Boxes \/ c \in EnumerateFiles(p))
  <2>1. c \in Disk /\ c \in built
    BY DEF Boxes, GrowthInv, TypeOK
  <2>2. Len(c) = 1 \/ RemoveLastPathComponent(c) \in Folders
    BY <2>1, DiskAssumption DEF RemoveLastPathComponent
  <2>3. RemoveLastPathComponent(c) = p => c \in EnumerateFiles(p)
    BY <2>1, ChildOf
  <2> QED BY <1>1, <2>1, <2>2, <2>3 DEF Boxes, HasArrived, IsCounting
<1>5. ASSUME NEW q \in Boxes' \cap Folders, mark[q] # "indeterminate",
             NEW c \in Boxes', IsAbove(q, c)
      PROVE  mark[c] = mark[q]
  <2>1. q \in Disk /\ c \in Disk
    BY <1>4
  <2>2. CASE c \in Boxes
    <3>1. q \in Boxes
      BY <1>5, <2>1, <2>2, BoxesAreReached
    <3> QED BY <1>5, <2>2, <3>1 DEF Agreement, MarkedAlike
  <2>3. CASE c \in EnumerateFiles(p)
    <3>1. q = p \/ IsAbove(q, p)
      BY <1>5, <2>3, AboveChild DEF Above
    <3>2. q \in Boxes
      BY <1>1, <2>1, <3>1, BoxesAreReached
    <3>3. mark[p] = mark[q]
      BY <1>1, <1>5, <3>1, <3>2 DEF Agreement, MarkedAlike
    <3> QED BY <1>2, <2>3, <3>3
  <2> QED BY <1>4, <2>2, <2>3
<1>6. MarkedAlike'
  BY <1>5 DEF MarkedAlike
<1> QED BY <1>3, <1>6

LEMMA ArriveInVolumeAgreement ==
    ASSUME GrowthInv, Agreement, NEW p \in Folders, ArriveInVolume(p)
    PROVE  Agreement'
<1>1. MarkedAlike' /\ ChildrenTakeMark'
  BY ArrivalKeepsMarks DEF ArriveInVolume
<1>2. \A q \in Folders : /\ IsCounted(q)' <=> IsCounted(q)
                         /\ children'[q] = "added" <=> children[q] = "added"
  BY DEF ArriveInVolume, GrowthInv, TypeOK, IsCounted
<1>3. \A q \in Folders : Counted(q)' = Counted(q)
  BY <1>2, CountedAsBefore DEF ArriveInVolume
<1>4. Mixed' /\ SelectedRight'
  BY <1>2, <1>3 DEF ArriveInVolume, Agreement, Mixed, SelectedRight, counts
<1> QED BY <1>1, <1>4 DEF Agreement

LEMMA ExpandAgreement ==
    ASSUME GrowthInv, Agreement, NEW p \in Folders, Expand(p)
    PROVE  Agreement'
<1>1. /\ Boxes' = Boxes /\ \A q \in Folders : Counted(q)' = Counted(q)
      /\ UNCHANGED <<mark, selected, built>>
  BY ExpandGrowth DEF Expand, counts
<1>2. MarkedAlike' /\ Mixed' /\ SelectedRight'
  <2>1. \A q \in Folders : children'[q] = "added" <=> children[q] = "added"
    BY DEF Expand
  <2> QED BY <1>1, <2>1 DEF Agreement, MarkedAlike, Mixed, SelectedRight
<1>3. ChildrenTakeMark'
  <2>1. ASSUME NEW q \in Folders
        PROVE  /\ IsCounting(q)' => IsCounting(q)
               /\ children'[q] = "loading" =>
                     children[q] = "loading" \/ EnumerateFiles(q) \cap built = {}
    BY DEF Expand, GrowthInv, Grows, IsCounting
  <2> QED BY <1>1, <2>1 DEF Agreement, ChildrenTakeMark
<1> QED BY <1>2, <1>3 DEF Agreement

\* The counts of the folders above, when the children's marks are the folder's own.
LEMMA ArriveAgreement ==
    ASSUME GrowthInv, Agreement, NEW p \in Folders, Arrive(p), GrowthInv', disturbed' = {}
    PROVE  Agreement'
<1>1. \A q \in Folders :
          IF q \in {p} \cup Above(p) THEN Counted(q)' = Counted(q) \cup EnumerateFiles(p)
          ELSE Counted(q)' = Counted(q)
  <2>1. ~IsCounted(p)
    BY DEF Arrive, IsCounted
  <2> QED BY <2>1, CountedWithChildren DEF Arrive
<1>2. Mixed'
  <2>1. \A q \in Folders : Counted(q) \subseteq Counted(q)'
    BY <1>1
  <2> QED BY <2>1 DEF Arrive, Agreement, Mixed
<1>3. /\ mark' = mark /\ ~ArrivesLate(p) /\ overlapped' = {}
      /\ mark[p] # "indeterminate" /\ \A c \in EnumerateFiles(p) : mark[c] = mark[p]
      /\ \A q \in Folders : children'[q] = IF q = p THEN "loaded" ELSE children[q]
  BY OnDisk
     DEF Arrive, GrowthInv, TypeOK, HasArrived, IsCounting, Agreement, ChildrenTakeMark
<1>4. ASSUME NEW q \in Folders, children'[q] # "added" \/ mark[q] # "checked"
      PROVE  selected'[q] = Cardinality(Checked(mark', Counted(q)'))
  <2>1. q \in Disk /\ selected[q] = Cardinality(Checked(mark, Counted(q)))
    BY <1>3, <1>4, OnDisk DEF Arrive, Agreement, SelectedRight
  <2>2. selected'[q] = IF q \in {p} \cup Above(p) /\ mark[q] = "checked" THEN total'[q]
                       ELSE selected[q]
    BY <2>1 DEF Arrive, AddToChildrenCount
  <2>3. CASE q \notin {p} \cup Above(p)
    BY <1>1, <1>3, <2>1, <2>2, <2>3
  <2>4. CASE q \in {p} \cup Above(p) /\ mark[q] = "checked"
    <3>1. total'[q] = Cardinality(Counted(q)')
      BY <1>3 DEF GrowthInv, TotalsCountBoxes
    <3>2. ASSUME NEW c \in Counted(q)' PROVE mark'[c] = "checked"
      <4>1. CASE c \in EnumerateFiles(p)
        <5>1. mark[p] = "checked"
          <6>1. CASE q = p
            BY <2>4, <6>1
          <6>2. CASE IsAbove(q, p)
            <7>1. p \in Boxes /\ p \in Disk
              BY OnDisk DEF Arrive, GrowthInv, Grows
            <7>2. q \in Boxes
              BY <2>1, <6>2, <7>1, BoxesAreReached
            <7> QED BY <2>4, <6>2, <7>1, <7>2 DEF Agreement, MarkedAlike
          <6> QED BY <2>4, <6>1, <6>2 DEF Above
        <5> QED BY <1>3, <4>1, <5>1
      <4>2. CASE c \in Counted(q)
        <5>1. c \in Boxes /\ IsAbove(q, c) /\ c \in Disk
          BY <2>1, <4>2, CountedAreBoxes
        <5>2. q \in Boxes
          BY <2>1, <5>1, BoxesAreReached
        <5> QED BY <1>3, <2>4, <5>1, <5>2 DEF Agreement, MarkedAlike
      <4> QED BY <1>1, <2>4, <4>1, <4>2
    <3>3. Checked(mark', Counted(q)') = Counted(q)'
      BY <3>2 DEF Checked
    <3> QED BY <2>2, <2>4, <3>1, <3>3
  <2>5. CASE q \in {p} \cup Above(p) /\ mark[q] # "checked"
    <3>1. EnumerateFiles(p) = {} \/ mark[p] # "checked"
      <4>1. mark[p] = "checked" => q # p
        BY <2>5
      <4> QED BY <1>3, <2>5, <4>1 DEF ArrivesLate
    <3>2. Checked(mark', Counted(q)') = Checked(mark, Counted(q))
      BY <1>1, <1>3, <2>5, <3>1 DEF Checked
    <3> QED BY <2>1, <2>2, <2>5, <3>2
  <2> QED BY <2>3, <2>4, <2>5
<1>5. SelectedRight'
  BY <1>3, <1>4 DEF SelectedRight
<1>6. MarkedAlike' /\ ChildrenTakeMark'
  BY ArrivalKeepsMarks DEF Arrive
<1> QED BY <1>2, <1>5, <1>6 DEF Agreement

LEMMA ReadVolumeTotalAgreement ==
    ASSUME GrowthInv, Agreement, NEW p \in Folders, ReadVolumeTotal(p)
    PROVE  Agreement'
<1>1. IsCounting(p)
  BY DEF ReadVolumeTotal, IsCounting
<1>2. /\ MarkedAlike' /\ ChildrenTakeMark'
      /\ \A q \in Folders : children'[q] = IF q = p THEN "adding" ELSE children[q]
  BY <1>1, PoolThreadStep DEF ReadVolumeTotal
<1>3. /\ \A q \in Folders : Counted(q)' = Counted(q)
      /\ \A q \in Folders : children'[q] = "added" <=> children[q] = "added"
  <2>1. children[p] = "uncounted"
    BY DEF ReadVolumeTotal
  <2> QED BY <1>2, <2>1, ReadVolumeTotalGrowth
<1>4. Mixed' /\ SelectedRight'
  BY <1>3 DEF ReadVolumeTotal, Agreement, Mixed, SelectedRight, counts
<1> QED BY <1>2, <1>4 DEF Agreement

\* The children have the volume's mark: either all of them are checked, and the
\* volume's count is brought up to date next, or none is.
LEMMA WriteVolumeTotalAgreement ==
    ASSUME GrowthInv, Agreement, NEW p \in Folders, WriteVolumeTotal(p)
    PROVE  Agreement'
<1>1. IsCounting(p) /\ mark' = mark /\ selected' = selected
  BY DEF WriteVolumeTotal, IsCounting
<1>2. /\ MarkedAlike' /\ ChildrenTakeMark'
      /\ \A q \in Folders : children'[q] = IF q = p THEN "added" ELSE children[q]
      /\ p \in Boxes /\ HasArrived(p) /\ EnumerateFiles(p) \subseteq built /\ Above(p) = {}
  BY <1>1, PoolThreadStep DEF WriteVolumeTotal
<1>3. \A q \in Folders : IF q = p THEN Counted(q)' = Counted(q) \cup EnumerateFiles(p)
                         ELSE Counted(q)' = Counted(q)
  <2>1. ~IsCounted(p)
    BY DEF WriteVolumeTotal, IsCounted
  <2> QED BY <1>2, <2>1, CountedWithChildren DEF WriteVolumeTotal
<1>4. Mixed'
  BY <1>1, <1>3 DEF Agreement, Mixed
<1>5. ASSUME NEW c \in EnumerateFiles(p) PROVE mark[c] = mark[p]
  <2>1. c \in Disk /\ RemoveLastPathComponent(c) = p /\ IsAbove(p, c)
    BY ChildOf DEF EnumerateFiles
  <2>2. c \in Boxes
    BY <1>2, <2>1 DEF Boxes
  <2>3. mark[p] # "indeterminate"
    BY <1>1 DEF Agreement, ChildrenTakeMark
  <2> QED BY <1>2, <2>1, <2>2, <2>3 DEF Agreement, MarkedAlike
<1>6. ASSUME NEW q \in Folders, children'[q] # "added" \/ mark[q] # "checked"
      PROVE  selected[q] = Cardinality(Checked(mark, Counted(q)'))
  <2>1. selected[q] = Cardinality(Checked(mark, Counted(q)))
    BY <1>2, <1>6 DEF WriteVolumeTotal, Agreement, SelectedRight
  <2>2. Checked(mark, Counted(q)') = Checked(mark, Counted(q))
    BY <1>2, <1>3, <1>5, <1>6 DEF Checked
  <2> QED BY <2>1, <2>2
<1>7. SelectedRight'
  BY <1>1, <1>6 DEF SelectedRight
<1> QED BY <1>2, <1>4, <1>7 DEF Agreement

LEMMA SelectInVolumeAgreement ==
    ASSUME GrowthInv, Agreement, overlapped = {}, NEW p \in Folders, SelectInVolume(p)
    PROVE  Agreement'
<1>1. IsCounting(p) /\ mark' = mark
  BY DEF SelectInVolume, IsCounting
<1>2. /\ MarkedAlike' /\ ChildrenTakeMark'
      /\ \A q \in Folders : children'[q] = IF q = p THEN "loaded" ELSE children[q]
      /\ p \in Boxes /\ p \in Disk
  BY <1>1, PoolThreadStep DEF SelectInVolume
<1>3. \A q \in Folders : Counted(q)' = Counted(q)
  BY SelectInVolumeGrowth
<1>4. Mixed'
  BY <1>1, <1>3 DEF Agreement, Mixed
<1>5. ASSUME NEW q \in Folders, children'[q] # "added" \/ mark[q] # "checked"
      PROVE  selected'[q] = Cardinality(Checked(mark, Counted(q)))
  <2>1. CASE q = p /\ mark[p] = "checked"
    <3>1. selected'[p] = total[p] /\ total[p] = Cardinality(Counted(p))
      BY <1>2, <2>1 DEF SelectInVolume, GrowthInv, TypeOK, TotalsCountBoxes
    <3>2. \A c \in Counted(p) : c \in Boxes /\ IsAbove(p, c)
      BY <1>2, CountedAreBoxes
    <3>3. Checked(mark, Counted(p)) = Counted(p)
      BY <1>2, <2>1, <3>2 DEF Checked, Agreement, MarkedAlike
    <3> QED BY <2>1, <3>1, <3>3
  <2>2. CASE q # p \/ mark[p] # "checked"
    <3>1. selected'[q] = selected[q]
      BY <1>2, <2>2, OnDisk DEF SelectInVolume, GrowthInv, TypeOK
    <3> QED BY <1>2, <1>5, <2>2, <3>1 DEF Agreement, SelectedRight
  <2> QED BY <2>1, <2>2
<1>6. SelectedRight'
  BY <1>1, <1>3, <1>5 DEF SelectedRight
<1> QED BY <1>2, <1>4, <1>6 DEF Agreement

-----------------------------------------------------------------------------
(* The invariant *)

LEMMA InitInv == Init => IInv
<1> SUFFICES ASSUME Init PROVE IInv
  OBVIOUS
<1>1. GrowthInv
  BY InitGrowth
<1>2. \A q \in Disk : mark[q] = "unchecked" /\ selected[q] = 0
  BY DEF Init
<1>3. ChildrenTakeMark /\ MarkedAlike /\ Mixed
  BY <1>2, OnDisk DEF ChildrenTakeMark, MarkedAlike, Mixed, EnumerateFiles, Boxes, Init, Volumes
<1>4. SelectedRight
  <2>1. ASSUME NEW q \in Folders PROVE Checked(mark, Counted(q)) = {}
    BY <1>1, <1>2, OnDisk, CountedAreBoxes DEF Checked
  <2> QED BY <1>2, <2>1, OnDisk, FS_EmptySet DEF SelectedRight
<1> QED BY <1>1, <1>3, <1>4 DEF IInv, Agreement

LEMMA NextInv == IInv /\ [Next]_vars => IInv'
<1> SUFFICES ASSUME IInv, [Next]_vars PROVE IInv'
  OBVIOUS
<1>1. GrowthInv /\ (disturbed = {} => Agreement)
  BY DEF IInv
<1>2. ASSUME NEW p \in Folders, NEW c \in Disk, ConstructChild(p, c) PROVE IInv'
  <2>1. disturbed' = disturbed
    BY <1>2 DEF ConstructChild
  <2> QED BY <1>1, <1>2, <2>1, ConstructChildGrowth, ConstructChildAgreement DEF IInv
<1>3. ASSUME NEW p \in Folders, Arrive(p) PROVE IInv'
  <2>1. disturbed' \subseteq {"late", "unselected", "raced"} /\ (disturbed' = {} => disturbed = {})
    BY <1>1, <1>3 DEF Arrive, GrowthInv, TypeOK
  <2>2. GrowthInv'
    BY <1>1, <1>3, ArriveGrowth
  <2> QED BY <1>1, <1>3, <2>1, <2>2, ArriveAgreement DEF IInv
<1>4. ASSUME NEW p \in Folders, ArriveInVolume(p) PROVE IInv'
  <2>1. disturbed' = disturbed
    BY <1>4 DEF ArriveInVolume
  <2> QED BY <1>1, <1>4, <2>1, ArriveInVolumeGrowth, ArriveInVolumeAgreement DEF IInv
<1>5. ASSUME NEW p \in Folders, ReadVolumeTotal(p) PROVE IInv'
  <2>1. disturbed' = disturbed
    BY <1>5 DEF ReadVolumeTotal
  <2> QED BY <1>1, <1>5, <2>1, ReadVolumeTotalGrowth, ReadVolumeTotalAgreement DEF IInv
<1>6. ASSUME NEW p \in Folders, WriteVolumeTotal(p) PROVE IInv'
  <2>1. disturbed' = disturbed
    BY <1>6 DEF WriteVolumeTotal
  <2> QED BY <1>1, <1>6, <2>1, WriteVolumeTotalGrowth, WriteVolumeTotalAgreement DEF IInv
<1>7. ASSUME NEW p \in Folders, SelectInVolume(p) PROVE IInv'
  <2>1. disturbed' = disturbed /\ (disturbed = {} => overlapped = {})
    BY <1>1, <1>7 DEF SelectInVolume, GrowthInv
  <2> QED BY <1>1, <1>7, <2>1, SelectInVolumeGrowth, SelectInVolumeAgreement DEF IInv
<1>8. ASSUME NEW p \in Folders, Expand(p) PROVE IInv'
  <2>1. disturbed' = disturbed
    BY <1>8 DEF Expand
  <2> QED BY <1>1, <1>8, <2>1, ExpandGrowth, ExpandAgreement DEF IInv
<1>9. ASSUME NEW p \in Disk, Click(p) PROVE IInv'
  <2>1. disturbed' = {} => disturbed = {}
    BY <1>9 DEF Click
  <2> QED BY <1>1, <1>9, <2>1, ClickGrowth, ClickAgreement DEF IInv
<1>10. CASE UNCHANGED vars
  <2>1. Boxes' = Boxes /\ \A q : Counted(q)' = Counted(q)
    BY <1>10 DEF vars, Boxes, HasArrived, IsCounting, Counted, IsCounted
  <2>2. GrowthInv'
    BY <1>1, <1>10, <2>1
       DEF vars, counts, pool, GrowthInv, TypeOK, Grows, HasArrived, IsCounting,
           FilesCountNothing, TotalsCountBoxes, HeldIsTotal
  <2>3. Agreement => Agreement'
    BY <1>10, <2>1
       DEF vars, counts, Agreement, ChildrenTakeMark, IsCounting, MarkedAlike, Mixed,
           SelectedRight
  <2> QED BY <1>1, <1>10, <2>2, <2>3 DEF IInv, vars
<1> QED BY <1>2, <1>3, <1>4, <1>5, <1>6, <1>7, <1>8, <1>9, <1>10 DEF Next

-----------------------------------------------------------------------------
(* The theorems *)

\* How the tree grows, and that marks and counts agree until one of the three
\* things happens, for every disk and any number of clicks.
THEOREM Invariance == Spec => []IInv
<1>1. Init => IInv
  BY InitInv
<1>2. IInv /\ [Next]_vars => IInv'
  BY NextInv
<1> QED BY <1>1, <1>2, PTL DEF Spec

\* Every variable keeps its type: no file, and no folder without its children, is
\* ever indeterminate.
THEOREM TypeCorrect == Spec => []TypeOK
<1>1. IInv => TypeOK
  BY DEF IInv, GrowthInv
<1> QED BY <1>1, Invariance, PTL

\* m_TotalChildrenCount is the number of the boxes below the folder, whatever was
\* clicked and whatever order the enumerations end in.  A volume that was between
\* reading and writing its total when the UI thread added to it may count fewer
\* boxes; nothing ever counts more.
THEOREM TotalsAreRight == Spec => []TotalsCountBoxes
<1>1. IInv => TotalsCountBoxes
  BY DEF IInv, GrowthInv
<1> QED BY <1>1, Invariance, PTL

\* m_TotalSelectedChildrenCount, which goes up and down by differences alone, is the
\* number of checked boxes below the folder until one of the three things happens.
THEOREM SelectedCountsAreRight == Spec => []SelectedCountsChecked
<1>1. IInv => SelectedCountsChecked
  BY DEF IInv, Agreement, SelectedRight, SelectedCountsChecked, Checked
<1> QED BY <1>1, Invariance, PTL

\* The marks agree with the boxes below them until one of the three things happens.
THEOREM MarksAreRight == Spec => []MarksAgree
<1>1. IInv => MarksAgree
  <2> SUFFICES ASSUME GrowthInv, Agreement, NEW p \in Boxes \cap Folders
               PROVE  LET below == {mark[c] : c \in {c \in Boxes : IsAbove(p, c)}}
                      IN  IF mark[p] = "indeterminate"
                          THEN \A m \in {"checked", "unchecked"} : below # {m}
                          ELSE below \subseteq {mark[p]}
    BY DEF IInv, MarksAgree
  <2> DEFINE below == {mark[c] : c \in {c \in Boxes : IsAbove(p, c)}}
  <2>1. CASE mark[p] = "indeterminate"
    <3>1. PICK c \in Counted(p), d \in Counted(p) : mark[c] = "checked" /\ mark[d] # "checked"
      BY <2>1 DEF Agreement, Mixed
    <3>2. c \in Boxes /\ IsAbove(p, c) /\ d \in Boxes /\ IsAbove(p, d)
      BY OnDisk, CountedAreBoxes
    <3>3. mark[c] \in below /\ mark[d] \in below
      BY <3>2
    <3> QED BY <2>1, <3>1, <3>3
  <2>2. CASE mark[p] # "indeterminate"
    <3>1. below \subseteq {mark[p]}
      BY <2>2 DEF Agreement, MarkedAlike
    <3> QED BY <2>2, <3>1
  <2> QED BY <2>1, <2>2
<1> QED BY <1>1, Invariance, PTL

=============================================================================
