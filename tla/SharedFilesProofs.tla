------------------------- MODULE SharedFilesProofs -------------------------
(***************************************************************************)
(* Lemmas about the look-ups of SharedFiles, for every disk and every      *)
(* setting of the check boxes: what is visible can be walked to.           *)
(***************************************************************************)
EXTENDS SharedFiles, WellFoundedInduction, TLAPS

-----------------------------------------------------------------------------
(* Paths *)

\* A set of naturals that is not empty has a least element.
LEMMA LeastNatural ==
    ASSUME NEW T, T \subseteq Nat, T # {}
    PROVE  \E n \in T : \A m \in T : n <= m
<1>1. PICK n \in T : \A m \in T : <<m, n>> \notin OpToRel(<, Nat)
  BY NatLessThanWellFounded, WFMin, Zenon
<1>2. SUFFICES ASSUME NEW m \in T
               PROVE  n <= m
  OBVIOUS
<1>3. <<m, n>> \notin OpToRel(<, Nat)
  BY <1>1
<1>4. <<m, n>> \in Nat \X Nat
  OBVIOUS
<1>5. ~(m < n)
  BY <1>3, <1>4 DEF OpToRel
<1> QED BY <1>5

\* Paths on disk are sequences that are not empty.
LEMMA PathTypes ==
    ASSUME NEW p \in Disk
    PROVE  /\ p \in Seq(Component)
           /\ Len(p) \in Nat /\ Len(p) > 0
           /\ p = SubSeq(p, 1, Len(p))
<1>1. p \in Seq(Component) /\ p # <<>>
  BY DiskAssumption
<1> QED BY <1>1

\* A prefix of a prefix is a prefix.
LEMMA PrefixOfPrefix ==
    ASSUME NEW p \in Seq(Component), NEW m \in 0 .. Len(p), NEW n \in 0 .. m
    PROVE  /\ SubSeq(p, 1, m) \in Seq(Component)
           /\ Len(SubSeq(p, 1, m)) = m
           /\ SubSeq(SubSeq(p, 1, m), 1, n) = SubSeq(p, 1, n)
OBVIOUS

\* What is not a volume lies in a folder.
LEMMA ParentIsFolder ==
    ASSUME NEW p \in Disk, Len(p) > 1
    PROVE  SubSeq(p, 1, Len(p) - 1) \in Folders
<1>1. Len(p) # 1
  <2>1. \A n \in Nat : n > 1 => n # 1
    OBVIOUS
  <2> QED BY <2>1, PathTypes, Zenon
<1> QED BY <1>1, DiskAssumption, Zenon

\* Folders and files are paths on disk.
LEMMA OnDisk == Folders \subseteq Disk /\ Files \subseteq Disk
BY DiskAssumption DEF Files

\* Every path on disk lies in folders up to its volume.
LEMMA PrefixIsFolder ==
    ASSUME NEW p \in Disk, NEW n \in 1 .. Len(p) - 1
    PROVE  SubSeq(p, 1, n) \in Folders
<1> DEFINE T == {k \in Nat : /\ k \in 1 .. Len(p) - 1
                             /\ SubSeq(p, 1, Len(p) - k) \notin Folders}
<1>1. p \in Seq(Component) /\ Len(p) \in Nat /\ Len(p) > 0
  BY PathTypes
<1>2. SUFFICES ASSUME SubSeq(p, 1, n) \notin Folders
               PROVE  FALSE
  OBVIOUS
<1>3. PICK k \in T : \A m \in T : k <= m
  <2>1. Len(p) - n \in 1 .. Len(p) - 1 /\ Len(p) - n \in Nat /\ Len(p) - (Len(p) - n) = n
    BY <1>1
  <2>2. Len(p) - n \in T
    BY <1>2, <2>1
  <2> HIDE DEF T
  <2>3. T \subseteq Nat
    BY DEF T
  <2> QED BY <2>2, <2>3, LeastNatural
<1>4. CASE k = 1
  <2>1. SubSeq(p, 1, Len(p) - 1) \in Folders
    BY <1>1, <1>3, <1>4, ParentIsFolder
  <2> QED BY <2>1, <1>3, <1>4
<1>5. CASE k # 1
  <2> DEFINE q == SubSeq(p, 1, Len(p) - (k - 1))
  <2>1. k - 1 \in 1 .. Len(p) - 1 /\ k - 1 \in Nat /\ ~(k <= k - 1)
    BY <1>1, <1>3, <1>5
  <2>2. q \in Folders
    BY <1>3, <2>1
  <2>3. /\ Len(q) = Len(p) - (k - 1)
        /\ SubSeq(q, 1, Len(p) - k) = SubSeq(p, 1, Len(p) - k)
    BY <1>1, <1>3, <2>1
  <2>4. Len(q) > 1 /\ Len(q) - 1 = Len(p) - k
    BY <1>1, <1>3, <2>1, <2>3
  <2> HIDE DEF q
  <2>5. SubSeq(q, 1, Len(q) - 1) \in Folders
    BY <2>2, <2>4, OnDisk, ParentIsFolder
  <2> QED BY <1>3, <2>3, <2>4, <2>5
<1> QED BY <1>4, <1>5

-----------------------------------------------------------------------------
(* Look-ups, whatever the three sets hold *)

\* A folder under a fully shared folder is fully shared.
LEMMA FullySharedBelow ==
    ASSUME NEW shared, NEW p \in Seq(Component), NEW m \in 0 .. Len(p),
           IsFolderFullyShared(shared, SubSeq(p, 1, m))
    PROVE  IsFolderFullyShared(shared, p)
<1>1. PICK n \in 1 .. Len(SubSeq(p, 1, m)) :
          SubSeq(SubSeq(p, 1, m), 1, n) \in shared.fullySharedFolders
  BY DEF IsFolderFullyShared
<1>2. n \in 1 .. m
  BY <1>1, PrefixOfPrefix
<1>3. SubSeq(SubSeq(p, 1, m), 1, n) = SubSeq(p, 1, n)
  BY <1>2, PrefixOfPrefix
<1>4. n \in 1 .. Len(p)
  BY <1>2
<1> QED BY <1>1, <1>3, <1>4 DEF IsFolderFullyShared

\* An entry that a fully shared folder lists unfiltered is visible when the
\* browser asks for it.
LEMMA UnfilteredIsVisible ==
    ASSUME NEW shared, NEW p, IsFolderFullyShared(shared, p),
           NEW c \in EnumerateFiles(p)
    PROVE  IsEntryVisible(shared, c)
<1>1. c \in Disk /\ RemoveLastPathComponent(c) = p
  BY DEF EnumerateFiles
<1>2. c \in Seq(Component) /\ Len(c) \in Nat /\ Len(c) > 0
  BY <1>1, PathTypes
<1>3. p = SubSeq(c, 1, Len(c) - 1) /\ Len(c) - 1 \in 0 .. Len(c)
  BY <1>1, <1>2 DEF RemoveLastPathComponent
<1>4. IsFolderFullyShared(shared, c)
  BY <1>2, <1>3, FullySharedBelow
<1> QED BY <1>1, <1>4 DEF IsEntryVisible, IsFolderVisible, IsFileShared

\* GetFolderContents returns the visible entries and no others, although it
\* does not filter a fully shared folder.
THEOREM ContentsAreVisible ==
    ASSUME NEW shared, NEW p
    PROVE  GetFolderContents(shared, p) =
               {c \in EnumerateFiles(p) : IsEntryVisible(shared, c)}
<1>1. CASE IsFolderFullyShared(shared, p)
  BY <1>1, UnfilteredIsVisible DEF GetFolderContents
<1>2. CASE ~IsFolderFullyShared(shared, p)
  BY <1>2 DEF GetFolderContents
<1> QED BY <1>1, <1>2

-----------------------------------------------------------------------------
(* Look-ups in the sets that the client collected *)

\* A path under a collected path that is indeterminate, or collected itself.
LEMMA CollectedParent ==
    ASSUME NEW marks, NEW p \in Disk, Len(p) > 1, IsCollected(marks, p)
    PROVE  /\ RemoveLastPathComponent(p) \in Folders
           /\ IsCollected(marks, RemoveLastPathComponent(p))
           /\ marks[RemoveLastPathComponent(p)] = "indeterminate"
<1> DEFINE q == SubSeq(p, 1, Len(p) - 1)
<1>1. p \in Seq(Component) /\ Len(p) \in Nat /\ Len(p) > 1
  BY PathTypes
<1>2. q \in Folders
  BY ParentIsFolder
<1>3. Len(q) = Len(p) - 1 /\ \A n \in 1 .. Len(q) : SubSeq(q, 1, n) = SubSeq(p, 1, n)
  BY <1>1
<1>4. \A n \in 1 .. Len(p) - 1 : marks[SubSeq(p, 1, n)] = "indeterminate"
  BY DEF IsCollected
<1>5. IsCollected(marks, q)
  <2>1. \A n \in 1 .. Len(q) - 1 : n \in 1 .. Len(p) - 1 /\ n \in 1 .. Len(q)
    BY <1>1, <1>3
  <2> HIDE DEF q
  <2> QED BY <1>3, <1>4, <2>1 DEF IsCollected
<1>6. marks[q] = "indeterminate"
  BY <1>1, <1>4
<1> QED BY <1>2, <1>5, <1>6 DEF RemoveLastPathComponent

\* The folder of whatever is visible is visible: the "Go up" link of a page
\* leads to a page, and so does every step up to the volume.
THEOREM ParentIsVisible ==
    ASSUME NEW marks, NEW p \in Disk, Len(p) > 1,
           IsEntryVisible(CollectSharedFiles(marks), p)
    PROVE  IsFolderVisible(CollectSharedFiles(marks), RemoveLastPathComponent(p))
<1> DEFINE shared == CollectSharedFiles(marks)
           q == RemoveLastPathComponent(p)
<1>1. p \in Seq(Component) /\ Len(p) \in Nat /\ Len(p) > 1
  BY PathTypes
<1>2. CASE IsCollected(marks, p)
  <2>1. q \in shared.partiallySharedFolders
    BY <1>2, CollectedParent, DiskAssumption DEF CollectSharedFiles
  <2> QED BY <2>1 DEF IsFolderVisible
<1>3. CASE ~IsCollected(marks, p)
  <2>1. p \notin shared.partiallySharedFolders /\ p \notin shared.files
        /\ p \notin shared.fullySharedFolders
    BY <1>3 DEF CollectSharedFiles
  <2>2. IsFolderFullyShared(shared, p) \/ IsFolderFullyShared(shared, q)
    BY <2>1 DEF IsEntryVisible, IsFolderVisible, IsFileShared
  <2>3. IsFolderFullyShared(shared, p) => IsFolderFullyShared(shared, q)
    <3>1. SUFFICES ASSUME NEW n \in 1 .. Len(p),
                          SubSeq(p, 1, n) \in shared.fullySharedFolders
                   PROVE  IsFolderFullyShared(shared, q)
      BY DEF IsFolderFullyShared
    <3>2. n # Len(p)
      BY <2>1, <3>1, PathTypes
    <3>3. n \in 1 .. Len(q) /\ SubSeq(q, 1, n) = SubSeq(p, 1, n)
      BY <1>1, <3>2 DEF RemoveLastPathComponent
    <3> HIDE DEF q
    <3> QED BY <3>1, <3>3 DEF IsFolderFullyShared
  <2> QED BY <2>2, <2>3 DEF IsFolderVisible
<1> QED BY <1>2, <1>3

\* A file that a browser can get has a checked box.
THEOREM SharedIsChecked ==
    ASSUME NEW marks \in ConsistentMarks, NEW f \in Files,
           IsFileShared(CollectSharedFiles(marks), f)
    PROVE  marks[f] = "checked"
<1> DEFINE shared == CollectSharedFiles(marks)
<1>1. f \in Disk /\ f \in Seq(Component)
  BY OnDisk, PathTypes
<1>2. PICK L \in Nat : L = Len(f) /\ L > 0
  BY <1>1, PathTypes
<1>3. CASE f \in shared.files
  BY <1>3 DEF CollectSharedFiles
<1>4. CASE IsFolderFullyShared(shared, RemoveLastPathComponent(f))
  <2> DEFINE q == SubSeq(f, 1, L - 1)
  <2>1. Len(q) = L - 1 /\ \A n \in 1 .. L - 1 : SubSeq(q, 1, n) = SubSeq(f, 1, n)
    BY <1>1, <1>2
  <2>2. PICK n \in 1 .. Len(q) : SubSeq(q, 1, n) \in shared.fullySharedFolders
    BY <1>2, <1>4 DEF IsFolderFullyShared, RemoveLastPathComponent
  <2>3. n \in 1 .. L - 1 /\ SubSeq(f, 1, n) \in shared.fullySharedFolders
    BY <2>1, <2>2
  <2> DEFINE a == SubSeq(f, 1, n)
  <2>4. a \in Disk /\ marks[a] = "checked"
    BY <2>3 DEF CollectSharedFiles
  <2>5. IsAbove(a, f)
    BY <1>1, <1>2, <2>3 DEF IsAbove
  <2> HIDE DEF a
  <2>6. \A r \in Disk : IsAbove(a, r) => marks[r] = marks[a]
    BY <2>4 DEF ConsistentMarks
  <2> QED BY <1>1, <2>4, <2>5, <2>6
<1> QED BY <1>3, <1>4 DEF IsFileShared

\* Every folder on the way to a checked file is visible, and so is the file: the
\* folders above the first prefix that is not indeterminate are partially shared,
\* and everything from that prefix on is fully shared.
THEOREM WayToCheckedIsVisible ==
    ASSUME NEW marks \in ConsistentMarks, NEW f \in Files, marks[f] = "checked",
           NEW k \in 1 .. Len(f)
    PROVE  IsEntryVisible(CollectSharedFiles(marks), SubSeq(f, 1, k))
<1> DEFINE shared == CollectSharedFiles(marks)
           prefix(m) == SubSeq(f, 1, m)
           g == prefix(k)
<1>1. f \in Disk /\ f \in Seq(Component) /\ f \notin Folders
  BY OnDisk, PathTypes DEF Files
<1>2. PICK L \in Nat : L = Len(f) /\ L > 0
  BY <1>1, PathTypes
<1>3. prefix(L) = f /\ k \in 1 .. L
  BY <1>1, <1>2
<1>4. \A m \in 1 .. L - 1 : prefix(m) \in Folders
  BY <1>1, <1>2, PrefixIsFolder
<1>5. \A m \in 1 .. L : prefix(m) \in Disk
  <2>1. \A m \in 1 .. L : m = L \/ m \in 1 .. L - 1
    BY <1>2
  <2> HIDE DEF prefix
  <2> QED BY <1>1, <1>3, <1>4, <2>1, OnDisk, Zenon
<1>6. \A m \in 1 .. L : /\ prefix(m) \in Seq(Component)
                        /\ Len(prefix(m)) = m
                        /\ \A j \in 1 .. m : SubSeq(prefix(m), 1, j) = prefix(j)
  BY <1>1, <1>2
<1>7. PICK n \in 1 .. L : /\ marks[prefix(n)] # "indeterminate"
                          /\ \A m \in 1 .. n - 1 : marks[prefix(m)] = "indeterminate"
  <2> DEFINE T == {m \in 1 .. L : marks[prefix(m)] # "indeterminate"}
  <2>1. L \in T
    <3> HIDE DEF prefix
    <3>1. L \in 1 .. L /\ marks[prefix(L)] = "checked"
      BY <1>2, <1>3
    <3> QED BY <3>1
  <2>2. PICK n \in T : \A m \in T : n <= m
    <3>1. T \subseteq Nat
      BY <1>2
    <3> HIDE DEF T
    <3> QED BY <2>1, <3>1, LeastNatural
  <2>3. \A m \in 1 .. n - 1 : m \in 1 .. L /\ ~(n <= m)
    BY <1>2, <2>2
  <2>4. \A m \in 1 .. n - 1 : marks[prefix(m)] = "indeterminate"
    BY <2>2, <2>3
  <2> QED BY <2>2, <2>4
<1> HIDE DEF prefix
<1>8. \A m \in 1 .. n : IsCollected(marks, prefix(m))
  <2>1. SUFFICES ASSUME NEW m \in 1 .. n, NEW j \in 1 .. Len(prefix(m)) - 1
                 PROVE  marks[SubSeq(prefix(m), 1, j)] = "indeterminate"
    BY DEF IsCollected
  <2>2. m \in 1 .. L /\ j \in 1 .. m /\ j \in 1 .. n - 1
    BY <1>2, <1>6, <1>7
  <2> QED BY <1>6, <1>7, <2>2
<1>9. marks[prefix(n)] = "checked"
  <2>1. CASE n = L
    BY <1>3, <2>1
  <2>2. CASE n # L
    <3>1. n \in 1 .. L - 1 /\ n < L
      BY <1>2, <1>7, <2>2
    <3>2. IsAbove(prefix(n), f)
      BY <1>2, <1>3, <1>6, <3>1 DEF IsAbove, prefix
    <3>3. prefix(n) \in Disk /\ marks[prefix(n)] # "indeterminate"
      BY <1>5, <1>7
    <3>4. marks[f] = marks[prefix(n)]
      BY <1>1, <3>2, <3>3 DEF ConsistentMarks
    <3> QED BY <3>4
  <2> QED BY <2>1, <2>2
<1>10. CASE k < n
  <2>1. k \in 1 .. n - 1 /\ k \in 1 .. L - 1 /\ k \in 1 .. n /\ k \in 1 .. L
    BY <1>2, <1>3, <1>7, <1>10
  <2>2. g \in Folders /\ g \in Disk /\ marks[g] = "indeterminate" /\ IsCollected(marks, g)
    BY <1>4, <1>5, <1>7, <1>8, <2>1
  <2> HIDE DEF g
  <2>3. g \in shared.partiallySharedFolders
    BY <2>2 DEF CollectSharedFiles
  <2> HIDE DEF shared
  <2>4. IsEntryVisible(shared, g)
    BY <2>2, <2>3 DEF IsEntryVisible, IsFolderVisible
  <2> QED BY <2>4 DEF g, shared, prefix
<1>11. CASE n <= k /\ n # L
  <2>1. n \in 1 .. L - 1 /\ n \in 1 .. n /\ n \in 1 .. k
    BY <1>2, <1>3, <1>7, <1>11
  <2>2. prefix(n) \in Folders /\ prefix(n) \in Disk /\ IsCollected(marks, prefix(n))
    BY <1>4, <1>5, <1>8, <2>1
  <2>3. prefix(n) \in shared.fullySharedFolders
    BY <1>9, <2>2 DEF CollectSharedFiles
  <2>4. g \in Seq(Component) /\ Len(g) = k /\ SubSeq(g, 1, n) = prefix(n)
    BY <1>3, <1>6, <2>1
  <2> HIDE DEF g, shared
  <2>5. IsFolderFullyShared(shared, g)
    BY <2>1, <2>3, <2>4 DEF IsFolderFullyShared
  <2>6. g \in Folders => IsEntryVisible(shared, g)
    BY <2>5 DEF IsEntryVisible, IsFolderVisible
  <2>7. ASSUME g \notin Folders
        PROVE  IsEntryVisible(shared, g)
    <3>1. n # k
      BY <2>2, <2>7 DEF g
    <3>2. n \in 1 .. k - 1 /\ k - 1 \in 1 .. k
      BY <1>3, <2>1, <3>1
    <3> DEFINE h == SubSeq(g, 1, k - 1)
    <3>3. Len(h) = k - 1 /\ SubSeq(h, 1, n) = prefix(n)
      BY <2>4, <3>2
    <3>4. IsFolderFullyShared(shared, h)
      <4> HIDE DEF h
      <4> QED BY <2>3, <3>2, <3>3 DEF IsFolderFullyShared
    <3>5. h = RemoveLastPathComponent(g)
      BY <2>4 DEF RemoveLastPathComponent
    <3> QED BY <2>7, <3>4, <3>5 DEF IsEntryVisible, IsFileShared
  <2>8. IsEntryVisible(shared, g)
    BY <2>6, <2>7
  <2> QED BY <2>8 DEF g, shared, prefix
<1>12. CASE n = L /\ n <= k
  <2>1. k = L
    BY <1>2, <1>3, <1>12
  <2>2. g = f
    BY <1>3, <2>1
  <2>3. n \in 1 .. n
    BY <1>7
  <2>4. IsCollected(marks, f)
    BY <1>3, <1>8, <1>12, <2>3
  <2>5. f \in shared.files
    BY <1>1, <2>4 DEF CollectSharedFiles
  <2> HIDE DEF shared
  <2>6. IsEntryVisible(shared, f)
    BY <1>1, <2>5 DEF IsEntryVisible, IsFileShared
  <2> QED BY <2>2, <2>6 DEF shared, g, prefix
<1>13. k < n \/ n <= k
  BY <1>3, <1>7
<1> QED BY <1>10, <1>11, <1>12, <1>13

=============================================================================
