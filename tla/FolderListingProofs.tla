------------------------ MODULE FolderListingProofs ------------------------
(***************************************************************************)
(* Proofs about FolderListing, for every disk and every setting of the     *)
(* check boxes: the sharing checks refuse no link of a page, whatever the  *)
(* disk does, each listing is exact, and what can be reached is what is    *)
(* checked.                                                                *)
(***************************************************************************)
EXTENDS FolderListing, SharedFilesProofs, FiniteSetTheorems

-----------------------------------------------------------------------------
(* The vector *)

\* An enumeration of a set holds each element once.
LEMMA EnumerationFacts ==
    ASSUME NEW S, IsFiniteSet(S), NEW s \in SetToSeqs(S)
    PROVE  /\ s \in Seq(S)
           /\ Len(s) = Cardinality(S)
           /\ IsInjective(s)
           /\ ToSet(s) = S
<1> DEFINE n == Cardinality(S)
<1>1. n \in Nat
  BY FS_CardinalityType
<1>2. s \in [1 .. n -> S] /\ \A i1, j1 \in 1 .. n : i1 # j1 => s[i1] # s[j1]
  BY DEF SetToSeqs
<1> HIDE DEF n
<1>3. s \in Seq(S) /\ Len(s) = n /\ DOMAIN s = 1 .. n
  BY <1>1, <1>2
<1>4. IsInjective(s)
  BY <1>2, <1>3 DEF IsInjective
<1>5. s \in Injection(1 .. n, S)
  BY <1>2, <1>4 DEF Injection
<1>6. IsFiniteSet(1 .. n) /\ Cardinality(1 .. n) = n
  BY <1>1, FS_Interval
<1>7. s \in Surjection(1 .. n, S)
  BY <1>5, <1>6, FS_Injection DEF n
<1>8. \A c \in S : \E k \in 1 .. n : s[k] = c
  BY <1>7 DEF Surjection
<1>9. ToSet(s) = S
  BY <1>2, <1>3, <1>8 DEF ToSet
<1> QED BY <1>3, <1>4, <1>9 DEF n

\* Moving the last element into place k drops element k and no other.
LEMMA MoveLastFacts ==
    ASSUME NEW S, NEW s \in Seq(S), NEW k \in 1 .. Len(s), k < Len(s), IsInjective(s),
           NEW r, r = Front(ReplaceAt(s, k, Last(s)))
    PROVE  /\ r \in Seq(S)
           /\ Len(r) = Len(s) - 1
           /\ IsInjective(r)
           /\ ToSet(r) = ToSet(s) \ {s[k]}
           /\ \A j \in 1 .. k - 1 : r[j] = s[j]
<1> PICK n \in Nat : n = Len(s) /\ n > 0
  OBVIOUS
<1> DEFINE t == [s EXCEPT ![k] = s[n]]
<1>1. t \in Seq(S) /\ Len(t) = n /\ r = SubSeq(t, 1, n - 1)
  BY DEF Front, ReplaceAt, Last
<1>2. \A j \in 1 .. n : t[j] = IF j = k THEN s[n] ELSE s[j]
  OBVIOUS
<1> HIDE DEF t
<1>3. /\ r \in Seq(S) /\ Len(r) = n - 1 /\ DOMAIN r = 1 .. n - 1
      /\ \A j \in 1 .. n - 1 : r[j] = IF j = k THEN s[n] ELSE s[j]
  BY <1>1, <1>2
<1>4. DOMAIN s = 1 .. n /\ \A a, b \in 1 .. n : s[a] = s[b] => a = b
  BY DEF IsInjective
<1>5. IsInjective(r)
  BY <1>3, <1>4 DEF IsInjective
<1>6. ToSet(r) = ToSet(s) \ {s[k]}
  <2>1. ASSUME NEW j \in 1 .. n - 1
        PROVE  r[j] \in ToSet(s) \ {s[k]}
    BY <1>3, <1>4, <2>1 DEF ToSet
  <2>2. ASSUME NEW j \in 1 .. n, s[j] # s[k]
        PROVE  s[j] \in ToSet(r)
    <3>1. CASE j = n
      <4>1. r[k] = s[n] /\ k \in DOMAIN r
        BY <1>3
      <4> QED BY <3>1, <4>1 DEF ToSet
    <3>2. CASE j # n
      <4>1. r[j] = s[j] /\ j \in DOMAIN r
        BY <1>3, <2>2, <3>2
      <4> QED BY <4>1 DEF ToSet
    <3> QED BY <3>1, <3>2
  <2>3. ToSet(r) \subseteq ToSet(s) \ {s[k]}
    BY <1>3, <2>1 DEF ToSet
  <2>4. ToSet(s) \ {s[k]} \subseteq ToSet(r)
    BY <1>4, <2>2 DEF ToSet
  <2> QED BY <2>3, <2>4
<1>7. \A j \in 1 .. k - 1 : r[j] = s[j]
  BY <1>3
<1> QED BY <1>3, <1>5, <1>6, <1>7

\* Removing the last element drops it and no other.
LEMMA PopBackFacts ==
    ASSUME NEW S, NEW s \in Seq(S), Len(s) > 0, IsInjective(s),
           NEW r, r = Front(s)
    PROVE  /\ r \in Seq(S)
           /\ Len(r) = Len(s) - 1
           /\ IsInjective(r)
           /\ ToSet(r) = ToSet(s) \ {s[Len(s)]}
           /\ \A j \in 1 .. Len(s) - 1 : r[j] = s[j]
<1> PICK n \in Nat : n = Len(s) /\ n > 0
  OBVIOUS
<1>1. /\ r \in Seq(S) /\ Len(r) = n - 1 /\ DOMAIN r = 1 .. n - 1
      /\ \A j \in 1 .. n - 1 : r[j] = s[j]
  BY DEF Front
<1>2. DOMAIN s = 1 .. n /\ \A a, b \in 1 .. n : s[a] = s[b] => a = b
  BY DEF IsInjective
<1>3. IsInjective(r)
  BY <1>1, <1>2 DEF IsInjective
<1>4. ToSet(r) = ToSet(s) \ {s[n]}
  <2>1. ASSUME NEW j \in 1 .. n - 1
        PROVE  r[j] \in ToSet(s) \ {s[n]}
    BY <1>1, <1>2, <2>1 DEF ToSet
  <2>2. ASSUME NEW j \in 1 .. n, s[j] # s[n]
        PROVE  s[j] \in ToSet(r)
    <3>1. j \in 1 .. n - 1
      BY <2>2
    <3> QED BY <1>1, <3>1 DEF ToSet
  <2>3. ToSet(r) \subseteq ToSet(s) \ {s[n]}
    BY <1>1, <2>1 DEF ToSet
  <2>4. ToSet(s) \ {s[n]} \subseteq ToSet(r)
    BY <1>2, <2>2 DEF ToSet
  <2> QED BY <2>3, <2>4
<1> QED BY <1>1, <1>3, <1>4

-----------------------------------------------------------------------------
(* The inductive invariant *)

\* Entries of a folder are paths on disk.
LEMMA EntriesOnDisk ==
    ASSUME NEW p
    PROVE  /\ Entries(p) \subseteq Disk
           /\ IsFiniteSet(Entries(p))
           /\ Cardinality(Entries(p)) \in Nat
           /\ Cardinality(Entries(p)) <= Cardinality(Disk)
           /\ Cardinality(Disk) \in Nat
<1>1. Entries(p) \subseteq Disk
  BY DEF Entries, Volumes, EnumerateFiles
<1>2. IsFiniteSet(Entries(p)) /\ Cardinality(Entries(p)) <= Cardinality(Disk)
  BY <1>1, SizeMaxAssumption, FS_Subset
<1> QED BY <1>1, <1>2, SizeMaxAssumption, FS_CardinalityType

\* The walk begins with a request for the home page.
LEMMA InitInvariant == Init => IInv
<1> SUFFICES ASSUME Init
             PROVE  IInv
  OBVIOUS
<1>1. TypeOK
  BY SizeMaxAssumption DEF Init, TypeOK, Page
<1>2. page = "request" /\ path = <<>>
  BY DEF Init
<1> QED BY <1>1, <1>2 DEF IInv, RequestIsVisible, PageIsVisible, FilterInvariant, NoBrokenLink

\* An enumeration that does not break off finds every entry, and leaves no error.
LEMMA EnumerateFacts ==
    ASSUME NEW p, Enumerate(p)
    PROVE  /\ items' \in Seq(Entries(p))
           /\ Len(items') <= Cardinality(Disk)
           /\ IsInjective(items')
           /\ lastError' \in LastError
           /\ p \notin Unreadable => lastError' = "success" /\ ToSet(items') = Entries(p)
<1>1. CASE p \in Unreadable /\ items' = <<>> /\ lastError' = "failed"
  <2>1. IsInjective(<<>>)
    BY DEF IsInjective
  <2> QED BY <1>1, <2>1, EntriesOnDisk DEF LastError
<1>2. CASE ~(p \in Unreadable /\ items' = <<>> /\ lastError' = "failed")
  <2>1. PICK found : /\ items' \in SetToSeqs(found)
                     /\ found \in IF p \in Unreadable THEN SUBSET Entries(p)
                                  ELSE {Entries(p)}
    BY <1>2 DEF Enumerate
  <2>2. lastError' = "success"
    BY <1>2 DEF Enumerate
  <2>3. found \subseteq Entries(p) /\ (p \notin Unreadable => found = Entries(p))
    BY <2>1
  <2>4. /\ IsFiniteSet(found)
        /\ Cardinality(found) <= Cardinality(Entries(p))
        /\ Cardinality(found) \in Nat
    BY <2>3, EntriesOnDisk, FS_Subset, FS_CardinalityType
  <2>5. /\ items' \in Seq(found)
        /\ Len(items') = Cardinality(found)
        /\ IsInjective(items')
        /\ ToSet(items') = found
    BY <2>1, <2>4, EnumerationFacts
  <2>6. items' \in Seq(Entries(p))
    BY <2>3, <2>5
  <2>7. Len(items') <= Cardinality(Disk)
    BY <2>4, <2>5, EntriesOnDisk
  <2> QED BY <2>2, <2>3, <2>5, <2>6, <2>7 DEF LastError
<1> QED BY <1>1, <1>2

\* An enumeration begins the loop, and without a filter when the folder is fully
\* shared.
LEMMA ListEntriesStep ==
    ASSUME IInv, ListEntries
    PROVE  IInv'
<1>1. /\ i' = 0 /\ path' = path /\ marks' = marks
      /\ page' = IF path # <<>> /\ IsFolderFullyShared(shared, path)
                 THEN "sort" ELSE "filter"
      /\ path = <<>> \/ (path \in Folders \ TooLong /\ IsFolderVisible(shared, path))
      /\ linked' = linked
  BY DEF ListEntries
<1>2. shared' = shared /\ Entries(path)' = Entries(path)
  BY <1>1 DEF shared, Entries
<1>3. /\ items' \in Seq(Entries(path))
      /\ Len(items') <= Cardinality(Disk)
      /\ IsInjective(items')
      /\ lastError' \in LastError
      /\ path \notin Unreadable => lastError' = "success" /\ ToSet(items') = Entries(path)
  BY EnumerateFacts DEF ListEntries
<1>4. TypeOK'
  <2>1. items' \in Seq(Disk)
    BY <1>3, EntriesOnDisk
  <2> QED BY <1>1, <1>3, <2>1, SizeMaxAssumption DEF TypeOK, IInv, Page, LastError
<1>5. page' # "filter" => \A c \in Entries(path) : IsEntryVisible(shared, c)
  BY <1>1, UnfilteredIsVisible DEF Entries
<1>6. FilterInvariant'
  <2>1. \A k \in DOMAIN items' : k \in Nat /\ k > 0 /\ items'[k] \in Entries(path)
    BY <1>3
  <2>2. \A k \in DOMAIN items' : k <= i' \/ page' # "filter" =>
            IsEntryVisible(shared, items'[k])
    BY <1>1, <1>5, <2>1
  <2>3. ToSet(items') \subseteq Entries(path)
    BY <2>1 DEF ToSet
  <2> QED BY <1>1, <1>2, <1>3, <2>2, <2>3 DEF FilterInvariant
<1> QED BY <1>1, <1>2, <1>4, <1>6
        DEF IInv, RequestIsVisible, PageIsVisible, NoBrokenLink

\* One round of the loop.
LEMMA FilterStepStep ==
    ASSUME IInv, FilterStep
    PROVE  IInv'
<1> PICK n \in Nat : n = Len(items)
  BY DEF IInv, TypeOK
<1>1. /\ page = "filter" /\ page' = "filter" /\ path' = path /\ marks' = marks
      /\ linked' = linked /\ lastError' = lastError
      /\ i \in Nat /\ i < n /\ items \in Seq(Disk) /\ i <= SizeMax
  BY DEF FilterStep, IInv, TypeOK
<1>2. shared' = shared /\ Entries(path)' = Entries(path)
  BY <1>1 DEF shared, Entries
<1>3. n <= Cardinality(Disk) /\ n < SizeMax /\ SizeMax \in Nat /\ Cardinality(Disk) \in Nat
  BY <1>1, SizeMaxAssumption, EntriesOnDisk DEF IInv, FilterInvariant
<1>4. /\ IsInjective(items)
      /\ ToSet(items) \subseteq Entries(path)
      /\ path \notin Unreadable =>
            \A c \in Entries(path) : IsEntryVisible(shared, c) => c \in ToSet(items)
      /\ \A k \in 1 .. i : IsEntryVisible(shared, items[k])
  <2>1. \A k \in 1 .. i : k \in DOMAIN items /\ k <= i
    BY <1>1
  <2> QED BY <1>1, <2>1 DEF IInv, FilterInvariant
\* It is enough to show what the loop keeps.
<1>5. SUFFICES /\ items' \in Seq(Disk)
               /\ Len(items') <= n
               /\ i' \in 0 .. n
               /\ IsInjective(items')
               /\ ToSet(items') \subseteq Entries(path)
               /\ path \notin Unreadable =>
                     \A c \in Entries(path) :
                        IsEntryVisible(shared, c) => c \in ToSet(items')
               /\ \A k \in DOMAIN items' : k <= i' => IsEntryVisible(shared, items'[k])
  <2>1. TypeOK'
    BY <1>1, <1>3, <1>5 DEF IInv, TypeOK, Page
  <2>2. Len(items') <= Cardinality(Disk)
    BY <1>3, <1>5
  <2>3. path \notin Unreadable => lastError' = "success"
    BY <1>1 DEF IInv, FilterInvariant
  <2>4. FilterInvariant'
    BY <1>1, <1>2, <1>5, <2>2, <2>3 DEF FilterInvariant
  <2>5. PageIsVisible' /\ RequestIsVisible' /\ NoBrokenLink'
    BY <1>1, <1>2 DEF IInv, PageIsVisible, RequestIsVisible, NoBrokenLink
  <2> QED BY <2>1, <2>4, <2>5 DEF IInv
<1>6. CASE IsEntryVisible(shared, items[i + 1])
  <2>1. i' = i + 1 /\ items' = items
    BY <1>6 DEF FilterStep
  <2>2. \A k \in DOMAIN items : k <= i + 1 => k \in 1 .. i \/ k = i + 1
    BY <1>1
  <2> QED BY <1>1, <1>4, <1>6, <2>1, <2>2
<1>7. CASE ~IsEntryVisible(shared, items[i + 1]) /\ i < n - 1
  <2>1. i' = i
    <3>1. i' = (((i - 1) % (SizeMax + 1)) + 1) % (SizeMax + 1)
      BY <1>7 DEF FilterStep
    <3>2. CASE i = 0
      <4>1. (0 - 1) % (SizeMax + 1) = SizeMax
        BY <1>3
      <4> QED BY <1>3, <3>1, <3>2, <4>1
    <3>3. CASE i > 0
      <4>1. (i - 1) % (SizeMax + 1) = i - 1
        BY <1>1, <1>3, <3>3
      <4> QED BY <1>1, <1>3, <3>1, <4>1
    <3> QED BY <1>1, <3>2, <3>3
  <2>2. items' = Front(ReplaceAt(items, i + 1, Last(items)))
    BY <1>7 DEF FilterStep
  <2>3. i + 1 \in 1 .. Len(items) /\ i + 1 < Len(items)
    BY <1>1, <1>7
  <2>4. /\ items' \in Seq(Disk)
        /\ Len(items') = Len(items) - 1
        /\ IsInjective(items')
        /\ ToSet(items') = ToSet(items) \ {items[i + 1]}
        /\ \A j \in 1 .. (i + 1) - 1 : items'[j] = items[j]
    BY <1>1, <1>4, <2>2, <2>3, MoveLastFacts
  <2>5. \A k \in DOMAIN items' : k <= i' => IsEntryVisible(shared, items'[k])
    BY <1>1, <1>4, <2>1, <2>4
  <2>6. path \notin Unreadable =>
           \A c \in Entries(path) : IsEntryVisible(shared, c) => c \in ToSet(items')
    BY <1>4, <1>7, <2>4
  <2> QED BY <1>1, <1>4, <2>1, <2>4, <2>5, <2>6
<1>8. CASE ~IsEntryVisible(shared, items[i + 1]) /\ ~(i < n - 1)
  <2>1. i' = i + 1 /\ items' = Front(items)
    BY <1>8 DEF FilterStep
  <2>2. i + 1 = n /\ n > 0
    BY <1>1, <1>8
  <2>3. /\ items' \in Seq(Disk)
        /\ Len(items') = Len(items) - 1
        /\ IsInjective(items')
        /\ ToSet(items') = ToSet(items) \ {items[n]}
        /\ \A j \in 1 .. Len(items) - 1 : items'[j] = items[j]
    BY <1>1, <1>4, <2>1, <2>2, PopBackFacts
  <2>4. \A k \in DOMAIN items' : k \in 1 .. i
    <3>1. i = n - 1
      BY <1>1, <2>2
    <3>2. Len(items') = i
      BY <2>3, <3>1
    <3> QED BY <1>1, <2>3, <3>2
  <2>5. \A k \in DOMAIN items' : IsEntryVisible(shared, items'[k])
    BY <1>1, <1>4, <2>2, <2>3, <2>4
  <2>6. path \notin Unreadable =>
           \A c \in Entries(path) : IsEntryVisible(shared, c) => c \in ToSet(items')
    BY <1>4, <1>8, <2>2, <2>3
  <2> QED BY <1>1, <1>4, <2>1, <2>2, <2>3, <2>5, <2>6
<1> QED BY <1>6, <1>7, <1>8

\* The loop ends when the index is past the last entry.
LEMMA FilterEndStep ==
    ASSUME IInv, FilterEnd
    PROVE  IInv'
<1>1. /\ page = "filter" /\ page' = "sort" /\ i >= Len(items) /\ linked' = linked
      /\ marks' = marks /\ path' = path /\ items' = items /\ i' = i
      /\ lastError' = lastError
  BY DEF FilterEnd
<1>2. shared' = shared /\ Entries(path)' = Entries(path)
  BY <1>1 DEF shared, Entries
<1>3. \A k \in DOMAIN items : k <= i
  <2>1. items \in Seq(Disk) /\ i \in Nat
    BY DEF IInv, TypeOK
  <2> QED BY <1>1, <2>1
<1>4. FilterInvariant'
  BY <1>1, <1>2, <1>3 DEF IInv, FilterInvariant
<1> QED BY <1>1, <1>2, <1>4
        DEF IInv, TypeOK, Page, RequestIsVisible, PageIsVisible, NoBrokenLink

\* Sorting keeps the entries; an error is shown for an enumeration that failed.
LEMMA SortFilesStep ==
    ASSUME IInv, SortFiles
    PROVE  IInv'
<1>1. /\ page = "sort" /\ page' \in {"listing", "error"}
      /\ page' = "error" => lastError = "failed"
      /\ items' \in SetToSeqs(ToSet(items))
      /\ marks' = marks /\ path' = path /\ i' = i /\ linked' = linked
      /\ lastError' = lastError
  BY DEF SortFiles
<1>2. shared' = shared /\ Entries(path)' = Entries(path)
  BY <1>1 DEF shared, Entries
<1>3. /\ ToSet(items) \subseteq Entries(path)
      /\ path \notin Unreadable =>
            /\ lastError = "success"
            /\ \A c \in Entries(path) : IsEntryVisible(shared, c) => c \in ToSet(items)
      /\ \A c \in ToSet(items) : IsEntryVisible(shared, c)
  BY <1>1 DEF IInv, FilterInvariant, ToSet
<1>4. /\ IsFiniteSet(ToSet(items))
      /\ Cardinality(ToSet(items)) \in Nat
      /\ Cardinality(ToSet(items)) <= Cardinality(Entries(path))
  BY <1>3, EntriesOnDisk, FS_Subset, FS_CardinalityType
<1>5. /\ items' \in Seq(ToSet(items))
      /\ Len(items') = Cardinality(ToSet(items))
      /\ IsInjective(items')
      /\ ToSet(items') = ToSet(items)
  BY <1>1, <1>4, EnumerationFacts
<1>6. \A k \in DOMAIN items' : items'[k] \in ToSet(items)
  BY <1>5
<1>7. items' \in Seq(Disk) /\ Len(items') <= Cardinality(Disk)
  BY <1>3, <1>4, <1>5, EntriesOnDisk
<1>8. FilterInvariant'
  BY <1>1, <1>2, <1>3, <1>5, <1>6, <1>7 DEF FilterInvariant
<1>9. TypeOK'
  BY <1>1, <1>7 DEF IInv, TypeOK, Page, Answer
<1>10. NoBrokenLink'
  BY <1>1, <1>3 DEF NoBrokenLink
<1> QED BY <1>1, <1>2, <1>8, <1>9, <1>10
        DEF IInv, RequestIsVisible, PageIsVisible

\* A request for a path that is visible, if a link asks for it.
LEMMA RequestStep ==
    ASSUME IInv, NEW p \in Disk \cup {<<>>}, NEW byLink \in BOOLEAN, Request(p, byLink),
           byLink => p = <<>> \/ IsEntryVisible(shared, p)
    PROVE  IInv'
<1>1. /\ path' = p /\ linked' = byLink /\ lastError' \in LastError /\ page' = "request"
      /\ marks' = marks /\ items' = items /\ i' = i
  BY DEF Request
<1>2. shared' = shared
  BY <1>1 DEF shared
<1> QED BY <1>1, <1>2
        DEF IInv, TypeOK, Page, RequestIsVisible, PageIsVisible, FilterInvariant, NoBrokenLink

\* A link leads to a visible entry.
LEMMA FollowEntryStep ==
    ASSUME IInv, FollowEntry
    PROVE  IInv'
<1>1. PICK p \in ToSet(items) : page = "listing" /\ Request(p, TRUE)
  BY DEF FollowEntry
<1>2. p \in Disk /\ IsEntryVisible(shared, p)
  <2>1. PICK k \in DOMAIN items : p = items[k]
    BY <1>1 DEF ToSet
  <2> QED BY <1>1, <2>1 DEF IInv, TypeOK, FilterInvariant
<1> QED BY <1>1, <1>2, RequestStep

\* "Go up" on a page that a link led to, or on a listing, leads to the folder
\* above a visible path, or to the home page.
LEMMA GoUpStep ==
    ASSUME IInv, GoUp
    PROVE  IInv'
<1> DEFINE p == RemoveLastPathComponent(path)
           byLink == page = "listing" \/ linked
<1>1. Request(p, byLink) /\ byLink \in BOOLEAN
  BY DEF GoUp, IInv, TypeOK
<1>2. path = <<>> => p = <<>>
  <2>1. SubSeq(<<>>, 1, Len(<<>>) - 1) = <<>>
    OBVIOUS
  <2> QED BY <2>1 DEF RemoveLastPathComponent
<1>3. path # <<>> => /\ p \in Disk \cup {<<>>}
                     /\ byLink => p = <<>> \/ IsEntryVisible(shared, p)
  <2> SUFFICES ASSUME path # <<>>
               PROVE  /\ p \in Disk \cup {<<>>}
                      /\ byLink => p = <<>> \/ IsEntryVisible(shared, p)
    OBVIOUS
  <2>1. path \in Disk
    BY DEF IInv, TypeOK
  <2>2. path \in Seq(Component) /\ Len(path) \in Nat /\ Len(path) > 0
    BY <2>1, PathTypes
  <2>3. CASE Len(path) > 1
    <3>1. p \in Folders /\ p \in Disk
      BY <2>1, <2>3, ParentIsFolder, OnDisk DEF RemoveLastPathComponent
    <3>2. byLink => IsEntryVisible(shared, path)
      BY DEF IsEntryVisible, IInv, RequestIsVisible, PageIsVisible
    <3>3. byLink => IsFolderVisible(shared, p)
      BY <2>1, <2>3, <3>2, ParentIsVisible DEF shared
    <3> QED BY <3>1, <3>3 DEF IsEntryVisible
  <2>4. CASE ~(Len(path) > 1)
    <3>1. p = <<>>
      BY <2>2, <2>4 DEF RemoveLastPathComponent
    <3> QED BY <3>1
  <2> QED BY <2>3, <2>4
<1> HIDE DEF p, byLink
<1>4. p \in Disk \cup {<<>>} /\ (byLink => p = <<>> \/ IsEntryVisible(shared, p))
  BY <1>2, <1>3
<1> QED BY <1>1, <1>4, RequestStep

\* The home page can always be asked for.
LEMMA ReturnHomeStep ==
    ASSUME IInv, ReturnHome
    PROVE  IInv'
<1>1. Request(<<>>, TRUE)
  BY DEF ReturnHome
<1> QED BY <1>1, RequestStep

\* Nothing is known of an address that is entered.
LEMMA EnterAddressStep ==
    ASSUME IInv, EnterAddress
    PROVE  IInv'
<1>1. PICK p \in Disk \cup {<<>>} : Request(p, FALSE)
  BY DEF EnterAddress
<1> QED BY <1>1, RequestStep

\* An answer of the disk: its page needs no more than its cause.
LEMMA ReportStatusStep ==
    ASSUME IInv, ReportStatus
    PROVE  IInv'
<1>1. /\ page' = "error" /\ path \in NoStatus /\ lastError' = "success"
      /\ marks' = marks /\ path' = path /\ items' = items /\ i' = i /\ linked' = linked
  BY DEF ReportStatus
<1>2. shared' = shared
  BY <1>1 DEF shared
<1> QED BY <1>1, <1>2
        DEF IInv, TypeOK, Page, Answer, LastError, RequestIsVisible, PageIsVisible,
            FilterInvariant, NoBrokenLink

\* A folder that a link led to is refused only when its path is too long.
LEMMA RefuseFolderStep ==
    ASSUME IInv, RefuseFolder
    PROVE  IInv'
<1>1. /\ page = "request" /\ path \in Folders
      /\ \/ path \in TooLong /\ page' = "error"
         \/ ~IsFolderVisible(shared, path) /\ page' = "refused"
      /\ marks' = marks /\ path' = path /\ items' = items /\ i' = i /\ linked' = linked
      /\ lastError' = lastError
  BY DEF RefuseFolder
<1>2. path # <<>>
  <2>1. path \in Disk
    BY <1>1, OnDisk
  <2> QED BY <2>1, DiskAssumption
<1>3. linked => path \in TooLong /\ page' = "error"
  BY <1>1, <1>2 DEF IInv, RequestIsVisible, IsEntryVisible
<1>4. shared' = shared /\ page' \in {"error", "refused"}
  BY <1>1 DEF shared
<1> QED BY <1>1, <1>3, <1>4
        DEF IInv, TypeOK, Page, Answer, RequestIsVisible, PageIsVisible, FilterInvariant,
            NoBrokenLink

\* A file that a link led to is shared: it is sent, unless it does not open.
LEMMA RequestFileStep ==
    ASSUME IInv, RequestFile
    PROVE  IInv'
<1>1. /\ page = "request" /\ path \in Files
      /\ \/ ~IsFileShared(shared, path) /\ page' = "refused"
         \/ IsFileShared(shared, path) /\ path \in Unopened /\ page' = "broken"
         \/ IsFileShared(shared, path) /\ page' = "file"
      /\ lastError' \in {lastError, "success"}
      /\ marks' = marks /\ path' = path /\ items' = items /\ i' = i /\ linked' = linked
  BY DEF RequestFile
<1>2. path # <<>> /\ path \notin Folders
  <2>1. path \in Disk
    BY <1>1, OnDisk
  <2> QED BY <1>1, <2>1, DiskAssumption DEF Files
<1>3. linked => page' # "refused"
  BY <1>1, <1>2 DEF IInv, RequestIsVisible, IsEntryVisible
<1>4. shared' = shared
  BY <1>1 DEF shared
<1>5. TypeOK'
  BY <1>1 DEF IInv, TypeOK, Page, Answer, LastError
<1> QED BY <1>1, <1>3, <1>4, <1>5
        DEF IInv, RequestIsVisible, PageIsVisible, FilterInvariant, NoBrokenLink

\* IInv is inductive.
LEMMA StepInvariant == IInv /\ [Next]_vars => IInv'
<1> SUFFICES ASSUME IInv, [Next]_vars
             PROVE  IInv'
  OBVIOUS
<1>1. CASE UNCHANGED vars
  BY <1>1 DEF vars, IInv, TypeOK, RequestIsVisible, PageIsVisible, FilterInvariant,
              NoBrokenLink, shared, Entries
<1>2. CASE Next
  BY <1>2, ReportStatusStep, ListEntriesStep, RefuseFolderStep, RequestFileStep,
     FilterStepStep, FilterEndStep, SortFilesStep, FollowEntryStep, GoUpStep,
     ReturnHomeStep, EnterAddressStep DEF Next
<1> QED BY <1>1, <1>2

\* IInv holds in every state of the walk.
THEOREM Invariance == Spec => []IInv
<1>1. Init => IInv
  BY InitInvariant
<1>2. IInv /\ [Next]_vars => IInv'
  BY StepInvariant
<1> QED BY <1>1, <1>2, PTL DEF Spec

-----------------------------------------------------------------------------
(* The properties *)

\* The walk's variables keep their types; the loop index stays a size_t.
THEOREM TypeCorrect == Spec => []TypeOK
<1>1. IInv => TypeOK
  BY DEF IInv
<1> QED BY <1>1, Invariance, PTL

\* No sharing check refuses a link of a page; a link that fails has its cause on
\* the disk.
THEOREM LinksLead == Spec => []NoBrokenLink
<1>1. IInv => NoBrokenLink
  BY DEF IInv
<1> QED BY <1>1, Invariance, PTL

\* FilterVector keeps exactly the visible entries, each once.
THEOREM ListingsExact == Spec => []ListingExact
<1>1. IInv => ListingExact
  <2> SUFFICES ASSUME IInv, page = "listing"
               PROVE  ListingExact
    BY DEF ListingExact
  <2>1. \A k \in DOMAIN items : IsEntryVisible(shared, items[k])
    BY DEF IInv, FilterInvariant
  <2>2. \A c \in ToSet(items) : IsEntryVisible(shared, c)
    BY <2>1 DEF ToSet
  <2> QED BY <2>2 DEF IInv, FilterInvariant, ListingExact
<1> QED BY <1>1, Invariance, PTL

\* What can be reached is what is checked.
THEOREM CheckedIsReachable == Spec => []ListingLeadsToChecked
<1>1. IInv => ListingLeadsToChecked
  <2> SUFFICES ASSUME IInv
               PROVE  ListingLeadsToChecked
    OBVIOUS
  <2>1. page \in {"file", "broken"} => marks[path] = "checked"
    BY SharedIsChecked DEF IInv, TypeOK, PageIsVisible, shared
  <2>2. ASSUME page = "listing", path \notin Unreadable, NEW f \in Files, marks[f] = "checked",
               path = <<>> \/ IsAbove(path, f)
        PROVE  SubSeq(f, 1, Len(path) + 1) \in ToSet(items)
    <3> PICK n \in Nat : n = Len(path)
      BY DiskAssumption DEF IInv, TypeOK
    <3> DEFINE c == SubSeq(f, 1, n + 1)
    <3>1. f \in Disk /\ f \in Seq(Component) /\ Len(f) \in Nat /\ Len(f) > 0
      BY OnDisk, PathTypes
    <3>2. n + 1 \in 1 .. Len(f) /\ path = SubSeq(f, 1, n)
      <4>1. CASE path = <<>>
        BY <3>1, <4>1
      <4>2. CASE IsAbove(path, f)
        BY <3>1, <4>2 DEF IsAbove
      <4> QED BY <2>2, <4>1, <4>2
    <3>3. c \in Disk
      <4> PICK L \in Nat : L = Len(f)
        BY <3>1
      <4>1. CASE n + 1 = L
        <5>1. SubSeq(f, 1, L) = f
          BY <3>1
        <5> QED BY <3>1, <4>1, <5>1
      <4>2. CASE n + 1 # L
        <5>1. n + 1 \in 1 .. Len(f) - 1
          BY <3>2, <4>2
        <5> QED BY <3>1, <5>1, PrefixIsFolder, OnDisk
      <4> QED BY <4>1, <4>2
    <3>4. Len(c) = n + 1 /\ RemoveLastPathComponent(c) = path
      BY <3>1, <3>2, PrefixOfPrefix DEF RemoveLastPathComponent
    <3>5. c \in Entries(path)
      <4> HIDE DEF c
      <4> QED BY <3>3, <3>4 DEF Entries, Volumes, EnumerateFiles
    <3>6. IsEntryVisible(shared, c)
      BY <2>2, <3>2, WayToCheckedIsVisible DEF IInv, TypeOK, shared
    <3> QED BY <2>2, <3>5, <3>6 DEF IInv, FilterInvariant
  <2> QED BY <2>1, <2>2 DEF ListingLeadsToChecked
<1> QED BY <1>1, Invariance, PTL

=============================================================================
