--------------------------- MODULE FolderListing ---------------------------
(***************************************************************************)
(* A browser walking through the pages of FileBrowserResponseHandler while *)
(* the sharing state and the disk stay the same: every page is built by    *)
(* GetVolumes or GetFolderContents, whose FilterVector removes entries in  *)
(* place, and the browser follows a link of the page, or "Go up", or asks  *)
(* for an address of its own.  The disk may fail a request: a status that  *)
(* cannot be queried, an enumeration that breaks off, a file that does not *)
(* open.                                                                   *)
(***************************************************************************)
EXTENDS SharedFiles, SequencesExt

CONSTANTS SizeMax,     \* size_t holds 0 .. SizeMax: the loop index wraps
          TooLong,     \* the folders whose path is longer than MAX_PATH - 4
          NoStatus,    \* the paths whose status the system refuses to tell
          Unreadable,  \* the folders whose enumeration may break off
          Unopened     \* the files that cannot be opened

\* A vector of directory entries is shorter than size_t can count.
ASSUME SizeMaxAssumption ==
    /\ SizeMax \in Nat
    /\ IsFiniteSet(Disk) /\ Cardinality(Disk) < SizeMax

VARIABLES marks,      \* the check marks that were collected and set
          path,       \* m_RequestedPath
          linked,     \* the request follows a link of a page, not an address
          items,      \* the vector of entries
          i,          \* FilterVector's loop index
          lastError,  \* GetLastError of the request's thread
          page        \* what the handler does, and what the browser got in the end

vars == <<marks, path, linked, items, i, lastError, page>>

\* "error": a page that tells of a failure of the disk.  "refused": the answer of
\* a sharing check, a page for a folder and a bare 404 for a file.  "broken": no
\* answer, the socket is closed.
Answer == {"listing", "file", "error", "refused", "broken"}
Page == {"request", "filter", "sort"} \cup Answer
LastError == {"success", "failed"}

shared == CollectSharedFiles(marks)

Entries(p) == IF p = <<>> THEN Volumes ELSE EnumerateFiles(p)

Init ==
    /\ marks \in ConsistentMarks
    /\ path = <<>>
    /\ linked = TRUE
    /\ items = <<>>
    /\ i = 0
    /\ lastError \in LastError
    /\ page = "request"

-----------------------------------------------------------------------------
(* The handler *)

\* QueryFileStatus fails, and GenerateHtmlBodyContent reports that access is denied
\* or that the path does not exist, before any sharing check.
ReportStatus ==
    /\ page = "request"
    /\ path # <<>> /\ path \in NoStatus
    /\ lastError' = "success"
    /\ page' = "error"
    /\ UNCHANGED <<marks, path, linked, items, i>>

\* EnumerateFiles and EnumerateSystemVolumes, in an order of the system's.  When
\* the first entry cannot be had, no entry is returned and the last error stays
\* set; when a later one cannot, what was found counts as all there is.
Enumerate(p) ==
    \/ /\ items' \in UNION {SetToSeqs(found) : found \in
                               IF p \in Unreadable THEN SUBSET Entries(p) ELSE {Entries(p)}}
       /\ lastError' = "success"
    \/ /\ p \in Unreadable
       /\ items' = <<>>
       /\ lastError' = "failed"

\* GetVolumes and GetFolderContents begin.  A fully shared folder is not filtered.
ListEntries ==
    /\ page = "request"
    /\ \/ path = <<>>
       \/ path \in Folders \ (NoStatus \cup TooLong) /\ IsFolderVisible(shared, path)
    /\ Enumerate(path)
    /\ i' = 0
    /\ page' = IF path # <<>> /\ IsFolderFullyShared(shared, path)
               THEN "sort" ELSE "filter"
    /\ UNCHANGED <<marks, path, linked>>

\* GenerateHtmlBodyContentOfDirectory refuses a folder with a long path, and one
\* that is not visible.
RefuseFolder ==
    /\ page = "request"
    /\ path \in Folders \ NoStatus
    /\ \/ path \in TooLong /\ page' = "error"
       \/ path \notin TooLong /\ ~IsFolderVisible(shared, path) /\ page' = "refused"
    /\ UNCHANGED <<marks, path, linked, items, i, lastError>>

\* SendFileResponse: stream the file, or the 404 response.  When StreamFile throws
\* because the file does not open, the socket is closed.  How a stream that has
\* begun may break off is StreamFile's subject.
RequestFile ==
    /\ page = "request"
    /\ path \in Files \ NoStatus
    /\ IF ~IsFileShared(shared, path)
       THEN page' = "refused" /\ UNCHANGED lastError
       ELSE IF path \in Unopened
       THEN page' = "broken" /\ lastError' = "success"
       ELSE page' = "file" /\ UNCHANGED lastError
    /\ UNCHANGED <<marks, path, linked, items, i>>

\* Mutant: the entry moved into the gap is not looked at.
FilterStepSkipsMoved ==
    /\ page = "filter"
    /\ i < Len(items)
    /\ i' = i + 1
    /\ items' = IF IsEntryVisible(shared, items[i + 1]) THEN items
                ELSE IF i < Len(items) - 1
                THEN Front(ReplaceAt(items, i + 1, Last(items)))
                ELSE Front(items)
    /\ UNCHANGED <<marks, path, linked, lastError, page>>

\* One round of FilterVector's loop.  An entry that is filtered out is replaced
\* by the last one, which is then looked at in its place: i-- wraps at 0 and the
\* loop's i++ wraps back.
FilterStep ==
    /\ page = "filter"
    /\ i < Len(items)
    /\ IF IsEntryVisible(shared, items[i + 1])
       THEN /\ i' = i + 1
            /\ UNCHANGED items
       ELSE IF i < Len(items) - 1
       THEN LET stepBack == (i - 1) % (SizeMax + 1)
            IN  /\ items' = Front(ReplaceAt(items, i + 1, Last(items)))
                /\ i' = (stepBack + 1) % (SizeMax + 1)
       ELSE /\ items' = Front(items)
            /\ i' = i + 1
    /\ UNCHANGED <<marks, path, linked, lastError, page>>

FilterEnd ==
    /\ page = "filter"
    /\ i >= Len(items)
    /\ page' = "sort"
    /\ UNCHANGED <<marks, path, linked, items, i, lastError>>

\* Every folder comes before every file.
FoldersFirst(s) ==
    \A a, b \in DOMAIN s : s[a] \in Files /\ s[b] \in Folders => b < a

\* SortFiles, and the sort of the volumes; the order of the names is not
\* represented.  The page of a folder without entries asks GetLastError whether
\* that is an error.
SortFiles ==
    /\ page = "sort"
    /\ items' \in SetToSeqs(ToSet(items))
    /\ FoldersFirst(items')
    /\ page' = IF path # <<>> /\ items' = <<>> /\ lastError = "failed"
               THEN "error" ELSE "listing"
    /\ UNCHANGED <<marks, path, linked, i, lastError>>

-----------------------------------------------------------------------------
(* The browser *)

\* The request is taken by a connection's thread, with the last error that an
\* earlier request has left there.
Request(p, byLink) ==
    /\ path' = p
    /\ linked' = byLink
    /\ lastError' \in LastError
    /\ page' = "request"
    /\ UNCHANGED <<marks, items, i>>

\* The browser follows a link of the listing.
FollowEntry ==
    /\ page = "listing"
    /\ \E p \in ToSet(items) : Request(p, TRUE)

\* Every answer that is a page has the "Go up" link.  On the page of an address
\* that was entered and failed it may lead to a folder that is not visible.
GoUp ==
    /\ page \in {"listing", "error"} \/ (page = "refused" /\ path \in Folders)
    /\ Request(RemoveLastPathComponent(path), page = "listing" \/ linked)

\* "Return to homepage", on every page that tells of an error.
ReturnHome ==
    /\ page = "error" \/ (page = "refused" /\ path \in Folders)
    /\ Request(<<>>, TRUE)

\* The address of some path on disk is entered in the browser.
EnterAddress ==
    /\ page \in Answer
    /\ \E p \in Disk \cup {<<>>} : Request(p, FALSE)

Next ==
    \/ ReportStatus
    \/ ListEntries
    \/ RefuseFolder
    \/ RequestFile
    \/ FilterStep
    \/ FilterEnd
    \/ SortFiles
    \/ FollowEntry
    \/ GoUp
    \/ ReturnHome
    \/ EnterAddress

Spec == Init /\ [][Next]_vars

-----------------------------------------------------------------------------
(* Properties *)

\* Every variable has a value of its type; the loop index stays a size_t.
TypeOK ==
    /\ marks \in ConsistentMarks
    /\ path \in Disk \cup {<<>>}
    /\ linked \in BOOLEAN
    /\ items \in Seq(Disk)
    /\ i \in 0 .. SizeMax
    /\ lastError \in LastError
    /\ page \in Page

\* FilterVector keeps exactly the visible entries, each once, although it moves
\* entries around while it walks over them; and a folder that is listed without
\* the filter holds visible entries only.  When the enumeration broke off, no
\* entry is listed that should not be.
ListingExact ==
    page = "listing" =>
        /\ IsInjective(items)
        /\ ToSet(items) \subseteq {c \in Entries(path) : IsEntryVisible(shared, c)}
        /\ path \notin Unreadable =>
              {c \in Entries(path) : IsEntryVisible(shared, c)} \subseteq ToSet(items)

\* While the sharing state stays the same, no link is refused by a sharing check,
\* "Go up" included: what the listing was filtered by and what the next request
\* checks agree.  A link that leads to an error page, or to no answer, has its
\* cause on the disk: the path's status, its length, an enumeration or a file that
\* failed.  The last error of some other request is no cause: an empty folder
\* that can be enumerated never looks like an error.
NoBrokenLink ==
    linked => /\ page # "refused"
              /\ page = "error" => path \in NoStatus \cup TooLong \cup Unreadable
              /\ page = "broken" => path \in Unopened

\* Whatever address is entered, only a checked file is opened; and every folder on
\* the way to a checked file lists the next step, when it can be enumerated.
ListingLeadsToChecked ==
    /\ page \in {"file", "broken"} => marks[path] = "checked"
    /\ page = "listing" /\ path \notin Unreadable =>
          \A f \in Files :
              marks[f] = "checked" /\ (path = <<>> \/ IsAbove(path, f)) =>
                  SubSeq(f, 1, Len(path) + 1) \in ToSet(items)

-----------------------------------------------------------------------------
(* The inductive invariant *)

\* What is requested by a link is visible.
RequestIsVisible ==
    linked => path = <<>> \/ IsEntryVisible(shared, path)

\* A page is built for what is visible.
PageIsVisible ==
    /\ page \in {"filter", "sort", "listing"} =>
          path = <<>> \/ (path \in Folders \ TooLong /\ IsFolderVisible(shared, path))
    /\ page \in {"file", "broken"} => path \in Files /\ IsFileShared(shared, path)

\* The loop of FilterVector: no visible entry is lost or doubled, and those
\* before the index are visible.  The last error is the enumeration's own.
FilterInvariant ==
    page \in {"filter", "sort", "listing"} =>
        /\ Len(items) <= Cardinality(Disk)
        /\ IsInjective(items)
        /\ ToSet(items) \subseteq Entries(path)
        /\ path \notin Unreadable =>
              /\ lastError = "success"
              /\ \A c \in Entries(path) : IsEntryVisible(shared, c) => c \in ToSet(items)
        /\ \A k \in DOMAIN items :
              k <= i \/ page # "filter" => IsEntryVisible(shared, items[k])

\* What makes the properties inductive: a page is visible because the link to
\* it was, and a listing is exact because its filtered part is.
IInv ==
    /\ TypeOK
    /\ RequestIsVisible
    /\ PageIsVisible
    /\ FilterInvariant
    /\ NoBrokenLink

=============================================================================
