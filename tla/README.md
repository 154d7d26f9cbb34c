# Verification of HttpFileBrowser

HttpFileBrowser shares files of a Windows computer with browsers. A native C++
library answers HTTP requests on a thread per connection; a WPF client selects
with a tree of check boxes what is shared, and starts and stops the sharing; an
executable without a user interface registers with a backend web server, which
sends visitors to it. This directory holds TLA+ modules of these parts, TLC
configurations that check them on small instances, and proofs that TLAPS checks
for every value of the constants.

Paths below are relative to `src/RemoteFileBrowser/RemoteFileBrowser/` (native),
`src/RemoteFileBrowser/RemoteFileBrowser_WPFClient/` (WPF) and
`src/BackendServer/BackendServer/` (backend). `PROJECT.json` maps every
definition to the lines it models.

## 1. The system

| Component | State | Operations | Hard behaviour |
|---|---|---|---|
| File streaming (`StreamFile`, `StreamableFile`, `Event.h`) | two buffers, four volatile variables, two auto-reset events, a position in the file | the connection's thread reads, publishes, waits at most 30 s; a sending thread takes, acknowledges, sends | two threads without a lock; failed and blocked sends; a timeout that races an acknowledgement; shutdown by event and join |
| Shared files (`Communication/SharedFiles.cpp`) | three sets of paths under one lock | set all three; look up a folder or a file; filter a listing in place | look-ups between two assignments; several look-ups per request; a loop index that wraps |
| Response handler pages (`FileBrowserResponseHandler.cpp`) | the request, the thread's last error | volumes, folder, file, errors | a listing and the check of the next request must agree; a status, an enumeration or a file that fails |
| HTTP server (`Http/Server.cpp`) | socket, a buffer, a thread per connection | receive, parse, hand over, close | split and joined requests; a handle that is closed twice, and given out again in between |
| Encoding (`Utilities.cpp`, namespaces `Encoding` and `FileSystem`) | - | encode and decode a URL, combine and shorten paths | in-place loops; what a link means after a browser changed it |
| TCP listener (`Tcp/Listener.*`) | `m_Running`, a thread, the whitelist | bind, accept, stop, join | stop against accept; threads that outlive the listener |
| Exported functions (`Core/ExportedFunctions.cpp`) | the listener's pointer is given to the client | set the files, start, stop | called from pool threads in parallel |
| Sharing page (`ViewModels/SharingPageViewModel.cs`) | `IsSharing`, `CanChangeShareStatus`, the volumes | start, stop, click, load volumes | pool tasks that nothing orders, and their continuations |
| File tree (`ViewModels/LocalFileViewModel.cs`) | three-state marks, counts of boxes and of checked boxes, children | click, expand, enumerate asynchronously, expand, collapse, collect | enumerations that end while the user clicks or toggles; counts passed up by difference |
| Host connection (`Core/Main.cpp`, `ClientServerConnection.cpp`, `RestCommunicator.cpp`, `Request.cpp`) | one connection, the whitelist | connect, register, receive visitors, answer, reconnect | broken connections, requests in one receive, a loop that never ends |
| Backend (`RegisterConnectionController.cs`, `HomeController.cs`) | the dictionary of hosts with their sockets | accept, register, drop; find a host, send it a visitor, redirect | web requests share a socket without a lock; pool threads overtake each other |
| Logging, initialisation, interop | - | - | not modelled, see section 8 |

How they interact: a click in the tree calls the sharing page, which collects the
marks on the UI thread and passes them to the native side from a pool task. The
tasks, the listener's thread and the connection threads share the three sets
under one lock. A connection thread calls the response handler, which looks up
the sets and, for a file, starts a sending thread. The executable uses the same
listener with a whitelist, which it extends when the backend names a visitor.

What makes each part correct is stated as properties (section 3); what can go
wrong and is hard to test is listed in `PROJECT.json` under `hazards`, each with
the properties that would find it.

## 2. The modules

| Module | Models | Notes |
|---|---|---|
| `StreamFile` | both threads of `StreamFile` | one action per access to a shared variable and per event operation, named for the statement |
| `ChunkStream` | what a stream promises | abstract specification; `StreamFile` implements it |
| `SharedFiles` | the look-ups, and `CollectSharedFiles` | operators only; also the meaning of consistent marks |
| `FolderListing` | the pages and error pages, `FilterVector`, `SortFiles`, a browser that follows links | EXTENDS `SharedFiles` |
| `Sharing` | page, tasks, exported functions, lock, listeners, connections | composes the client with the native side; EXTENDS `SharedFiles` |
| `FileTree` | marks, counts, enumeration, clicks | EXTENDS `SharedFiles` |
| `FileTreeRows` | the rows of the list, their counts, `Expand`, `Collapse`, and the enumerations that arrive in them | the same tree without its marks, on which the rows do not depend; EXTENDS `SharedFiles` |
| `Encoding` | the loops of `Utilities.cpp` on URLs and paths, byte by byte | operators; the loops are functions of the record of their variables |
| `HttpServer` | handles, connections, the threads of `Server::Run`, browsers and the wire | EXTENDS `Encoding` |
| `RequestResponse` | what a server promises a browser | abstract specification; `HttpServer` implements it |
| `TcpConnections` | the connections between a host and the backend | external: Winsock, .NET sockets and the network as the code uses them |
| `HostConnection` | `wWinMain` and `ClientServerConnection::Create` | `HostStep` |
| `Backend` | accepting threads, dictionary, web requests | `AcceptorStep`, `FindHost`, `WebStep` |
| `Registration` | host, backend, visitors and a network that breaks connections | composes the two |
| `StreamFileInvariant`, `SharingInvariant`, `RegistrationInvariant`, `FileTreeInvariant`, `FileTreeRowsInvariant` | the inductive invariants | `FolderListing` and `HttpServer` have their own |
| `*Proofs` | the theorems | section 6 |
| `MC*` | instances for TLC, and statements the code does not keep | |

Definitions marked "Mutant" in the modules are plausible bugs of the operator
that follows; no specification uses them. They stand in for that operator to show
that a property depends on it.

Variables carry the names of the source where there is one: `currentBuffer`,
`doneReading`, `bufferPtrReadEvent`, `m_FilePosition`; `m_IsSharing`,
`m_CanChangeShareStatus`, `m_SharingContext`, `s_CriticalSection`;
`hostIdentities`. A thread's program counter is a variable of its own (`reader`,
`sender`, `host.pc`, `acceptor`, `web`, the `step` of a task). Variables that only
record the past are marked "history": `wire`, `published`, `during`, `disturbed`,
`registered`, `acknowledged`, `alone`.

What the modules abstract:

- *Bytes.* A chunk is an interval of file positions; a page is the set of entries
  it lists; a message between host and backend is a header, a body or the line
  `HTTP/1.1 200 OK`, each received whole but possibly together with what follows.
- *Paths.* A path is the sequence of its components. Letter case and a trailing
  backslash, which `PathComparer` ignores, are not represented.
- *The disk* does not change. In `FolderListing` it may fail, as the constants say:
  `NoStatus` (a path whose status cannot be queried), `Unreadable` (a folder whose
  enumeration fails or breaks off, as often as it likes), `Unopened` (a file that
  does not open) and `TooLong`. `Sharing` and `HttpServer` let every enumeration
  succeed. An address that is not on disk at all is in no module.
- *Requests* are texts in `HttpServer` alone, which has the bytes of the first line
  and a short line in place of the headers. Which page a path gets is its kind
  there; `FolderListing` and `Sharing` have the pages, `StreamFile` the streaming.
- *A handle* is a number that stands for a connection or for nothing. The system may
  give a closed one to the next connection, which it does at once when no other is
  free.
- *The check boxes.* `Sharing` and `FolderListing` let marks be any consistent
  ones: what the tree is meant to keep. `FileTree` shows when it does not.
- *A critical section with a single look-up* is one step that needs the lock to be
  free; the one that assigns three sets has a step for each.
- *Two stores in a row* to `currentBuffer` and `currentDataLength` are one step:
  the sender never reads both in between.
- *Counting in the tree.* What the UI thread does without an `await` is one step. A
  volume's pool thread is split: `ReadVolumeTotal` and `WriteVolumeTotal` are the two
  halves of `m_TotalChildrenCount += count` (`LocalFileViewModel.cs:278`), and
  `SelectInVolume` is the rest of `AddToChildrenCount`. A write that falls between the
  UI thread's own read and write is lost to that: the second disjunct of
  `WriteVolumeTotal`. Other mixtures of the two threads (a volume's selected count that
  is assigned in the middle of a click) are not represented; they need what `disturbed`
  calls "raced", and after that no property speaks of marks and selected counts.
- *A broken connection* is noticed by both ends once what arrived was received. One
  that falls silent without an error would block both `recv` calls for ever, as
  the code sets no timeout.
- *Failed connects* and `Sleep` are stuttering; connections are not used again.
- *ParseBody* at the end of a connection: `recv` that returns 0 leaves the count as
  it is and the loop spins for ever. An error makes the count grow, so that only
  after some 2^31 calls it overflows, which C++ does not define; this counts as
  spinning, too.

## 3. Properties

Each property is stated in words above its definition. In short:

**StreamFile.** `BufferExclusion`: the reader never fills the buffer the sender
holds. `SendStaysInBuffer`: `send()` gets no more bytes than were read into its
buffer. `CompleteOnReturn`: the function returns only when every chunk went out,
unless a send failed. `OnlyPenultimateTruncated`: how far the late read of the
length can go wrong. `ImplementsChunkStream`: the refinement. `StreamFileEnds`,
`FailedSendEndsStream`: no deadlock in the shutdown. `IInv`, the inductive invariant
of the proofs, is checked in the same run; it contains the types and that chunks go
out in order.

**FolderListing.** `ListingExact`: the in-place filter keeps exactly the visible
entries; after an enumeration that broke off, no others. `NoBrokenLink`: no link of a
page, "Go up" and "Return to homepage" included, is refused by a sharing check; one that
leads to an error page, or to a closed socket, has its cause on the disk, and never in
the last error that another request left behind. `ListingLeadsToChecked`: checked files,
and no others, are opened, and every complete listing has the next step to them.

**Sharing.** `SharedIsSnapshot`: parallel updates never mix. `AnswerFromOneInstant`:
each listing, refusal or file is right for one moment of its request, although the
handler looks twice. `VolumesFromTheRequest`: what the home page, built under several
acquisitions of the lock, still guarantees. `OneListener`, `StatusMatchesListener`: the
session and the page agree. `StatusSettles`, `LoneUpdateApplies`: starting and
stopping end; a click whose task is alone takes effect.

**FileTree.** `TotalsCountBoxes`: `m_TotalChildrenCount` is right in whatever order
enumerations end, but for a volume whose total the UI thread added to between the pool
thread's read and write of it (`overlapped`): that may count too few boxes, and nothing
ever counts too many. `SelectedCountsChecked`, `MarksAgree`: the counts of checked boxes and
the marks are right unless one of three things happened, which are named there. `IInv`
is the inductive invariant of the proofs.

**FileTreeRows.** `RowsShowTree`: the list holds the boxes of the expanded folders,
once and in the order of the tree, but for three named causes. `CountsMatchRows`: which
counts a child that arrives late can make wrong, and that no toggle spreads it.
`EndsOnlyInHaste`: the two ways in which the process can end (a row that does not exist
is removed; the list is changed on a pool thread) need a folder that was expanded
before its children had arrived. `IInv` is the inductive invariant of the proofs.

**HttpServer.** `OwnSocket`: no handle is lost, and a thread works on its own connection
alone unless its handle was closed early. `ImplementsRequestResponse`: a connection on
which each receive returned one request gets its answers in order, each about the path
that the link was made of: encoding, the browser's slashes, parsing and decoding give
the path back. `RequestIsAnswered`, `SocketsAreReleased`: such a connection catches up,
and all handles are free once the browsers are gone.

**Registration.** `RegisteredIsOpen`: the dictionary holds no disposed socket.
`HostIsRegistered`: a host that was told so is registered, unless an older
registration overtook its own. `RedirectsAreAcknowledged`: no more visitors are
redirected than were whitelisted, although requests take each other's answers.
`LoneVisitorIsServed`, `LoneRequestEnds`: a visitor whose request shares the connection
with no other is served, and its request ends when the host was waiting for it.
`DropIsNoticed`: a host whose connection dropped reconnects, unless it was in the
middle of a body. `IInv`, the inductive invariant of the proofs, is checked in the same
run: it follows each address and each answer on its way.

## 4. Runs

| Run | Instance | States | Result |
|---|---|---|---|
| `StreamFile` | 7 bytes in chunks of 2 | 1,132 | all 8 hold |
| `StreamFileLength` | the same | | violated: finding 1 |
| `StreamFileTimeout` | 5 bytes in chunks of 2 | | violated: finding 2 |
| `FolderListing` | 2 volumes, 3 folders, 5 files; one path too long, one without status, one volume and one file that fail; `SizeMax` 15 | 27,699 | all hold |
| `FileTree` | a volume, 2 folders below each other, 3 files, 5 clicks | 103,696 | all hold |
| `FileTreeShown` | the same | | violated: finding 4 |
| `FileTreeRows` | 2 volumes, 3 folders, a file | 507,065 | all hold |
| `Sharing` | a volume with 2 files, 2 tasks, 2 listeners, 1 connection asking for any page | 628,870 | hold |
| `SharingSession` | the same without the connection | 34,738 | hold, with liveness |
| `SharingMarks` | as `SharingSession` | | violated: finding 3 |
| `HttpServer` | 2 connections, 2 handles, 2 requests, 1 cut | 285,126 | hold, with liveness |
| `Registration` | 2 connections, 2 visitors, 1 break | 179,640 | hold, with liveness |

Bounds, and why they suffice:

- *FileSize = 7, kMaxChunkSize = 2*: four chunks, so that each of the two buffers is
  used again, with a shorter last chunk, which the late read of the length needs.
  The theorems hold for all sizes.
- *SizeMax = 15*: more than the entries of a vector, small enough for the index to
  wrap. *The disk* has a shared folder in an unshared one, an empty folder, a
  folder two levels deep and a second volume; all 64 consistent assignments of
  marks are initial states. What fails is one of each kind, a file without status among
  files that have one, and the second volume, whose enumeration may return anything.
- *TaskId*: two tasks race in every way two can. A third click waits, in the model,
  until a task is free; the theorems hold for any number. *ListenerId*: two, so
  that a second one could exist. *Connection*: one, as connections do not affect
  each other; `{}` in the runs about the page alone, which the connections do not
  influence. `SYMMETRY` is used on interchangeable tasks and listeners, in runs
  without liveness properties only.
- *MaxClicks = 5*: every kind of box is clicked in every state of the boxes above
  and below it; the wrong marks of finding 4 need three clicks. In `FileTree`
  `expanded` only grows, as a collapsed folder keeps its children. One volume with a
  folder in it is enough for two threads to add to one total.
- *The tree of `FileTreeRows`* has in one volume a folder, which holds a file and a
  folder with an empty one: a folder has rows of others above and below its own, a count
  passes two folders on its way up, and children can arrive out of sight in a folder that
  has a folder to begin. The second volume is what follows. `MaxRows` (7) and `MaxCount`
  (5) stop toggles once wrong counts have piled up: the whole tree has 6 rows, and one for
  each placeholder that is shown; the right count of the volume is at most 5. There is no
  bound on how often the user toggles, and the theorems hold for every tree and any bounds.
- *Sharing* has one volume. That the home page of two volumes, built from several
  looks, is right volume by volume holds for any disk by the theorem
  `VolumesAreFromTheRequest`.
- *kDataBufferSize = 40*: as much as two requests for the home page, more than one for
  a volume and less than the request for the file, so that a receive returns one
  request, two, one and the beginning of another, or is filled by the beginning of one. *MaxRequests = 2* on all
  connections together, one of which may be cut by the network at any byte
  (*MaxCuts = 1*): the first request can leave something on the wire for the second. *Two
  handles for two connections*: the second may get the first one's handle after it was
  closed early, or another. The paths contain what the conversions treat in a special
  way: a plus sign, a colon, bytes above 127 whose digits are letters.
- *MaxConnections = 2, MaxBreaks = 1*: a host that registers again after a drop, so
  that an old and a new connection meet; *WebRequest* of two: they can share a
  connection or use different ones.

`CHECK_DEADLOCK FALSE` is set where the system may stop: users, browsers and
visitors do nothing more, clicks and connections are used up, or the process
ended. `StreamFile` ends in a state that stutters by its own action, and
`FolderListing` never stops.

## 5. Fairness

- `StreamFile`: weak fairness for the steps of each thread (the scheduler runs
  them). That a blocking `send()` returns is no assumption of the specification: it
  is the premise `PeerResponds` of `StreamFileEnds` alone. A timeout of an event is
  a step of the reader, and fair: 30 seconds pass.
- `Sharing`: weak fairness for each pool task with its continuation and for each
  listener's thread, whose accept does not block. Users and browsers owe nothing.
- `Registration`: weak fairness for the host's thread, each accepting thread and
  each web request once it began. Visitors need not come, and the network need not
  break anything.
- `HttpServer`: weak fairness for each connection's thread: `recv` returns when
  something can be received or the connection was closed, and `send` returns (when it
  does not is `StreamFile`'s concern). Browsers need not ask, nor close anything.
- `FolderListing`, `FileTree` and `FileTreeRows` state no liveness property.

## 6. Proofs

`tlapm` proves all 15,802 obligations of the eight proof modules.

**StreamFileProofs**, from `FileSize \in Nat` and `kMaxChunkSize \in Nat \ {0}`. The
safety properties are not inductive: that the two threads use different buffers
depends on which chunk is in whose hands. `IInv` (`StreamFileInvariant`) says for
each pair of positions of the threads what the buffers, the shared variables, the
events and the sender's copies hold: `Lifecycle` (where both can be), `SenderHolds`,
`PendingChunk`, `UnacknowledgedChunk` (one chunk's way from publication to
acknowledgement), `ReaderAhead` and `ReaderDone`. `Refinement` shows that every
step is a step of `ChunkStream` or a stutter under the mapping `Stream`.

**SharedFilesProofs**, from `DiskAssumption` (the disk is a forest whose inner nodes
are folders). Lemmas on the look-ups: what `GetFolderContents` returns is what is
visible, the parent of a visible entry is visible, what is shared is checked, and
the way to a checked file is visible. They use that consistent marks agree along
a path; no induction over paths is needed, as `IsFolderFullyShared` is stated with
a quantifier over the prefixes.

**FolderListingProofs**, from these and `SizeMaxAssumption` (a vector has fewer
entries than `size_t` counts). `IInv` adds to the properties what each page was
built from: `RequestIsVisible`, `PageIsVisible`, and `FilterInvariant`, the loop
invariant of `FilterVector`: nothing visible lost or doubled, everything before
the index visible. No assumption is needed about what fails: the enumeration of a folder may
return any part of it, and the invariant keeps apart what holds of any part (nothing is
listed that should not be) and what needs all of it.

**SharingProofs**, from `DiskAssumption` and `NoneAssumption`, for any number of
tasks, listeners and connections. `IInv` (`SharingInvariant`): `TaskSteps`,
`LockHolder` (the lock and the steps agree), `Assigned` (how much of a task's sets
is in place), `OneSwitch` (one start or stop at a time, and only while the buttons
are disabled), and `Session` (which listener is there when). `SharedIsSnapshot`,
`OneListener` and `StatusMatchesListener` follow. `RequestsInvariant` is a second
stage upon it: what is known of each request being answered; the two action
properties about answers follow.

**HttpServerProofs** begins with the loops of `Encoding`, without assumptions.
`LinksDecode`: `DecodeUrl(EncodeUrl(p)) = p` for
every text. The loops of the code are functions that call themselves with the next state,
and nothing says that such a function exists, as a loop need not end. `LoopIsFunction`
constructs it for any loop over a set of states: the value at a state is what the
run from there arrives at, if it ends. With that the loops can be followed turn by turn
(`DecodeLoopTurns`, `EncodeLoopTurns`). The rest is two inductions, for which `Induction`
states the principle with a set in place of a formula. `EncodeUrlInline` works in
place from the end to the front, reading what it has not overwritten yet: at each turn the
bytes from `encodedIndex` on are the encoding of the path's end, and those up to
`index` are the path's own (`EncodeTurn`). `DecodeUrlInline` works from the front
(`DecodeTurn`).

The theorems about the server hold for any number of connections and handles and any
`kDataBufferSize`. `OwnSocket` needs `HandleAssumption` only: its `IInv` is the property
with the part of the types it needs (`ThreadsTyped`), and holds whatever the parser
makes of the bytes. `TypeIsCorrect` says what the parser makes of them: a text,
whichever bytes a receive returned.

`AnswersInOrder` is the refinement of `RequestResponse`. It needs `TargetAssumption` (no slash
in a path) and `VolumeAssumption`: the links to volumes are not encoded, and go through
as they are only if they hold no space, plus, percent sign or line end. `PathArrives` takes a
path through the link, the browser's slashes, the request's text, the search for the line's
end and the version, decoding, and the slashes turned back. The
refinement alone is not inductive: `InOrder` adds that the wire holds the last of the
connection's requests, whole, and how many of them were answered, for each position of the
thread. That no other thread answers on a connection in step is `OwnSocket` (`OwnPeer`).

**FileTreeProofs**, from `DiskAssumption`, `FiniteDiskAssumption` (the paths on disk can be
counted) and `MaxClicksAssumption`, for every disk and any number of clicks. `IInv`
(`FileTreeInvariant`) has two parts:

- `GrowthInv` holds whatever happens: the types, `TotalsCountBoxes`, `HeldIsTotal` (what a
  pool thread has read is still the volume's total, or less), that a file counts
  nothing, that additions overlap only after a race, and `Grows`: a folder is asked for its children once it is a box, they are
  constructed before they arrive, and only a volume waits to be counted. Without
  it children could be counted twice.
- `Agreement` holds until one of the three things happens: the children on their way have
  their folder's mark (`ChildrenTakeMark`), a folder that is not indeterminate is marked like
  all boxes below it (`MarkedAlike`), an indeterminate one has a checked box and one that
  is not below it (`Mixed`), and the count is right (`SelectedRight`).
  A checked volume's count becomes right with `SelectInVolume`.
  `MarksAgree` alone is not inductive: a count of 0 must also mean that no box below is
  indeterminate, and that is what `Mixed` is for.

A click is the hard step. `AddToSelectedChildrenCount` passes a difference from folder to
folder; `CountsAbove` shows level by level that the difference which arrives at a
folder is by how many more boxes below it are checked (`AddsChange`). The function that
stands for the loop is recursive. That it exists (`AddedIsRecursive`) and the
induction along the levels both take a least counterexample (`LeastNatural`), as the
induction theorems cannot be used here.

**FileTreeRowsProofs**, from the same two assumptions about the disk and
`LoadingAssumption` (the placeholder is no path), for every disk and any number of toggles
and rows. `IInv` (`FileTreeRowsInvariant`) has three layers:

- What holds whatever happens: the types, `Grows` (a folder is asked for its children once
  it is a child that arrived, and expanded after that), `ChildrenBegun`, and
  `MiscountedAbove` (counts go wrong up to the volume). Without `ChildrenBegun` a row
  could be shown whose `m_Children`, which its button reads, is null.
- What holds until one of the three things happens: `RowsShowTree`, `CountsMatchRows` and
  `Undisturbed` (nothing threw, and no volume was toggled between the arrival of its
  children and their count).
- What holds as long as only folders were expanded whose children had arrived
  (`Unhurried`): nothing was disturbed at all. `HasteFirst` follows.

`rows` is the list that `DoExpand` and `Collapse` edit in place; `RowsBelow` says from
nothing but the tree what it should hold. Both are recursive functions along the tree:
`LevelRecursion` shows that such functions exist, as no path is longer than the disk has
paths. `Hole` is the heart: when only the subtree of one folder changes, the rows below
anything above it change in one place, its block, and nothing of its subtree stands before
that. `Expanded` follows the loop of `DoExpand` child by child and shows that it fills the
hole with what belongs there; `RowsCollapsed` that a right count empties it again. The
same hole gives the counts: what is above a folder gains as many rows as its block
(`LengthsFollow`), which is what `AddToExpandedChildrenCount` passes up. For a late
arrival this equation shows the error of `LocalFileViewModel.cs:347`: twice the difference
is passed up, which is right only when it is 0.

**RegistrationProofs**, from `NoneAssumption` and `WebRequestAssumption` (the visitors
are finitely many, so that they can be counted), for any number of connections, visitors
and breaks. No property of `Registration` is inductive, as each compares two
ends of a connection and nothing of what is on its way between them. `IInv`
(`RegistrationInvariant`) adds that:

- `HostOwns`, `Registry`, `UsesEntered`: the host's socket and whitelist belong to one
  connection; threads work on open sockets, and the dictionary holds the one entered
  last or nothing; only entered connections carry visitors. `RegisteredIsOpen` and
  `HostIsRegistered` follow.
- `RegistrationArrives`, `PostsAreWhole`: a header is followed by its body unless the
  connection broke in between, and nothing else comes before the host is entered.
- `WhitelistedOnce`: an address is on its way, at the host or whitelisted, and never
  two of these, so that each answer stands for one visitor more on the whitelist.
- `AnswersAreAcknowledged`: over each connection, answers on their way and
  visitors redirected are together no more than those whitelisted. Without the answers on
  their way `RedirectsAreAcknowledged` would not survive that one is received.
- `AnswersAreAwaited`: addresses and answers on their way are no more than the requests
  that wait, as long as answers can come. It holds because a request that gives up
  drops the connection for all. With `LoneRequests` it gives `LoneVisitorIsServed`: a
  request that begins alone on a connection finds nothing there of others.

Lemmas say what each operation does to the queues, that an insertion into
or a removal from a queue keeps a part, and how the counts change. `NextInv` takes the
actions one at a time, and under each the parts that it can disturb.

Only model-checked: liveness (fairness and ENABLED are beyond the prover), and the
statements of the violated runs. Each safety property of a passing run is a theorem.

## 7. Findings

The runs that end in a violation check a statement of the source, its comments or
its user interface, which the code does not keep:

1. `StreamFile` passes the shared length to `send()` after the acknowledgement: the
   chunk before the last can be sent with the last one's length
   (`FileBrowserResponseHandler.cpp:168`), and the response is shorter than its
   `Content-Length`.
2. The 30 second timeout joins the blocked sender before the exception can reach
   the code that closes the socket (`:201`): it does not end the stalled download it
   is there for.
3. "Shared files" can differ from what is served for good: a click while starting
   is never sent, and two clicks' tasks may run in either order
   (`SharingPageViewModel.cs:159`, `:170`).
4. Unselecting an indeterminate folder subtracts one too many from the counts above
   it (`LocalFileViewModel.cs:82`): a checked file may end up below an unchecked
   volume, and is not shared.

The other runs show further weaknesses, which no document denies and which the
properties therefore exclude by their premises:

- *Sharing*: after "Stopped" the threads of accepted connections go on serving what
  was shared (`Listener.inl:58`).
- *FolderListing*: an enumeration that breaks off half way is listed as if it were
  complete (`Utilities.cpp:536`), and a listing has links to what cannot be opened.
- *FileTree*: when the user expands a folder while its volume is being counted, and the
  folder's children arrive between the two halves of `m_TotalChildrenCount += count`
  (`LocalFileViewModel.cs:278`), one of the two additions is lost, and the volume's count
  is too small from then on.
- *FileTreeRows*: children that arrive in an expanded folder add the difference twice to
  the counts above (`LocalFileViewModel.cs:347`), so that a later collapse removes rows
  of others, or more than there are; in a folder out of sight they replace the
  wrong rows (`:346`); in a volume they change the list on a pool thread.
- *HttpServer*: a request that is joined with another or cut is lost, or a rest of it
  is taken for a request, as the verb's test rejects only what differs from GET in all
  three letters (`Server.cpp:50`). The link to a volume is not encoded
  (`FileBrowserResponseHandler.cpp:424`): one that is mounted in a folder with a plus
  sign in its name is looked up under another name. After a stream that failed, the thread goes on with
  the handle it closed and closes it again at the end (`:42`), which by then may be
  another connection's.
- *Registration*: an address sent together with the registration's answer is dropped
  and the visitor's request waits for ever (`LoneRequestEnds`), requests that share a
  connection take each other's answers (`LoneVisitorIsServed`), and a connection that
  ends inside a body leaves the host spinning (`DropIsNoticed`).

One more was seen in the source and is outside the models: a response "404 Not Found"
has no empty line after it (`FileBrowserResponseHandler.cpp:60`).

## 8. Not modelled

- *Logging*: messages under a lock of its own, on which no state depends.
- *UTF-8, base64 and address conversions*, error messages and time formatting of
  `Utilities`: calls of the system's converters, or used for the log.
- *Initialisation, asset database*: run once before any thread is started.
- *Interop, icons, navigation, properties that only store a value for binding.*
- *HTML, style sheets, the backend's views and the form's validation.*
- *Scripts.* The files of `Scripts` are copies of public libraries (jQuery, jQuery
  Validation, Bootstrap, Modernizr, Respond, the unobtrusive adapter of ASP.NET MVC),
  which the backend only serves to browsers; the native `Resources/scripts.js` is
  the public `sorttable`, in one minified line. The project's own code is in C++ and C#, and about a third of its
  statements stand behind a definition here; most of the rest is declarations,
  tests, HTML, logging and conversions.
- *Malformed registrations* and hosts other than the executable: the backend's parser
  receives what `RestCommunicator` sends.
- *Debug-only assertions* (`Assert`), which the release build does not contain.

## 9. Plan

The order was: streaming (two threads without a lock), look-ups and listings, the
session, the tree, the registration; then the rows of the tree, the HTTP server with
the encoding of links, and the proofs about handles, links, answers, the registration, the check
boxes and their rows.
What is left is a composition of `HttpServer` with `StreamFile` at the level of handles: a
handle that is closed while the sending thread is still inside `send()`.
