----------------------------- MODULE HttpServer -----------------------------
(***************************************************************************)
(* Http::Server: a thread per connection receives bytes into a buffer,     *)
(* takes each receive for one request, and hands the path over to          *)
(* FileBrowserResponseHandler, which sends on the same socket.  A socket   *)
(* is a handle, a number that the system may give to the next connection   *)
(* once it is closed.                                                      *)
(*                                                                         *)
(* Requests are texts here, as the server looks at single characters.      *)
(* Which answer a path gets is abstracted to its kind; FolderListing and   *)
(* Sharing have the pages, StreamFile has the streaming.                   *)
(***************************************************************************)
EXTENDS Encoding

CONSTANTS Connection,       \* connections of browsers, in their whole lifetime
          Handle,           \* the values of SOCKET
          kDataBufferSize,  \* the most that one receive returns
          Target,           \* the paths that browsers ask for
          Volume,           \* those of them that are volumes
          Builtin,          \* the built-in files
          DiskFiles,        \* the paths that are files on disk
          SharedFiles,      \* and those of them that are shared
          MaxRequests,      \* bounds the requests, of all connections together
          MaxCuts,          \* bounds the receives that leave bytes on the wire
          None              \* no connection, no handle

ASSUME HandleAssumption == None \notin Connection \cup Handle
ASSUME BoundsAssumption == {kDataBufferSize, MaxRequests, MaxCuts} \subseteq Nat

VARIABLES
    sent,      \* the paths that were asked for on a connection
    wire,      \* the requests, or what is left of them, that are still to be received
    answers,   \* the answers that were sent on it
    isOpen,    \* the browser has not closed it
    socket,    \* the connection that a handle stands for
    thread,    \* the threads of Server::Run
    cuts,      \* counts the receives that leave bytes on the wire
    exact,     \* history: each receive of this connection returned one request
    atRisk     \* history: the connection's handle is, or was, in a stranger's hands

browser == <<sent, wire, isOpen>>
vars == <<browser, answers, socket, thread, cuts, exact, atRisk>>

-----------------------------------------------------------------------------
(* Requests *)

Bytes == Seq(Byte)

\* Windows separates the parts of a path with backslashes.
ASSUME TargetAssumption ==
    \A path \in Target : path \in Bytes /\ \A i \in DOMAIN path : path[i] # Slash

\* A volume has the name of a drive.  The name of one that is mounted in a folder
\* could hold any character, and its link, which is not encoded, mean something else.
ASSUME VolumeAssumption ==
    \A path \in Volume : \A i \in DOMAIN path : path[i] \notin {13, Space, Plus, Percent}

\* The links of GenerateHtmlBodyContentOfDirectory and "Go up" are encoded, those
\* of GenerateHtmlBodyContentOfSystemVolumes are not.
LinkTo(path) == IF path \in Volume THEN path ELSE EncodeUrl(path)

\* What a browser sends for a link: it turns backslashes into slashes.  A header
\* line "A-E: g" stands for the rest of the request.
RequestText(link) ==
    <<71, 69, 84, Space, Slash>>
        \o [i \in DOMAIN link |-> IF link[i] = Backslash THEN Slash ELSE link[i]]
        \o <<Space, 72, 49, 13, 10>>
        \o <<65, 45, 69, Colon, Space, 103, 13, 10, 13, 10>>

\* FindNextCharacter from the start of the data: it never looks at the last one.
FindNextCharacter(data, character) ==
    LET found == {i \in 1 .. Len(data) - 1 : data[i] = character}
    IN  IF found = {} THEN Len(data) - 1 ELSE Min(found) - 1

\* The first line of what was received.
ParseRequest(data) == SubSeq(data, 1, FindNextCharacter(data, 13))

\* The test of the verb rejects what differs from GET in all three letters.
IsGet(requestType) ==
    /\ Len(requestType) >= 3
    /\ \/ requestType[1] = 71
       \/ requestType[2] = 69
       \/ requestType[3] = 84

\* Mutant: the search starts one character too late.
VersionSpaceLate(requestType) ==
    Min({i \in 7 .. Len(requestType) : requestType[i] = Space} \cup {Len(requestType)})

\* The position of the space before the version; the last one if there is none.
VersionSpace(requestType) ==
    Min({i \in 6 .. Len(requestType) : requestType[i] = Space} \cup {Len(requestType)})

IsRequest(requestType) == IsGet(requestType) /\ VersionSpace(requestType) # Len(requestType)

\* The path, with the slashes turned back.
RequestedPath[requestType \in Bytes] ==
    LET path == DecodeUrl(SubSeq(requestType, 6, VersionSpace(requestType) - 1))
    IN  [i \in DOMAIN path |-> IF path[i] = Slash THEN Backslash ELSE path[i]]

\* FileBrowserResponseHandler::Execute.
AnswerKind(path) ==
    IF Len(path) > 1 /\ path[2] # Colon
    THEN IF path \in Builtin THEN "builtin" ELSE "notFound"
    ELSE IF path \in DiskFiles THEN IF path \in SharedFiles THEN "file" ELSE "notFound"
    ELSE "page"

-----------------------------------------------------------------------------
NoThread == [pc |-> "none", socket |-> None, path |-> <<>>]

Running(c) == thread[c].pc \notin {"none", "ended"}

Init ==
    /\ sent = [c \in Connection |-> <<>>]
    /\ wire = [c \in Connection |-> <<>>]
    /\ answers = [c \in Connection |-> <<>>]
    /\ isOpen = [c \in Connection |-> FALSE]
    /\ socket = [h \in Handle |-> None]
    /\ thread = [c \in Connection |-> NoThread]
    /\ cuts = 0
    /\ exact = [c \in Connection |-> TRUE]
    /\ atRisk = {}

\* Mutant: the thread is started although accept failed.
AcceptUnchecked(c) ==
    /\ thread[c].pc = "none"
    /\ thread' = [thread EXCEPT ![c].pc = "recv"]
    /\ isOpen' = [isOpen EXCEPT ![c] = TRUE]
    /\ UNCHANGED <<sent, wire, answers, socket, cuts, exact, atRisk>>

\* Accept: the new connection's socket gets a handle that is free, though an older
\* thread may still hold it.
Accept(c) ==
    \E h \in Handle :
        /\ thread[c].pc = "none" /\ socket[h] = None
        /\ socket' = [socket EXCEPT ![h] = c]
        /\ thread' = [thread EXCEPT ![c] = [pc |-> "recv", socket |-> h, path |-> <<>>]]
        /\ isOpen' = [isOpen EXCEPT ![c] = TRUE]
        /\ atRisk' = IF \E b \in Connection : Running(b) /\ thread[b].socket = h
                     THEN atRisk \cup {c} ELSE atRisk
        /\ UNCHANGED <<sent, wire, answers, cuts, exact>>

-----------------------------------------------------------------------------
(* The browser *)

Request(c) ==
    \E path \in Target :
        /\ isOpen[c] /\ SumFunction([d \in Connection |-> Len(sent[d])]) < MaxRequests
        /\ sent' = [sent EXCEPT ![c] = Append(@, path)]
        /\ wire' = [wire EXCEPT ![c] = Append(@, RequestText(LinkTo(path)))]
        /\ UNCHANGED <<isOpen, answers, socket, thread, cuts, exact, atRisk>>

Disconnect(c) ==
    /\ isOpen[c]
    /\ isOpen' = [isOpen EXCEPT ![c] = FALSE]
    /\ UNCHANGED <<sent, wire, answers, socket, thread, cuts, exact, atRisk>>

-----------------------------------------------------------------------------
(* The thread of connection c, which works on the connection that its handle *)
(* stands for                                                                *)

At(c, pc) == thread[c].pc = pc

Goto(c, pc) == thread' = [thread EXCEPT ![c].pc = pc]

Peer(c) == socket[thread[c].socket]

\* HandleRequest: the path is handed over, or there is no answer.
HandleRequest(c, requestType) ==
    thread' = IF IsRequest(requestType)
              THEN [thread EXCEPT ![c] = [pc |-> "execute", socket |-> @.socket,
                                          path |-> RequestedPath[requestType]]]
              ELSE thread

\* recv returns the first bytes of what is on the wire: usually all of it.
Receive(c) ==
    /\ At(c, "recv") /\ Peer(c) # None
    /\ \E d \in {Peer(c)} : \E bytes \in {FlattenSeq(wire[d])} :
          \E n \in 1 .. Min({Len(bytes), kDataBufferSize}) :
             /\ IF n = Len(bytes) \/ n = kDataBufferSize THEN UNCHANGED cuts
                ELSE cuts < MaxCuts /\ cuts' = cuts + 1
             /\ \E requestType \in {ParseRequest(SubSeq(bytes, 1, n))} :
                   HandleRequest(c, requestType)
             /\ exact' = [exact EXCEPT ![d] = @ /\ n = Len(Head(wire[d]))]
             /\ wire' = [wire EXCEPT ![d] =
                   IF n = Len(Head(@)) THEN Tail(@)
                   ELSE IF n < Len(bytes) THEN <<SubSeq(bytes, n + 1, Len(bytes))>>
                   ELSE <<>>]
    /\ UNCHANGED <<sent, isOpen, answers, socket, atRisk>>

\* recv returns 0 at the end of a closed connection.  It fails on a handle that is
\* closed, be it given to another connection by now.
RecvEnds(c) == c \in atRisk \/ Peer(c) \notin {d \in Connection : isOpen[d]}

\* Mutant: the loop goes on when nothing was received.
ReceiveNothingGoesOn(c) ==
    /\ At(c, "recv") /\ RecvEnds(c)
    /\ Goto(c, IF Peer(c) = None THEN "close" ELSE "recv")
    /\ UNCHANGED <<browser, answers, socket, cuts, exact, atRisk>>

\* Mutant: the failure is reported and the socket closed, as it is again at the end.
ReceiveNothingCloses(c) ==
    /\ At(c, "recv") /\ RecvEnds(c)
    /\ socket' = [socket EXCEPT ![thread[c].socket] = None]
    /\ Goto(c, "close")
    /\ UNCHANGED <<browser, answers, cuts, exact, atRisk>>

\* The loop of Run ends.
ReceiveNothing(c) ==
    /\ At(c, "recv") /\ RecvEnds(c)
    /\ Goto(c, "close")
    /\ UNCHANGED <<browser, answers, socket, cuts, exact, atRisk>>

\* What is sent on a socket that was closed is lost.
Send(c, kind) ==
    answers' = IF Peer(c) = None THEN answers
               ELSE [answers EXCEPT ![Peer(c)] = Append(@, [path |-> thread[c].path, kind |-> kind])]

\* A page, a built-in file or the line "404 Not Found", in one or two sends.
SendResponse(c) ==
    /\ At(c, "execute") /\ AnswerKind(thread[c].path) # "file"
    /\ Send(c, AnswerKind(thread[c].path))
    /\ Goto(c, "recv")
    /\ UNCHANGED <<browser, socket, cuts, exact, atRisk>>

\* StreamFile sends the whole file ...
StreamFile(c) ==
    /\ At(c, "execute") /\ AnswerKind(thread[c].path) = "file"
    /\ Peer(c) # None
    /\ Send(c, "file")
    /\ Goto(c, "recv")
    /\ UNCHANGED <<browser, socket, cuts, exact, atRisk>>

\* ... or throws, because a send or a read failed or the browser took too long.
StreamFileThrows(c) ==
    /\ At(c, "execute") /\ AnswerKind(thread[c].path) = "file"
    /\ Send(c, "partial")
    /\ Goto(c, "abandon")
    /\ UNCHANGED <<browser, socket, cuts, exact, atRisk>>

\* The handler of the exception closes the socket and returns to Run, whose loop
\* goes on with the handle.
AbandonSocket(c) ==
    /\ At(c, "abandon")
    /\ socket' = [socket EXCEPT ![thread[c].socket] = None]
    /\ Goto(c, "recv")
    /\ atRisk' = atRisk \cup {c}
    /\ UNCHANGED <<browser, answers, cuts, exact>>

\* Run closes its handle at the end.
CloseSocket(c) ==
    /\ At(c, "close")
    /\ socket' = [socket EXCEPT ![thread[c].socket] = None]
    /\ thread' = [thread EXCEPT ![c] = [NoThread EXCEPT !.pc = "ended"]]
    /\ UNCHANGED <<browser, answers, cuts, exact, atRisk>>

ThreadStep(c) ==
    \/ Receive(c)
    \/ ReceiveNothing(c)
    \/ SendResponse(c)
    \/ StreamFile(c)
    \/ StreamFileThrows(c)
    \/ AbandonSocket(c)
    \/ CloseSocket(c)

Next == \E c \in Connection : Accept(c) \/ Request(c) \/ Disconnect(c) \/ ThreadStep(c)

Spec == Init /\ [][Next]_vars

\* The server's threads keep running: recv returns once there is something to
\* receive or the connection is closed, and the calls of send return.
FairSpec == Spec /\ \A c \in Connection : WF_vars(ThreadStep(c))

-----------------------------------------------------------------------------
(* Properties *)

\* Every variable has a value of its type, and a running thread has a handle.
TypeOK ==
    /\ sent \in [Connection -> Seq(Target)]
    /\ wire \in [Connection -> Seq(Bytes)]
    /\ answers \in [Connection ->
           Seq([path : Bytes, kind : {"builtin", "notFound", "file", "partial", "page"}])]
    /\ isOpen \in [Connection -> BOOLEAN]
    /\ socket \in [Handle -> Connection \cup {None}]
    /\ thread \in [Connection -> [pc : {"none", "recv", "execute", "abandon", "close", "ended"},
                                  socket : Handle \cup {None}, path : Bytes]]
    /\ \A c \in Connection : Running(c) => thread[c].socket \in Handle
    /\ cuts \in 0 .. MaxCuts
    /\ exact \in [Connection -> BOOLEAN]
    /\ atRisk \subseteq Connection

\* Handles are neither lost nor shared: a connection that the system holds open has
\* a running thread that will close its handle; and a thread that never closed its
\* handle early, nor got one that another thread still held, works on its own
\* connection, alone, for as long as it runs.
OwnSocket ==
    /\ \A h \in Handle :
          socket[h] # None => Running(socket[h]) /\ thread[socket[h]].socket = h
    /\ \A c \in Connection \ atRisk :
          Running(c) =>
              /\ Peer(c) = c
              /\ \A d \in Connection \ {c} : Running(d) => thread[d].socket # thread[c].socket

\* The connections on which every receive returned one request so far, and that no
\* other thread can have read from or sent to.
InStep(c) == exact[c] /\ c \notin atRisk

Promise == INSTANCE RequestResponse WITH
    asked <- sent,
    answered <- [c \in Connection |-> [n \in DOMAIN answers[c] |-> answers[c][n].path]],
    inStep <- [c \in Connection |-> InStep(c)]

\* On a connection in step each request gets one answer, in order, and the answer is
\* about the path that the link was made of: encoding, the browser's slashes, the
\* parsing of the request and decoding give the path back.
ImplementsRequestResponse == Promise!Spec

\* A connection that stays open and in step catches up again and again: no request
\* stays without an answer, if only a part of a file.
RequestIsAnswered ==
    \A c \in Connection : []<>(Len(answers[c]) >= Len(sent[c]) \/ ~InStep(c) \/ ~isOpen[c])

\* Once every browser has closed its connections, all threads end and every handle
\* is free, whatever was sent, cut or abandoned before.
SocketsAreReleased ==
    <>[](\A c \in Connection : ~isOpen[c])
        => <>[](/\ \A c \in Connection : ~Running(c)
                /\ \A h \in Handle : socket[h] = None)

=============================================================================
