------------------------------ MODULE Sharing ------------------------------
(***************************************************************************)
(* A sharing session of the WPF client: SharingPageViewModel on the UI     *)
(* thread, the thread-pool tasks it starts, the native side they call      *)
(* (SetSharedFiles, StartSharingFiles, StopSharingFiles), the listener's   *)
(* thread and the detached connection threads that answer requests.        *)
(*                                                                         *)
(* The tree of check boxes is the function marks: here a click changes it  *)
(* to other consistent marks, LocalFileViewModel's own bookkeeping is not  *)
(* part of this module.  The pages themselves are FolderListing's.         *)
(***************************************************************************)
EXTENDS SharedFiles

CONSTANTS TaskId,      \* thread-pool tasks that can be unfinished at a time
          ListenerId,  \* Tcp::Listener objects that can exist at a time
          Connection,  \* connections of browsers
          Requested,   \* the paths they ask for
          None         \* a null pointer, an unused task, nobody

ASSUME RequestedAssumption == Requested \subseteq Disk \cup {<<>>}

SharedSets == [fullySharedFolders : SUBSET Folders,
               partiallySharedFolders : SUBSET Folders,
               files : SUBSET Files]

\* A task of the thread pool, and what it is about to do.
Task == [kind : {"set", "start", "stop"},
         files : SharedSets,
         step : {"lock", "second", "third", "listen", "stop", "join", "finished"}]

\* A Tcp::Listener: what its thread does next, and m_Running.
ListenerState ==
    [thread : {"none", "bind", "loop", "accept", "ended"}, m_Running : BOOLEAN]

\* A connection: the step of its thread, the path asked for, the answer so far,
\* the volumes whose look-up is still to come, and (history) the sharing states
\* that were published from the request on.
ConnectionState ==
    [thread : {"none", "backlog", "recv", "request", "list", "stream"},
     path : Disk \cup {<<>>},
     answer : [kind : {"none", "volumes", "listing", "file", "error"},
               entries : SUBSET Disk],
     volumes : SUBSET Volumes,
     during : SUBSET SharedSets]

ASSUME NoneAssumption == None \notin TaskId \cup ListenerId \cup Task

VARIABLES
    marks,                   \* the check boxes of the file tree
    volumesLoaded,           \* m_RootFiles is no longer null
    m_IsSharing,
    m_CanChangeShareStatus,
    m_SharingContext,        \* the native listener, or None
    tasks,                   \* the thread-pool tasks
    s_CriticalSection,       \* the task that holds the lock of SharedFiles
    shared,                  \* s_FullySharedFolders, s_PartiallySharedFolders, s_Files
    published,               \* history: shared when the lock was last released
    listener,                \* each listener's thread and m_Running
    connection,              \* each connection, its thread and its request
    crashed                  \* the process has ended

uiVars == <<marks, volumesLoaded, m_IsSharing, m_CanChangeShareStatus>>
storeVars == <<s_CriticalSection, shared, published>>

vars == <<uiVars, m_SharingContext, tasks, storeVars, listener, connection, crashed>>

NothingShared == [fullySharedFolders |-> {}, partiallySharedFolders |-> {}, files |-> {}]

\* No request yet, or not answered yet.
NoAnswer == [kind |-> "none", entries |-> {}]

\* A connection in some state of its thread, with nothing requested.
Idle(state) == [thread |-> state, path |-> <<>>, answer |-> NoAnswer,
                volumes |-> {}, during |-> {}]

Init ==
    /\ marks = [p \in Disk |-> "unchecked"]
    /\ volumesLoaded = FALSE
    /\ m_IsSharing = FALSE
    /\ m_CanChangeShareStatus = TRUE
    /\ m_SharingContext = None
    /\ tasks = [t \in TaskId |-> None]
    /\ s_CriticalSection = None
    /\ shared = NothingShared
    /\ published = NothingShared
    /\ listener = [l \in ListenerId |-> [thread |-> "none", m_Running |-> FALSE]]
    /\ connection = [c \in Connection |-> Idle("none")]
    /\ crashed = FALSE

-----------------------------------------------------------------------------
(* The UI thread *)

\* Task.Run: an unused task starts with its argument.
RunTask(kind, sets) ==
    \E t \in TaskId :
        /\ tasks[t] = None
        /\ tasks' = [tasks EXCEPT ![t] =
              [kind |-> kind, files |-> sets,
               step |-> IF kind = "stop" THEN "stop" ELSE "lock"]]

\* LoadVolumesAsync: the volumes arrive, all unchecked.
LoadVolumes ==
    /\ ~volumesLoaded
    /\ volumesLoaded' = TRUE
    /\ UNCHANGED <<marks, m_IsSharing, m_CanChangeShareStatus>>
    /\ UNCHANGED <<m_SharingContext, tasks, storeVars, listener, connection, crashed>>

\* A click on a check box.  NotifySharedFileChanged ignores it unless IsSharing;
\* HandleSharedFilesChanged collects the marks at once and sets them in a task.
ClickCheckBox ==
    /\ volumesLoaded
    /\ marks' \in ConsistentMarks \ {marks}
    /\ IF m_IsSharing
       THEN RunTask("set", CollectSharedFiles(marks'))
       ELSE UNCHANGED tasks
    /\ UNCHANGED <<volumesLoaded, m_IsSharing, m_CanChangeShareStatus>>
    /\ UNCHANGED <<m_SharingContext, storeVars, listener, connection, crashed>>

\* Mutant: the button works while a task is starting or stopping.
StartSharingTwice ==
    /\ ~m_IsSharing
    /\ m_CanChangeShareStatus' = FALSE
    /\ volumesLoaded
    /\ RunTask("start", CollectSharedFiles(marks))
    /\ UNCHANGED <<marks, volumesLoaded, m_IsSharing, crashed>>
    /\ UNCHANGED <<m_SharingContext, storeVars, listener, connection>>

\* The button "Start sharing".  CollectSharedFiles iterates over m_RootFiles,
\* which is null until the volumes are loaded: the exception leaves the async
\* void click handler and ends the process.
StartSharing ==
    /\ ~m_IsSharing /\ m_CanChangeShareStatus
    /\ m_CanChangeShareStatus' = FALSE
    /\ IF volumesLoaded
       THEN RunTask("start", CollectSharedFiles(marks)) /\ UNCHANGED crashed
       ELSE crashed' = TRUE /\ UNCHANGED tasks
    /\ UNCHANGED <<marks, volumesLoaded, m_IsSharing>>
    /\ UNCHANGED <<m_SharingContext, storeVars, listener, connection>>

\* The button "Stop sharing".
StopSharing ==
    /\ m_IsSharing /\ m_CanChangeShareStatus
    /\ m_CanChangeShareStatus' = FALSE
    /\ RunTask("stop", NothingShared)
    /\ UNCHANGED <<marks, volumesLoaded, m_IsSharing>>
    /\ UNCHANGED <<m_SharingContext, storeVars, listener, connection, crashed>>

\* await returns: a task that was awaited has ended.  The continuations of
\* StartSharing and StopSharing set both flags.
FinishTask(t) ==
    /\ tasks[t] # None
    /\ tasks[t].step = "finished"
    /\ tasks' = [tasks EXCEPT ![t] = None]
    /\ m_IsSharing' = CASE tasks[t].kind = "start" -> TRUE
                        [] tasks[t].kind = "stop" -> FALSE
                        [] OTHER -> m_IsSharing
    /\ m_CanChangeShareStatus' =
          IF tasks[t].kind = "set" THEN m_CanChangeShareStatus ELSE TRUE
    /\ UNCHANGED <<marks, volumesLoaded>>
    /\ UNCHANGED <<m_SharingContext, storeVars, listener, connection, crashed>>

-----------------------------------------------------------------------------
(* The tasks on the native side *)

AtStep(t, step) == tasks[t] # None /\ tasks[t].step = step

Goto(t, step) == tasks' = [tasks EXCEPT ![t].step = step]

\* Mutant: one set is assigned to all.
AssignFiles(t, set) == shared' = [shared EXCEPT ![set] = tasks[t].files.files]

AssignSet(t, set) == shared' = [shared EXCEPT ![set] = tasks[t].files[set]]

\* Mutant: SetSharedFiles does not take the lock.
DoNotEnterCriticalSection(t) ==
    /\ AtStep(t, "lock")
    /\ AssignSet(t, "fullySharedFolders")
    /\ Goto(t, "second")
    /\ UNCHANGED <<s_CriticalSection, published>>
    /\ UNCHANGED <<uiVars, m_SharingContext, listener, connection, crashed>>

\* SetSharedFiles enters the critical section once it has built its own sets,
\* and assigns the first one.
EnterCriticalSection(t) ==
    /\ AtStep(t, "lock")
    /\ s_CriticalSection = None
    /\ s_CriticalSection' = t
    /\ AssignSet(t, "fullySharedFolders")
    /\ Goto(t, "second")
    /\ UNCHANGED published
    /\ UNCHANGED <<uiVars, m_SharingContext, listener, connection, crashed>>

AssignPartiallySharedFolders(t) ==
    /\ AtStep(t, "second")
    /\ AssignSet(t, "partiallySharedFolders")
    /\ Goto(t, "third")
    /\ UNCHANGED <<s_CriticalSection, published>>
    /\ UNCHANGED <<uiVars, m_SharingContext, listener, connection, crashed>>

\* A request that is being answered, from its first look-up on.
Answering(c) == connection[c].thread \in {"request", "list", "stream"}

\* Mutant: the lock is not released.
KeepCriticalSection(t) ==
    /\ AtStep(t, "third")
    /\ AssignSet(t, "files")
    /\ published' = shared'
    /\ Goto(t, IF tasks[t].kind = "start" THEN "listen" ELSE "finished")
    /\ UNCHANGED <<s_CriticalSection, connection>>
    /\ UNCHANGED <<uiVars, m_SharingContext, listener, crashed>>

\* The last assignment publishes the new sharing state; the requests in progress
\* have seen it.
LeaveCriticalSection(t) ==
    /\ AtStep(t, "third")
    /\ AssignSet(t, "files")
    /\ s_CriticalSection' = None
    /\ published' = shared'
    /\ connection' = [c \in Connection |->
          IF Answering(c)
          THEN [connection[c] EXCEPT !.during = @ \cup {shared'}]
          ELSE connection[c]]
    /\ Goto(t, IF tasks[t].kind = "start" THEN "listen" ELSE "finished")
    /\ UNCHANGED <<uiVars, m_SharingContext, listener, crashed>>

\* StartSharingFiles: a new listener, whose thread is started.
StartListener(t) ==
    \E l \in ListenerId :
        /\ AtStep(t, "listen")
        /\ listener[l].thread = "none"
        /\ listener' = [listener EXCEPT ![l] = [thread |-> "bind", m_Running |-> TRUE]]
        /\ m_SharingContext' = l
        /\ Goto(t, "finished")
        /\ UNCHANGED <<uiVars, storeVars, connection, crashed>>

\* Mutant: the destructor does not stop the loop.
JoinWithoutStop(t) ==
    /\ AtStep(t, "stop")
    /\ Goto(t, "join")
    /\ UNCHANGED <<uiVars, m_SharingContext, storeVars, listener, connection, crashed>>

\* StopSharingFiles deletes the listener: Listener::Stop clears m_Running ...
StopListener(t) ==
    /\ AtStep(t, "stop")
    /\ listener' = [listener EXCEPT ![m_SharingContext].m_Running = FALSE]
    /\ Goto(t, "join")
    /\ UNCHANGED <<uiVars, m_SharingContext, storeVars, connection, crashed>>

\* Mutant: the thread is detached instead of joined.
DetachListener(t) ==
    /\ AtStep(t, "join")
    /\ m_SharingContext' = None
    /\ Goto(t, "finished")
    /\ UNCHANGED <<uiVars, storeVars, listener, connection, crashed>>

\* ... and joins the thread.
JoinListener(t) ==
    /\ AtStep(t, "join")
    /\ listener[m_SharingContext].thread = "ended"
    /\ listener' = [listener EXCEPT ![m_SharingContext].thread = "none"]
    /\ m_SharingContext' = None
    /\ Goto(t, "finished")
    /\ UNCHANGED <<uiVars, storeVars, connection, crashed>>

-----------------------------------------------------------------------------
(* The listener's thread *)

SetThread(l, state) == listener' = [listener EXCEPT ![l].thread = state]

\* CreateListeningSocket; a failure is fatal to the process.
BindListener(l) ==
    /\ listener[l].thread = "bind"
    /\ \/ SetThread(l, "loop") /\ UNCHANGED crashed
       \/ crashed' = TRUE /\ UNCHANGED listener
    /\ UNCHANGED <<uiVars, m_SharingContext, tasks, storeVars, connection>>

\* while (m_Running); at the end the socket is closed and with it the
\* connections that were not accepted.
TestRunning(l) ==
    /\ listener[l].thread = "loop"
    /\ SetThread(l, IF listener[l].m_Running THEN "accept" ELSE "ended")
    /\ connection' =
          IF listener[l].m_Running THEN connection
          ELSE [c \in Connection |->
                  IF connection[c].thread = "backlog"
                  THEN [connection[c] EXCEPT !.thread = "none"]
                  ELSE connection[c]]
    /\ UNCHANGED <<uiVars, m_SharingContext, tasks, storeVars, crashed>>

\* accept() returns a connection, whose thread is started and detached, or
\* would block.
Accept(l) ==
    /\ listener[l].thread = "accept"
    /\ SetThread(l, "loop")
    /\ \/ \E c \in Connection :
             /\ connection[c].thread = "backlog"
             /\ connection' = [connection EXCEPT ![c].thread = "recv"]
       \/ /\ \A c \in Connection : connection[c].thread # "backlog"
          /\ UNCHANGED connection
    /\ UNCHANGED <<uiVars, m_SharingContext, tasks, storeVars, crashed>>

-----------------------------------------------------------------------------
(* Connections: the browser and the thread that serves it *)

NativeUnchanged == UNCHANGED <<uiVars, m_SharingContext, tasks, storeVars, listener, crashed>>

SetConnection(c, state) == connection' = [connection EXCEPT ![c] = state]

\* A browser connects while a socket listens.
Connect(c) ==
    /\ connection[c].thread = "none"
    /\ \E l \in ListenerId : listener[l].thread \in {"loop", "accept"}
    /\ connection' = [connection EXCEPT ![c].thread = "backlog"]
    /\ NativeUnchanged

\* Server::Run receives a request for a folder, a file or the home page.
Receive(c) ==
    /\ connection[c].thread = "recv"
    /\ \E p \in Requested :
          SetConnection(c, [Idle("request") EXCEPT
                                !.path = p,
                                !.volumes = IF p = <<>> THEN Volumes ELSE {},
                                !.during = {published}])
    /\ NativeUnchanged

\* The look-ups wait for the lock and hold it for one step.
Answer(c, kind, entries) ==
    SetConnection(c, [Idle("recv") EXCEPT !.answer = [kind |-> kind, entries |-> entries]])

\* Mutant: GetVolumes does not filter.
ListAnyVolume(c) ==
    /\ connection[c].thread = "request"
    /\ s_CriticalSection = None
    /\ \E v \in connection[c].volumes :
          connection' = [connection EXCEPT ![c].volumes = @ \ {v},
                                           ![c].answer.entries = @ \cup {v}]
    /\ NativeUnchanged

\* GetVolumes takes the lock for each volume anew.
LookUpVolume(c) ==
    /\ connection[c].thread = "request"
    /\ s_CriticalSection = None
    /\ \E v \in connection[c].volumes :
          connection' = [connection EXCEPT
              ![c].volumes = @ \ {v},
              ![c].answer.entries = IF IsFolderVisible(shared, v) THEN @ \cup {v} ELSE @]
    /\ NativeUnchanged

\* The home page lists the volumes that were left.
ListVolumes(c) ==
    /\ connection[c].thread = "request"
    /\ connection[c].path = <<>>
    /\ connection[c].volumes = {}
    /\ Answer(c, "volumes", connection[c].answer.entries)
    /\ NativeUnchanged

\* GenerateHtmlBodyContentOfDirectory asks IsFolderVisible first ...
CheckFolderVisible(c) ==
    /\ connection[c].thread = "request"
    /\ connection[c].path \in Folders
    /\ s_CriticalSection = None
    /\ IF IsFolderVisible(shared, connection[c].path)
       THEN connection' = [connection EXCEPT ![c].thread = "list"]
       ELSE Answer(c, "error", {})
    /\ NativeUnchanged

\* Mutant: the contents are listed without the lock.
ListFolderUnlocked(c) ==
    /\ connection[c].thread = "list"
    /\ Answer(c, "listing", GetFolderContents(shared, connection[c].path))
    /\ NativeUnchanged

\* ... and lists the contents under the lock taken anew.
ListFolder(c) ==
    /\ connection[c].thread = "list"
    /\ s_CriticalSection = None
    /\ Answer(c, "listing", GetFolderContents(shared, connection[c].path))
    /\ NativeUnchanged

\* SendFileResponse asks IsFileShared; not found if it is not.
CheckFileShared(c) ==
    /\ connection[c].thread = "request"
    /\ connection[c].path \in Files
    /\ s_CriticalSection = None
    /\ IF IsFileShared(shared, connection[c].path)
       THEN connection' = [connection EXCEPT ![c].thread = "stream"]
       ELSE Answer(c, "error", {})
    /\ NativeUnchanged

\* StreamFile, without the lock.
SendFile(c) ==
    /\ connection[c].thread = "stream"
    /\ Answer(c, "file", {})
    /\ NativeUnchanged

\* The peer closes the connection and its thread ends.
Disconnect(c) ==
    /\ connection[c].thread = "recv"
    /\ SetConnection(c, Idle("none"))
    /\ NativeUnchanged

-----------------------------------------------------------------------------
(* The specification *)

TaskStep(t) ==
    \/ EnterCriticalSection(t)
    \/ AssignPartiallySharedFolders(t)
    \/ LeaveCriticalSection(t)
    \/ StartListener(t)
    \/ StopListener(t)
    \/ JoinListener(t)

ListenerStep(l) == BindListener(l) \/ TestRunning(l) \/ Accept(l)

ConnectionStep(c) ==
    \/ LookUpVolume(c)
    \/ ListVolumes(c)
    \/ CheckFolderVisible(c)
    \/ ListFolder(c)
    \/ CheckFileShared(c)
    \/ SendFile(c)

BrowserStep(c) == Connect(c) \/ Receive(c) \/ Disconnect(c)

UserStep == ClickCheckBox \/ StartSharing \/ StopSharing

Next ==
    /\ ~crashed
    /\ \/ UserStep
       \/ LoadVolumes
       \/ \E t \in TaskId : TaskStep(t) \/ FinishTask(t)
       \/ \E l \in ListenerId : ListenerStep(l)
       \/ \E c \in Connection : ConnectionStep(c) \/ BrowserStep(c)

Spec == Init /\ [][Next]_vars

\* The pool runs its tasks, the awaited ones resume, the listener's thread runs.
\* Users and browsers owe nothing.
FairSpec ==
    /\ Spec
    /\ \A t \in TaskId : WF_vars(~crashed /\ (TaskStep(t) \/ FinishTask(t)))
    /\ \A l \in ListenerId : WF_vars(~crashed /\ ListenerStep(l))

-----------------------------------------------------------------------------
(* Properties *)

\* Every variable has a value of its type.
TypeOK ==
    /\ marks \in ConsistentMarks
    /\ {volumesLoaded, m_IsSharing, m_CanChangeShareStatus, crashed} \subseteq BOOLEAN
    /\ m_SharingContext \in ListenerId \cup {None}
    /\ tasks \in [TaskId -> Task \cup {None}]
    /\ s_CriticalSection \in TaskId \cup {None}
    /\ {shared, published} \subseteq SharedSets
    /\ listener \in [ListenerId -> ListenerState]
    /\ connection \in [Connection -> ConnectionState]

\* Every published sharing state is one that the check boxes showed: updates in
\* parallel tasks never mix, whatever the order they come in.
Snapshots == {CollectSharedFiles(m) : m \in ConsistentMarks}

SharedIsSnapshot == published \in Snapshots

\* A step that answers: the answer fits one of the states published meanwhile.
AnswerIsRight(c) ==
    LET path == connection[c].path
        answer == connection'[c].answer
        right(s) ==
            CASE answer.kind = "listing" -> answer.entries = GetFolderContents(s, path)
              [] answer.kind = "file" -> IsFileShared(s, path)
              [] answer.kind = "error" -> ~IsEntryVisible(s, path)
              [] OTHER -> TRUE
    IN  Answering(c) /\ ~Answering(c)' => \E s \in connection[c].during : right(s)

\* Each answer is right for one instant between the request and the answer,
\* although the handler looks at the sharing state twice: no listing shows a
\* mixture of two states, and no file is sent that was not shared meanwhile.
AnswerFromOneInstant == [][\A c \in Connection : AnswerIsRight(c)]_vars

\* A step that answers with the home page: each volume was visible once if it is
\* listed, and invisible once if it is not.
VolumesAreRight(c) ==
    LET listed == connection'[c].answer.entries
        during == connection[c].during
    IN  Answering(c) /\ ~Answering(c)' /\ connection'[c].answer.kind = "volumes" =>
            /\ \A v \in listed : \E s \in during : IsFolderVisible(s, v)
            /\ \A v \in Volumes \ listed : \E s \in during : ~IsFolderVisible(s, v)

\* The home page is built from several instants: it need not show any one sharing
\* state, but a volume on it was visible at some moment of the request, and one
\* that was visible all the time is on it.
VolumesFromTheRequest == [][\A c \in Connection : VolumesAreRight(c)]_vars

\* The listeners of two sessions never listen on the port at the same time.
OneListener ==
    \A l, k \in ListenerId :
        listener[l].thread # "none" /\ listener[k].thread # "none" => l = k

\* When the page shows "Running" there is a listener that is to go on, and when
\* it shows "Stopped" there is none left.
StatusMatchesListener ==
    m_CanChangeShareStatus /\ ~crashed =>
        IF m_IsSharing
        THEN /\ m_SharingContext # None
             /\ listener[m_SharingContext].m_Running
             /\ listener[m_SharingContext].thread \in {"bind", "loop", "accept"}
        ELSE \A l \in ListenerId : listener[l].thread = "none"

\* "Starting" and "Stopping" do not last: the tasks end, the join included.
StatusSettles == ~m_CanChangeShareStatus ~> (m_CanChangeShareStatus \/ crashed)

\* The task of a click that no other task can overtake: browsers get what the
\* check boxes show once it has run, unless there is a further click or a
\* session ends.
LoneUpdateApplies ==
    \A m \in ConsistentMarks :
        LET lone == \E t \in TaskId :
                        /\ AtStep(t, "lock")
                        /\ tasks[t].kind = "set"
                        /\ tasks[t].files = CollectSharedFiles(m)
                        /\ \A u \in TaskId \ {t} : tasks[u] = None
        IN  m_IsSharing /\ marks = m /\ lone
                ~> \/ published = CollectSharedFiles(m)
                   \/ marks # m \/ ~m_CanChangeShareStatus \/ crashed

=============================================================================
