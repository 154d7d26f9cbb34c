-------------------------- MODULE SharingInvariant --------------------------
(***************************************************************************)
(* The inductive invariant of Sharing: what the pool tasks, the lock and   *)
(* the listeners have to do with each other and with the two flags that    *)
(* the page shows.                                                         *)
(***************************************************************************)
EXTENDS Sharing

\* Task t starts or stops the session.
Switches(t) == tasks[t] # None /\ tasks[t].kind \in {"start", "stop"}

\* The steps each kind of task goes through, with sets that the boxes showed.
TaskSteps ==
    \A t \in TaskId : tasks[t] # None =>
        /\ tasks[t].kind = "set" => tasks[t].step \in {"lock", "second", "third", "finished"}
        /\ tasks[t].kind = "start" =>
              tasks[t].step \in {"lock", "second", "third", "listen", "finished"}
        /\ tasks[t].kind = "stop" => tasks[t].step \in {"stop", "join", "finished"}
        /\ tasks[t].kind # "stop" => tasks[t].files \in Snapshots

\* The lock is held by the task that assigns the sets.
LockHolder ==
    \A t \in TaskId :
        s_CriticalSection = t <=> AtStep(t, "second") \/ AtStep(t, "third")

\* What the task has assigned so far, and nothing since the lock was released.
Assigned ==
    /\ s_CriticalSection = None => shared = published
    /\ \A t \in TaskId :
          /\ AtStep(t, "second") \/ AtStep(t, "third") =>
                shared.fullySharedFolders = tasks[t].files.fullySharedFolders
          /\ AtStep(t, "third") =>
                shared.partiallySharedFolders = tasks[t].files.partiallySharedFolders

\* One task at most starts or stops the session, while the buttons are disabled.
OneSwitch ==
    /\ \A t, u \in TaskId : Switches(t) /\ Switches(u) => t = u
    /\ \A t \in TaskId : Switches(t) =>
          ~m_CanChangeShareStatus /\ (m_IsSharing <=> tasks[t].kind = "stop")

\* The listener that is to go on accepting.
Listening ==
    /\ m_SharingContext # None
    /\ listener[m_SharingContext].m_Running
    /\ listener[m_SharingContext].thread \in {"bind", "loop", "accept"}

\* The context names the only listener; it listens from the end of the start's
\* task until the stop's task begins, and is gone when the stop's task ends.
Session ==
    /\ \A l \in ListenerId : listener[l].thread # "none" => m_SharingContext = l
    /\ \A t \in TaskId : Switches(t) =>
          /\ AtStep(t, "stop") \/ (tasks[t].kind = "start" /\ AtStep(t, "finished")) => Listening
          /\ AtStep(t, "join") => m_SharingContext # None
          /\ tasks[t].kind = "stop" /\ AtStep(t, "finished") => m_SharingContext = None
    /\ m_SharingContext # None =>
          m_IsSharing \/ \E t \in TaskId : Switches(t) /\ AtStep(t, "finished")
    /\ m_IsSharing => Listening \/ \E t \in TaskId : Switches(t)

IInv ==
    /\ TypeOK
    /\ TaskSteps
    /\ LockHolder
    /\ Assigned
    /\ SharedIsSnapshot
    /\ OneSwitch
    /\ Session

\* What is known of a request that is being answered: the state that is published
\* now was published meanwhile, a file that is being sent was shared once
\* meanwhile, and each volume was looked up once or is still to come.
RequestInvariant(c) ==
    LET request == connection[c] IN
    Answering(c) =>
        /\ published \in request.during
        /\ request.thread = "list" => request.path \in Folders
        /\ request.thread = "stream" =>
              \E s \in request.during : IsFileShared(s, request.path)
        /\ \A v \in request.answer.entries :
              \E s \in request.during : IsFolderVisible(s, v)
        /\ request.path = <<>> =>
              \A v \in Volumes \ (request.volumes \cup request.answer.entries) :
                  \E s \in request.during : ~IsFolderVisible(s, v)

RequestsInvariant == \A c \in Connection : RequestInvariant(c)

=============================================================================
