--------------------------- MODULE SharingProofs ---------------------------
(***************************************************************************)
(* Proofs about Sharing: whatever the number of tasks, listeners and       *)
(* connections, the published sets are a snapshot of the check boxes, at   *)
(* most one listener exists, and the status shown agrees with it.          *)
(***************************************************************************)
EXTENDS SharingInvariant, SharedFilesProofs, TLAPS

-----------------------------------------------------------------------------
(* Snapshots of the check boxes *)

\* The sets collected from consistent marks are of the right type.
LEMMA CollectedTypes ==
    ASSUME NEW m \in ConsistentMarks
    PROVE  CollectSharedFiles(m) \in SharedSets
<1>1. \A p \in Disk : m[p] = "indeterminate" => p \in Folders
  <2> SUFFICES ASSUME NEW p \in Disk, m[p] = "indeterminate"
               PROVE  p \in Folders
    OBVIOUS
  <2>1. PICK q \in Disk : IsAbove(p, q)
    BY DEF ConsistentMarks
  <2>2. Len(p) \in 1 .. Len(q) - 1 /\ p = SubSeq(q, 1, Len(p))
    BY <2>1, PathTypes DEF IsAbove
  <2> QED BY <2>1, <2>2, PrefixIsFolder
<1>2. Folders \subseteq Disk
  BY OnDisk
<1> QED BY <1>1, <1>2 DEF CollectSharedFiles, SharedSets, Files

\* Nothing checked is a consistent marking, and nothing is collected from it.
LEMMA NothingIsSnapshot == NothingShared \in Snapshots
<1> DEFINE m == [p \in Disk |-> "unchecked"]
<1>1. m \in ConsistentMarks
  BY DEF ConsistentMarks, CheckMark
<1>2. CollectSharedFiles(m) = NothingShared
  BY DEF CollectSharedFiles, NothingShared
<1> QED BY <1>1, <1>2 DEF Snapshots

LEMMA SnapshotTypes == Snapshots \subseteq SharedSets
BY CollectedTypes DEF Snapshots

-----------------------------------------------------------------------------
(* What a step does to the tasks *)

Steps == {"lock", "second", "third", "listen", "stop", "join", "finished"}

\* A task that goes on keeps its kind and its sets; the other tasks stay.
LEMMA GotoFacts ==
    ASSUME TypeOK, NEW t \in TaskId, tasks[t] # None, NEW step \in Steps, Goto(t, step)
    PROVE  /\ tasks' \in [TaskId -> Task \cup {None}]
           /\ tasks'[t] # None
           /\ tasks'[t].kind = tasks[t].kind
           /\ tasks'[t].files = tasks[t].files
           /\ tasks'[t].step = step
           /\ \A u \in TaskId : u # t => tasks'[u] = tasks[u]
<1>1. tasks[t] \in Task
  BY DEF TypeOK
<1>2. tasks'[t] = [tasks[t] EXCEPT !.step = step] /\ \A u \in TaskId : u # t => tasks'[u] = tasks[u]
  BY DEF TypeOK, Goto
<1>3. [tasks[t] EXCEPT !.step = step] \in Task
  BY <1>1 DEF Task, Steps
<1>4. [tasks[t] EXCEPT !.step = step] # None
  BY <1>3, NoneAssumption
<1>5. tasks' \in [TaskId -> Task \cup {None}]
  BY <1>3 DEF TypeOK, Goto
<1> QED BY <1>1, <1>2, <1>4, <1>5 DEF Task

\* Task.Run finds an unused task and starts it.
LEMMA RunTaskFacts ==
    ASSUME TypeOK, NEW kind \in {"set", "start", "stop"}, NEW sets \in SharedSets,
           RunTask(kind, sets)
    PROVE  \E t \in TaskId :
              /\ tasks[t] = None
              /\ tasks' \in [TaskId -> Task \cup {None}]
              /\ tasks'[t] # None
              /\ tasks'[t].kind = kind
              /\ tasks'[t].files = sets
              /\ tasks'[t].step = IF kind = "stop" THEN "stop" ELSE "lock"
              /\ \A u \in TaskId : u # t => tasks'[u] = tasks[u]
<1> DEFINE new == [kind |-> kind, files |-> sets,
                   step |-> IF kind = "stop" THEN "stop" ELSE "lock"]
<1>1. PICK t \in TaskId : tasks[t] = None /\ tasks' = [tasks EXCEPT ![t] = new]
  BY DEF RunTask
<1>2. new \in Task
  BY DEF Task
<1>3. new # None
  BY <1>2, NoneAssumption
<1>4. tasks' \in [TaskId -> Task \cup {None}] /\ tasks'[t] = new
  BY <1>1, <1>2 DEF TypeOK
<1>5. \A u \in TaskId : u # t => tasks'[u] = tasks[u]
  BY <1>1 DEF TypeOK
<1> QED BY <1>1, <1>3, <1>4, <1>5

\* Steps that neither assign a set nor touch the lock.
LEMMA StoreKept ==
    ASSUME IInv, UNCHANGED storeVars,
           \A t \in TaskId : /\ AtStep(t, "second")' <=> AtStep(t, "second")
                             /\ AtStep(t, "third")' <=> AtStep(t, "third")
                             /\ AtStep(t, "second") \/ AtStep(t, "third") =>
                                    tasks'[t].files = tasks[t].files
    PROVE  LockHolder' /\ Assigned' /\ SharedIsSnapshot'
<1>1. s_CriticalSection' = s_CriticalSection /\ shared' = shared /\ published' = published
  BY DEF storeVars
<1>2. LockHolder'
  BY <1>1 DEF IInv, LockHolder
<1>3. Assigned'
  BY <1>1 DEF IInv, Assigned
<1>4. SharedIsSnapshot'
  BY <1>1 DEF IInv, SharedIsSnapshot
<1> QED BY <1>2, <1>3, <1>4

\* Steps that change the tasks' work only: nobody starts or stops a session.
LEMMA SessionKept ==
    ASSUME IInv,
           UNCHANGED <<m_SharingContext, listener, m_IsSharing, m_CanChangeShareStatus>>,
           \A t \in TaskId : /\ Switches(t)' <=> Switches(t)
                             /\ Switches(t) =>
                                   /\ tasks'[t].kind = tasks[t].kind
                                   /\ \/ tasks'[t].step = tasks[t].step
                                      \/ /\ tasks[t].step \notin {"stop", "join", "finished"}
                                         /\ tasks'[t].step \notin {"stop", "join", "finished"}
    PROVE  OneSwitch' /\ Session'
<1>1. OneSwitch'
  BY DEF IInv, OneSwitch
<1>2. \A t \in TaskId, s \in {"stop", "join", "finished"} :
          Switches(t) => (AtStep(t, s)' <=> AtStep(t, s))
  BY DEF AtStep, Switches
<1>3. Listening' <=> Listening
  BY DEF Listening
<1>4. Session'
  BY <1>2, <1>3 DEF IInv, Session
<1> QED BY <1>1, <1>4

-----------------------------------------------------------------------------
(* Steps of the UI thread *)

LEMMA InitInvariant == Init => IInv
<1> SUFFICES ASSUME Init
             PROVE  IInv
  OBVIOUS
<1>1. TypeOK
  <2>1. marks \in ConsistentMarks
    BY DEF Init, ConsistentMarks, CheckMark
  <2>2. shared \in SharedSets /\ published \in SharedSets
    BY DEF Init, NothingShared, SharedSets
  <2> QED BY <2>1, <2>2 DEF Init, TypeOK, ListenerState, ConnectionState, Idle, NoAnswer
<1>2. TaskSteps /\ LockHolder /\ OneSwitch
  BY NoneAssumption DEF Init, TaskSteps, LockHolder, OneSwitch, AtStep, Switches
<1>3. Assigned
  BY DEF Init, Assigned, AtStep
<1>4. SharedIsSnapshot
  BY NothingIsSnapshot DEF Init, SharedIsSnapshot
<1>5. Session
  BY DEF Init, Session, Switches
<1> QED BY <1>1, <1>2, <1>3, <1>4, <1>5 DEF IInv

LEMMA LoadVolumesStep == ASSUME IInv, LoadVolumes PROVE IInv'
<1>1. /\ volumesLoaded' = TRUE
      /\ UNCHANGED <<marks, m_IsSharing, m_CanChangeShareStatus, crashed>>
      /\ UNCHANGED <<m_SharingContext, tasks, storeVars, listener, connection>>
  BY DEF LoadVolumes
<1>2. TypeOK'
  BY <1>1 DEF IInv, TypeOK, storeVars
<1>3. TaskSteps'
  BY <1>1 DEF IInv, TaskSteps
<1>4. LockHolder' /\ Assigned' /\ SharedIsSnapshot'
  BY <1>1, StoreKept DEF AtStep
<1>5. OneSwitch' /\ Session'
  BY <1>1, SessionKept DEF Switches
<1> QED BY <1>2, <1>3, <1>4, <1>5 DEF IInv

LEMMA ClickCheckBoxStep == ASSUME IInv, ClickCheckBox PROVE IInv'
<1>1. /\ marks' \in ConsistentMarks
      /\ UNCHANGED <<volumesLoaded, m_IsSharing, m_CanChangeShareStatus, crashed>>
      /\ UNCHANGED <<m_SharingContext, storeVars, listener, connection>>
  BY DEF ClickCheckBox
<1>2. CASE UNCHANGED tasks
  <2>1. TypeOK'
    BY <1>1, <1>2 DEF IInv, TypeOK, storeVars
  <2>2. TaskSteps'
    BY <1>2 DEF IInv, TaskSteps
  <2>3. LockHolder' /\ Assigned' /\ SharedIsSnapshot'
    BY <1>1, <1>2, StoreKept DEF AtStep
  <2>4. OneSwitch' /\ Session'
    BY <1>1, <1>2, SessionKept DEF Switches
  <2> QED BY <2>1, <2>2, <2>3, <2>4 DEF IInv
<1>3. CASE RunTask("set", CollectSharedFiles(marks'))
  <2>1. CollectSharedFiles(marks') \in SharedSets /\ CollectSharedFiles(marks') \in Snapshots
    BY <1>1, CollectedTypes DEF Snapshots
  <2>2. PICK t \in TaskId :
          /\ tasks[t] = None
          /\ tasks' \in [TaskId -> Task \cup {None}]
          /\ tasks'[t] # None
          /\ tasks'[t].kind = "set"
          /\ tasks'[t].files = CollectSharedFiles(marks')
          /\ tasks'[t].step = "lock"
          /\ \A u \in TaskId : u # t => tasks'[u] = tasks[u]
    BY <1>3, <2>1, RunTaskFacts DEF IInv
  <2>3. TypeOK'
    BY <1>1, <2>2 DEF IInv, TypeOK, storeVars
  <2>4. TaskSteps'
    BY <2>1, <2>2 DEF IInv, TaskSteps
  <2>5. LockHolder' /\ Assigned' /\ SharedIsSnapshot'
    BY <1>1, <2>2, StoreKept DEF AtStep
  <2>6. OneSwitch' /\ Session'
    BY <1>1, <2>2, SessionKept DEF Switches
  <2> QED BY <2>3, <2>4, <2>5, <2>6 DEF IInv
<1> QED BY <1>2, <1>3 DEF ClickCheckBox

LEMMA StartSharingStep == ASSUME IInv, StartSharing PROVE IInv'
<1>1. /\ ~m_IsSharing /\ m_CanChangeShareStatus /\ m_CanChangeShareStatus' = FALSE
      /\ UNCHANGED <<marks, volumesLoaded, m_IsSharing>>
      /\ UNCHANGED <<m_SharingContext, storeVars, listener, connection>>
  BY DEF StartSharing
<1>2. \A t \in TaskId : ~Switches(t)
  BY <1>1 DEF IInv, OneSwitch
<1>3. CASE crashed' = TRUE /\ UNCHANGED tasks
  <2>1. TypeOK'
    BY <1>1, <1>3 DEF IInv, TypeOK, storeVars
  <2>2. TaskSteps'
    BY <1>3 DEF IInv, TaskSteps
  <2>3. LockHolder' /\ Assigned' /\ SharedIsSnapshot'
    BY <1>1, <1>3, StoreKept DEF AtStep
  <2>4. OneSwitch' /\ Session'
    BY <1>1, <1>2, <1>3 DEF IInv, OneSwitch, Session, Switches, Listening
  <2> QED BY <2>1, <2>2, <2>3, <2>4 DEF IInv
<1>4. CASE RunTask("start", CollectSharedFiles(marks)) /\ UNCHANGED crashed
  <2>1. CollectSharedFiles(marks) \in SharedSets /\ CollectSharedFiles(marks) \in Snapshots
    BY CollectedTypes DEF Snapshots, IInv, TypeOK
  <2>2. PICK t \in TaskId :
          /\ tasks[t] = None
          /\ tasks' \in [TaskId -> Task \cup {None}]
          /\ tasks'[t] # None
          /\ tasks'[t].kind = "start"
          /\ tasks'[t].files = CollectSharedFiles(marks)
          /\ tasks'[t].step = "lock"
          /\ \A u \in TaskId : u # t => tasks'[u] = tasks[u]
    BY <1>4, <2>1, RunTaskFacts DEF IInv
  <2>3. TypeOK'
    BY <1>1, <1>4, <2>2 DEF IInv, TypeOK, storeVars
  <2>4. TaskSteps'
    BY <2>1, <2>2 DEF IInv, TaskSteps
  <2>5. LockHolder' /\ Assigned' /\ SharedIsSnapshot'
    BY <1>1, <2>2, StoreKept DEF AtStep
  <2>6. \A u \in TaskId : Switches(u)' <=> u = t
    BY <1>2, <2>2 DEF Switches
  <2>7. OneSwitch'
    BY <1>1, <2>2, <2>6 DEF OneSwitch
  <2>8. Session'
    BY <1>1, <1>2, <2>2, <2>6 DEF IInv, Session, Listening, AtStep
  <2> QED BY <2>3, <2>4, <2>5, <2>7, <2>8 DEF IInv
<1> QED BY <1>3, <1>4 DEF StartSharing

LEMMA StopSharingStep == ASSUME IInv, StopSharing PROVE IInv'
<1>1. /\ m_IsSharing /\ m_CanChangeShareStatus /\ m_CanChangeShareStatus' = FALSE
      /\ UNCHANGED <<marks, volumesLoaded, m_IsSharing, crashed>>
      /\ UNCHANGED <<m_SharingContext, storeVars, listener, connection>>
      /\ RunTask("stop", NothingShared)
  BY DEF StopSharing
<1>2. \A t \in TaskId : ~Switches(t)
  BY <1>1 DEF IInv, OneSwitch
<1>3. Listening
  BY <1>1, <1>2 DEF IInv, Session
<1>4. NothingShared \in SharedSets
  BY NothingIsSnapshot, SnapshotTypes
<1>5. PICK t \in TaskId :
          /\ tasks[t] = None
          /\ tasks' \in [TaskId -> Task \cup {None}]
          /\ tasks'[t] # None
          /\ tasks'[t].kind = "stop"
          /\ tasks'[t].step = "stop"
          /\ \A u \in TaskId : u # t => tasks'[u] = tasks[u]
  BY <1>1, <1>4, RunTaskFacts DEF IInv
<1>6. TypeOK'
  BY <1>1, <1>5 DEF IInv, TypeOK, storeVars
<1>7. TaskSteps'
  BY <1>5 DEF IInv, TaskSteps
<1>8. LockHolder' /\ Assigned' /\ SharedIsSnapshot'
  BY <1>1, <1>5, StoreKept DEF AtStep
<1>9. \A u \in TaskId : Switches(u)' <=> u = t
  BY <1>2, <1>5 DEF Switches
<1>10. OneSwitch'
  BY <1>1, <1>5, <1>9 DEF OneSwitch
<1>11. Session'
  BY <1>1, <1>2, <1>3, <1>5, <1>9 DEF IInv, Session, Listening, AtStep
<1> QED BY <1>6, <1>7, <1>8, <1>10, <1>11 DEF IInv

\* A task that ends takes its part in starting or stopping with it.
LEMMA FinishTaskStep ==
    ASSUME IInv, NEW t \in TaskId, FinishTask(t)
    PROVE  IInv'
<1>1. /\ tasks[t] # None /\ tasks[t].step = "finished"
      /\ tasks' = [tasks EXCEPT ![t] = None]
      /\ UNCHANGED <<marks, volumesLoaded, crashed>>
      /\ UNCHANGED <<m_SharingContext, storeVars, listener, connection>>
  BY DEF FinishTask
<1>2. /\ tasks' \in [TaskId -> Task \cup {None}]
      /\ tasks'[t] = None
      /\ \A u \in TaskId : u # t => tasks'[u] = tasks[u]
  BY <1>1 DEF IInv, TypeOK
<1>3. m_IsSharing' \in BOOLEAN /\ m_CanChangeShareStatus' \in BOOLEAN
  BY DEF FinishTask, IInv, TypeOK
<1>4. TypeOK'
  BY <1>1, <1>2, <1>3 DEF IInv, TypeOK, storeVars
<1>5. TaskSteps'
  BY <1>2 DEF IInv, TaskSteps
<1>6. LockHolder' /\ Assigned' /\ SharedIsSnapshot'
  BY <1>1, <1>2, StoreKept DEF AtStep
<1>7. tasks[t].kind \in {"set", "start", "stop"}
  BY <1>1 DEF IInv, TypeOK, Task
<1>8. CASE tasks[t].kind = "set"
  <2>1. UNCHANGED <<m_IsSharing, m_CanChangeShareStatus>>
    BY <1>8 DEF FinishTask
  <2> QED BY <1>1, <1>2, <1>4, <1>5, <1>6, <1>8, <2>1, SessionKept DEF IInv, Switches
<1>9. CASE tasks[t].kind = "start"
  <2>1. m_IsSharing' = TRUE
    BY <1>9 DEF FinishTask
  <2>2. \A u \in TaskId : ~Switches(u)'
    BY <1>1, <1>2, <1>9 DEF IInv, OneSwitch, Switches
  <2>3. Listening
    BY <1>1, <1>9 DEF IInv, Session, Switches, AtStep
  <2>4. OneSwitch' /\ Session'
    BY <1>1, <2>1, <2>2, <2>3 DEF IInv, OneSwitch, Session, Listening
  <2> QED BY <1>4, <1>5, <1>6, <2>4 DEF IInv
<1>10. CASE tasks[t].kind = "stop"
  <2>1. m_IsSharing' = FALSE
    BY <1>10 DEF FinishTask
  <2>2. \A u \in TaskId : ~Switches(u)'
    BY <1>1, <1>2, <1>10 DEF IInv, OneSwitch, Switches
  <2>3. m_SharingContext = None
    BY <1>1, <1>10 DEF IInv, Session, Switches, AtStep
  <2>4. OneSwitch' /\ Session'
    BY <1>1, <2>1, <2>2, <2>3 DEF IInv, OneSwitch, Session, Listening
  <2> QED BY <1>4, <1>5, <1>6, <2>4 DEF IInv
<1> QED BY <1>7, <1>8, <1>9, <1>10

-----------------------------------------------------------------------------
(* Steps of the tasks *)

\* Assigning one of the three sets keeps the type of the sharing state.
LEMMA AssignFacts ==
    ASSUME TypeOK, NEW t \in TaskId, tasks[t] # None, NEW set,
           set \in {"fullySharedFolders", "partiallySharedFolders", "files"},
           AssignSet(t, set)
    PROVE  /\ shared' \in SharedSets
           /\ shared'[set] = tasks[t].files[set]
           /\ \A other \in {"fullySharedFolders", "partiallySharedFolders", "files"} :
                 other # set => shared'[other] = shared[other]
<1>1. tasks[t].files \in SharedSets
  BY DEF TypeOK, Task
<1>2. shared \in SharedSets
  BY DEF TypeOK
<1> QED BY <1>1, <1>2 DEF AssignSet, SharedSets

\* Only one task is between its first assignment and its last.
LEMMA LockIsExclusive ==
    ASSUME IInv, NEW t \in TaskId, NEW u \in TaskId,
           AtStep(t, "second") \/ AtStep(t, "third"),
           AtStep(u, "second") \/ AtStep(u, "third")
    PROVE  t = u
BY DEF IInv, LockHolder

LEMMA EnterCriticalSectionStep ==
    ASSUME IInv, NEW t \in TaskId, EnterCriticalSection(t)
    PROVE  IInv'
<1>1. /\ tasks[t] # None /\ tasks[t].step = "lock"
      /\ s_CriticalSection = None /\ s_CriticalSection' = t
      /\ AssignSet(t, "fullySharedFolders")
      /\ Goto(t, "second")
      /\ UNCHANGED <<uiVars, published, m_SharingContext, listener, connection, crashed>>
  BY DEF EnterCriticalSection, AtStep
<1>2. /\ tasks' \in [TaskId -> Task \cup {None}]
      /\ tasks'[t] # None
      /\ tasks'[t].kind = tasks[t].kind
      /\ tasks'[t].files = tasks[t].files
      /\ tasks'[t].step = "second"
      /\ \A u \in TaskId : u # t => tasks'[u] = tasks[u]
  BY <1>1, GotoFacts DEF IInv, Steps
<1>3. /\ shared' \in SharedSets
      /\ shared'.fullySharedFolders = tasks[t].files.fullySharedFolders
  BY <1>1, AssignFacts DEF IInv
<1>4. TypeOK'
  BY <1>1, <1>2, <1>3 DEF IInv, TypeOK, uiVars
<1>5. tasks[t].kind \in {"set", "start", "stop"}
  BY <1>1 DEF IInv, TypeOK, Task
<1>6. TaskSteps'
  BY <1>1, <1>2, <1>5 DEF IInv, TaskSteps
<1>7. \A u \in TaskId : ~AtStep(u, "second") /\ ~AtStep(u, "third")
  BY <1>1, NoneAssumption DEF IInv, LockHolder
<1>8. LockHolder'
  BY <1>1, <1>2, <1>7 DEF LockHolder, AtStep
<1>9. Assigned'
  BY <1>1, <1>2, <1>3, <1>7, NoneAssumption DEF Assigned, AtStep
<1>10. SharedIsSnapshot'
  BY <1>1 DEF IInv, SharedIsSnapshot
<1>11. OneSwitch' /\ Session'
  BY <1>1, <1>2, SessionKept DEF Switches, uiVars
<1> QED BY <1>4, <1>6, <1>8, <1>9, <1>10, <1>11 DEF IInv

LEMMA AssignPartiallySharedFoldersStep ==
    ASSUME IInv, NEW t \in TaskId, AssignPartiallySharedFolders(t)
    PROVE  IInv'
<1>1. /\ tasks[t] # None /\ tasks[t].step = "second" /\ AtStep(t, "second")
      /\ AssignSet(t, "partiallySharedFolders")
      /\ Goto(t, "third")
      /\ UNCHANGED <<uiVars, s_CriticalSection, published>>
      /\ UNCHANGED <<m_SharingContext, listener, connection, crashed>>
  BY DEF AssignPartiallySharedFolders, AtStep
<1>2. /\ tasks' \in [TaskId -> Task \cup {None}]
      /\ tasks'[t] # None
      /\ tasks'[t].kind = tasks[t].kind
      /\ tasks'[t].files = tasks[t].files
      /\ tasks'[t].step = "third"
      /\ \A u \in TaskId : u # t => tasks'[u] = tasks[u]
  BY <1>1, GotoFacts DEF IInv, Steps
<1>3. /\ shared' \in SharedSets
      /\ shared'.partiallySharedFolders = tasks[t].files.partiallySharedFolders
      /\ shared'.fullySharedFolders = shared.fullySharedFolders
  BY <1>1, AssignFacts DEF IInv
<1>4. TypeOK'
  BY <1>1, <1>2, <1>3 DEF IInv, TypeOK, uiVars
<1>5. TaskSteps'
  BY <1>1, <1>2 DEF IInv, TaskSteps
<1>6. \A u \in TaskId : AtStep(u, "second") \/ AtStep(u, "third") => u = t
  BY <1>1, LockIsExclusive
<1>7. LockHolder'
  BY <1>1, <1>2, <1>6 DEF IInv, LockHolder, AtStep
<1>8. s_CriticalSection = t /\ t # None
  BY <1>1, NoneAssumption DEF IInv, LockHolder
<1>9. shared.fullySharedFolders = tasks[t].files.fullySharedFolders
  BY <1>1 DEF IInv, Assigned
<1>10. Assigned'
  BY <1>1, <1>2, <1>3, <1>6, <1>8, <1>9 DEF Assigned, AtStep
<1>11. SharedIsSnapshot'
  BY <1>1 DEF IInv, SharedIsSnapshot
<1>12. OneSwitch' /\ Session'
  BY <1>1, <1>2, SessionKept DEF Switches, uiVars
<1> QED BY <1>4, <1>5, <1>7, <1>10, <1>11, <1>12 DEF IInv

\* With the last assignment the three sets are those of the task, a snapshot.
LEMMA LeaveCriticalSectionStep ==
    ASSUME IInv, NEW t \in TaskId, LeaveCriticalSection(t)
    PROVE  IInv'
<1> DEFINE next == IF tasks[t].kind = "start" THEN "listen" ELSE "finished"
<1>1. /\ tasks[t] # None /\ tasks[t].step = "third" /\ AtStep(t, "third")
      /\ AssignSet(t, "files")
      /\ s_CriticalSection' = None
      /\ published' = shared'
      /\ Goto(t, next)
      /\ UNCHANGED <<uiVars, m_SharingContext, listener, crashed>>
  BY DEF LeaveCriticalSection, AtStep
<1>2. /\ tasks' \in [TaskId -> Task \cup {None}]
      /\ tasks'[t] # None
      /\ tasks'[t].kind = tasks[t].kind
      /\ tasks'[t].files = tasks[t].files
      /\ tasks'[t].step = next
      /\ \A u \in TaskId : u # t => tasks'[u] = tasks[u]
  BY <1>1, GotoFacts DEF IInv, Steps
<1>3. /\ shared' \in SharedSets
      /\ shared'.files = tasks[t].files.files
      /\ shared'.fullySharedFolders = shared.fullySharedFolders
      /\ shared'.partiallySharedFolders = shared.partiallySharedFolders
  BY <1>1, AssignFacts DEF IInv
<1>4. connection' \in [Connection -> ConnectionState]
  <2>1. ASSUME NEW c \in Connection
        PROVE  [connection[c] EXCEPT !.during = @ \cup {shared'}] \in ConnectionState
    <3>1. connection[c] \in ConnectionState
      BY DEF IInv, TypeOK
    <3> QED BY <1>3, <3>1 DEF ConnectionState
  <2>2. \A c \in Connection : connection[c] \in ConnectionState
    BY DEF IInv, TypeOK
  <2> QED BY <2>1, <2>2 DEF LeaveCriticalSection
<1>5. TypeOK'
  BY <1>1, <1>2, <1>3, <1>4 DEF IInv, TypeOK, uiVars
<1>6. tasks[t].kind \in {"set", "start"}
  BY <1>1 DEF IInv, TypeOK, TaskSteps, Task
<1>7. TaskSteps'
  BY <1>1, <1>2, <1>6 DEF IInv, TaskSteps
<1>8. \A u \in TaskId : AtStep(u, "second") \/ AtStep(u, "third") => u = t
  BY <1>1, LockIsExclusive
<1>9. \A u \in TaskId : ~AtStep(u, "second")' /\ ~AtStep(u, "third")'
  BY <1>2, <1>8 DEF AtStep
<1>10. LockHolder'
  BY <1>1, <1>9, NoneAssumption DEF LockHolder
<1>11. Assigned'
  BY <1>1, <1>9 DEF Assigned
<1>12. SharedIsSnapshot'
  <2>1. tasks[t].files \in Snapshots /\ tasks[t].files \in SharedSets
    BY <1>1, <1>6 DEF IInv, TaskSteps, TypeOK, Task
  <2>2. shared' = tasks[t].files
    BY <1>1, <1>3, <2>1 DEF IInv, Assigned, SharedSets
  <2> QED BY <1>1, <2>1, <2>2 DEF SharedIsSnapshot, Snapshots
<1>13. OneSwitch'
  BY <1>1, <1>2 DEF IInv, OneSwitch, Switches, uiVars
<1>14. Session'
  <2>1. \A u \in TaskId : Switches(u)' <=> Switches(u)
    BY <1>1, <1>2 DEF Switches
  <2>2. \A u \in TaskId, s \in {"stop", "join", "finished"} :
            Switches(u) => (AtStep(u, s)' <=> AtStep(u, s))
    BY <1>1, <1>2, <1>6 DEF Switches, AtStep
  <2>3. UNCHANGED <<m_IsSharing, m_SharingContext, listener>>
    BY <1>1 DEF uiVars
  <2>4. \A u \in TaskId : Switches(u) => tasks'[u].kind = tasks[u].kind
    BY <1>2
  <2> QED BY <2>1, <2>2, <2>3, <2>4 DEF IInv, Session, Listening
<1> QED BY <1>5, <1>7, <1>10, <1>11, <1>12, <1>13, <1>14 DEF IInv

\* A step of the task that starts or stops the session, the only such task.
LEMMA SwitchStep ==
    ASSUME IInv, NEW t \in TaskId, Switches(t), NEW step \in Steps, Goto(t, step),
           tasks[t].step \notin {"second", "third"}, step \notin {"second", "third"},
           UNCHANGED <<uiVars, storeVars, connection, crashed>>,
           \/ step \in {"join", "finished"} /\ tasks[t].kind = "stop"
           \/ step = "finished" /\ tasks[t].kind = "start",
           m_SharingContext' \in ListenerId \cup {None},
           listener' \in [ListenerId -> ListenerState],
           Session'
    PROVE  IInv'
<1>1. tasks[t] # None
  BY DEF Switches
<1>2. /\ tasks' \in [TaskId -> Task \cup {None}]
      /\ tasks'[t] # None
      /\ tasks'[t].kind = tasks[t].kind
      /\ tasks'[t].files = tasks[t].files
      /\ tasks'[t].step = step
      /\ \A u \in TaskId : u # t => tasks'[u] = tasks[u]
  BY <1>1, GotoFacts DEF IInv
<1>3. TypeOK'
  BY <1>2 DEF IInv, TypeOK, uiVars, storeVars
<1>4. TaskSteps'
  BY <1>1, <1>2 DEF IInv, TaskSteps
<1>5. LockHolder' /\ Assigned' /\ SharedIsSnapshot'
  BY <1>1, <1>2, StoreKept DEF AtStep
<1>6. OneSwitch'
  BY <1>1, <1>2 DEF IInv, OneSwitch, Switches, uiVars
<1> QED BY <1>3, <1>4, <1>5, <1>6 DEF IInv

LEMMA StartListenerStep ==
    ASSUME IInv, NEW t \in TaskId, StartListener(t)
    PROVE  IInv'
<1>1. PICK l \in ListenerId :
          /\ tasks[t] # None /\ tasks[t].step = "listen"
          /\ listener[l].thread = "none"
          /\ listener' = [listener EXCEPT ![l] = [thread |-> "bind", m_Running |-> TRUE]]
          /\ m_SharingContext' = l
          /\ Goto(t, "finished")
          /\ UNCHANGED <<uiVars, storeVars, connection, crashed>>
  BY DEF StartListener, AtStep
<1>2. tasks[t].kind = "start"
  BY <1>1 DEF IInv, TypeOK, TaskSteps, Task
<1>3. Switches(t)
  BY <1>1, <1>2 DEF Switches
<1>4. /\ tasks'[t] # None
      /\ tasks'[t].kind = "start"
      /\ tasks'[t].step = "finished"
      /\ \A u \in TaskId : u # t => tasks'[u] = tasks[u]
  BY <1>1, <1>2, GotoFacts DEF IInv, Steps
<1>5. \A u \in TaskId : Switches(u) => u = t
  BY <1>3 DEF IInv, OneSwitch
<1>6. ~m_IsSharing
  BY <1>2, <1>3 DEF IInv, OneSwitch, TypeOK
<1>7. m_SharingContext = None
  BY <1>1, <1>5, <1>6 DEF IInv, Session, AtStep
<1>8. \A k \in ListenerId : listener[k].thread = "none"
  BY <1>7, NoneAssumption DEF IInv, Session
<1>9. /\ listener' \in [ListenerId -> ListenerState]
      /\ listener'[l] = [thread |-> "bind", m_Running |-> TRUE]
      /\ \A k \in ListenerId : k # l => listener'[k] = listener[k]
  BY <1>1 DEF IInv, TypeOK, ListenerState
<1>10. Listening'
  BY <1>1, <1>9, NoneAssumption DEF Listening
<1>11. \A u \in TaskId : Switches(u)' <=> u = t
  BY <1>4, <1>5 DEF Switches
<1>12. Session'
  <2>1. \A k \in ListenerId : listener'[k].thread # "none" => m_SharingContext' = k
    BY <1>1, <1>8, <1>9
  <2>2. m_IsSharing' = m_IsSharing
    BY <1>1 DEF uiVars
  <2> QED BY <1>4, <1>6, <1>10, <1>11, <2>1, <2>2 DEF Session, AtStep
<1> QED BY <1>1, <1>2, <1>3, <1>9, <1>12, SwitchStep DEF Steps

LEMMA StopListenerStep ==
    ASSUME IInv, NEW t \in TaskId, StopListener(t)
    PROVE  IInv'
<1>1. /\ tasks[t] # None /\ tasks[t].step = "stop"
      /\ listener' = [listener EXCEPT ![m_SharingContext].m_Running = FALSE]
      /\ Goto(t, "join")
      /\ m_SharingContext' = m_SharingContext
      /\ UNCHANGED <<uiVars, storeVars, connection, crashed>>
  BY DEF StopListener, AtStep
<1>2. tasks[t].kind = "stop"
  BY <1>1 DEF IInv, TypeOK, TaskSteps, Task
<1>3. Switches(t)
  BY <1>1, <1>2 DEF Switches
<1>4. /\ tasks'[t] # None
      /\ tasks'[t].kind = "stop"
      /\ tasks'[t].step = "join"
      /\ \A u \in TaskId : u # t => tasks'[u] = tasks[u]
  BY <1>1, <1>2, GotoFacts DEF IInv, Steps
<1>5. \A u \in TaskId : Switches(u) => u = t
  BY <1>3 DEF IInv, OneSwitch
<1>6. m_IsSharing
  BY <1>2, <1>3 DEF IInv, OneSwitch, TypeOK
<1>7. m_SharingContext # None
  BY <1>1, <1>3 DEF IInv, Session, Listening, AtStep
<1>8. /\ listener' \in [ListenerId -> ListenerState]
      /\ \A k \in ListenerId : listener'[k].thread = listener[k].thread
  <2> PICK l \in ListenerId : l = m_SharingContext
    BY <1>7 DEF IInv, TypeOK
  <2> DEFINE stopped == [listener[l] EXCEPT !.m_Running = FALSE]
  <2>1. /\ stopped \in ListenerState
        /\ stopped.thread = listener[l].thread
    BY DEF IInv, TypeOK, ListenerState
  <2>2. listener' = [listener EXCEPT ![l] = stopped]
    BY <1>1
  <2> HIDE DEF stopped
  <2> QED BY <2>1, <2>2 DEF IInv, TypeOK
<1>9. \A u \in TaskId : Switches(u)' <=> u = t
  BY <1>4, <1>5 DEF Switches
<1>10. Session'
  <2>1. \A k \in ListenerId : listener'[k].thread # "none" => m_SharingContext' = k
    BY <1>1, <1>8 DEF IInv, Session
  <2>2. m_IsSharing' = m_IsSharing
    BY <1>1 DEF uiVars
  <2> QED BY <1>1, <1>4, <1>6, <1>7, <1>9, <2>1, <2>2 DEF Session, AtStep
<1>11. m_SharingContext' \in ListenerId \cup {None}
  BY <1>1 DEF IInv, TypeOK
<1>12. /\ "join" \in Steps /\ "join" \notin {"second", "third"}
       /\ "join" \in {"join", "finished"} /\ tasks[t].kind = "stop"
       /\ tasks[t].step \notin {"second", "third"}
  BY <1>1, <1>2 DEF Steps
<1>13. UNCHANGED <<uiVars, storeVars, connection, crashed>> /\ Goto(t, "join")
  BY <1>1
<1> QED BY <1>3, <1>8, <1>10, <1>11, <1>12, <1>13, SwitchStep

LEMMA JoinListenerStep ==
    ASSUME IInv, NEW t \in TaskId, JoinListener(t)
    PROVE  IInv'
<1>1. /\ tasks[t] # None /\ tasks[t].step = "join"
      /\ listener' = [listener EXCEPT ![m_SharingContext].thread = "none"]
      /\ Goto(t, "finished")
      /\ m_SharingContext' = None
      /\ UNCHANGED <<uiVars, storeVars, connection, crashed>>
  BY DEF JoinListener, AtStep
<1>2. tasks[t].kind = "stop"
  BY <1>1 DEF IInv, TypeOK, TaskSteps, Task
<1>3. Switches(t)
  BY <1>1, <1>2 DEF Switches
<1>4. /\ tasks'[t] # None
      /\ tasks'[t].kind = "stop"
      /\ tasks'[t].step = "finished"
      /\ \A u \in TaskId : u # t => tasks'[u] = tasks[u]
  BY <1>1, <1>2, GotoFacts DEF IInv, Steps
<1>5. \A u \in TaskId : Switches(u) => u = t
  BY <1>3 DEF IInv, OneSwitch
<1>6. m_IsSharing
  BY <1>2, <1>3 DEF IInv, OneSwitch, TypeOK
<1>7. m_SharingContext \in ListenerId
  BY <1>1, <1>3 DEF IInv, Session, TypeOK, AtStep
<1>8. /\ listener' \in [ListenerId -> ListenerState]
      /\ listener'[m_SharingContext].thread = "none"
      /\ \A k \in ListenerId : k # m_SharingContext => listener'[k] = listener[k]
  BY <1>1, <1>7 DEF IInv, TypeOK, ListenerState
<1>9. \A u \in TaskId : Switches(u)' <=> u = t
  BY <1>4, <1>5 DEF Switches
<1>10. Session'
  <2>1. \A k \in ListenerId : listener'[k].thread = "none"
    BY <1>8 DEF IInv, Session
  <2>2. m_IsSharing' = m_IsSharing
    BY <1>1 DEF uiVars
  <2> QED BY <1>1, <1>4, <1>6, <1>9, <2>1, <2>2 DEF Session, AtStep
<1>11. /\ "finished" \in Steps /\ "finished" \notin {"second", "third"}
       /\ "finished" \in {"join", "finished"} /\ tasks[t].kind = "stop"
       /\ tasks[t].step \notin {"second", "third"}
  BY <1>1, <1>2 DEF Steps
<1>12. UNCHANGED <<uiVars, storeVars, connection, crashed>> /\ Goto(t, "finished")
  BY <1>1
<1>13. m_SharingContext' \in ListenerId \cup {None}
  BY <1>1
<1> QED BY <1>3, <1>8, <1>10, <1>11, <1>12, <1>13, SwitchStep

-----------------------------------------------------------------------------
(* Steps of the listener's thread *)

\* A step that leaves the tasks and the lock alone, keeps m_Running, and ends a
\* listener's thread only after it was stopped.
LEMMA ListenerKept ==
    ASSUME IInv, UNCHANGED <<uiVars, m_SharingContext, tasks, storeVars>>,
           crashed' \in BOOLEAN,
           connection' \in [Connection -> ConnectionState],
           listener' \in [ListenerId -> ListenerState],
           \A l \in ListenerId :
               /\ listener[l].thread = "none" => listener'[l].thread = "none"
               /\ listener'[l].m_Running = listener[l].m_Running
               /\ listener[l].m_Running /\ listener[l].thread \in {"bind", "loop", "accept"} =>
                      listener'[l].thread \in {"bind", "loop", "accept"}
    PROVE  IInv'
<1>1. TypeOK'
  BY DEF IInv, TypeOK, uiVars, storeVars
<1>2. TaskSteps'
  BY DEF IInv, TaskSteps
<1>3. LockHolder' /\ Assigned' /\ SharedIsSnapshot'
  BY StoreKept DEF AtStep
<1>4. OneSwitch'
  BY DEF IInv, OneSwitch, Switches, uiVars
<1>5. Listening => Listening'
  <2> SUFFICES ASSUME Listening
               PROVE  Listening'
    OBVIOUS
  <2>1. m_SharingContext \in ListenerId
    BY DEF Listening, IInv, TypeOK
  <2> QED BY <2>1 DEF Listening
<1>6. Session'
  <2>1. \A l \in ListenerId : listener'[l].thread # "none" => m_SharingContext' = l
    BY DEF IInv, Session
  <2>2. /\ m_IsSharing' = m_IsSharing /\ tasks' = tasks
        /\ m_SharingContext' = m_SharingContext
    BY DEF uiVars
  <2> QED BY <1>5, <2>1, <2>2 DEF IInv, Session, AtStep, Switches
<1> QED BY <1>1, <1>2, <1>3, <1>4, <1>6 DEF IInv

\* A listener's thread that moves on keeps m_Running.
LEMMA SetThreadFacts ==
    ASSUME TypeOK, NEW l \in ListenerId,
           NEW state \in {"none", "bind", "loop", "accept", "ended"},
           SetThread(l, state)
    PROVE  /\ listener' \in [ListenerId -> ListenerState]
           /\ listener'[l].thread = state
           /\ listener'[l].m_Running = listener[l].m_Running
           /\ \A k \in ListenerId : k # l => listener'[k] = listener[k]
<1> DEFINE new == [listener[l] EXCEPT !.thread = state]
<1>1. /\ new \in ListenerState
      /\ new.thread = state /\ new.m_Running = listener[l].m_Running
  BY DEF TypeOK, ListenerState
<1>2. listener' = [listener EXCEPT ![l] = new]
  BY DEF SetThread
<1> HIDE DEF new
<1> QED BY <1>1, <1>2 DEF TypeOK

LEMMA BindListenerStep ==
    ASSUME IInv, NEW l \in ListenerId, BindListener(l)
    PROVE  IInv'
<1>1. /\ listener[l].thread = "bind"
      /\ UNCHANGED <<uiVars, m_SharingContext, tasks, storeVars, connection>>
  BY DEF BindListener
<1>2. CASE SetThread(l, "loop") /\ UNCHANGED crashed
  <2>1. /\ listener' \in [ListenerId -> ListenerState]
        /\ listener'[l].thread = "loop"
        /\ listener'[l].m_Running = listener[l].m_Running
        /\ \A k \in ListenerId : k # l => listener'[k] = listener[k]
    BY <1>2, SetThreadFacts DEF IInv
  <2>2. crashed' \in BOOLEAN /\ connection' \in [Connection -> ConnectionState]
    BY <1>1, <1>2 DEF IInv, TypeOK
  <2> QED BY <1>1, <2>1, <2>2, ListenerKept
<1>3. CASE crashed' = TRUE /\ UNCHANGED listener
  <2>1. connection' \in [Connection -> ConnectionState]
    BY <1>1 DEF IInv, TypeOK
  <2>2. listener' \in [ListenerId -> ListenerState]
    BY <1>3 DEF IInv, TypeOK
  <2> QED BY <1>1, <1>3, <2>1, <2>2, ListenerKept
<1> QED BY <1>2, <1>3 DEF BindListener

LEMMA TestRunningStep ==
    ASSUME IInv, NEW l \in ListenerId, TestRunning(l)
    PROVE  IInv'
<1> DEFINE next == IF listener[l].m_Running THEN "accept" ELSE "ended"
<1>1. /\ listener[l].thread = "loop"
      /\ SetThread(l, next)
      /\ UNCHANGED <<uiVars, m_SharingContext, tasks, storeVars, crashed>>
  BY DEF TestRunning
<1>2. /\ listener' \in [ListenerId -> ListenerState]
      /\ listener'[l].thread = next
      /\ listener'[l].m_Running = listener[l].m_Running
      /\ \A k \in ListenerId : k # l => listener'[k] = listener[k]
  BY <1>1, SetThreadFacts DEF IInv
<1>3. connection' \in [Connection -> ConnectionState]
  <2>1. \A c \in Connection : connection[c] \in ConnectionState
    BY DEF IInv, TypeOK
  <2>2. ASSUME NEW c \in Connection
        PROVE  [connection[c] EXCEPT !.thread = "none"] \in ConnectionState
    BY <2>1 DEF ConnectionState
  <2>3. CASE listener[l].m_Running
    BY <2>3 DEF TestRunning, IInv, TypeOK
  <2>4. CASE ~listener[l].m_Running
    BY <2>1, <2>2, <2>4 DEF TestRunning
  <2> QED BY <2>3, <2>4
<1>4. crashed' \in BOOLEAN
  BY <1>1 DEF IInv, TypeOK
<1>5. \A k \in ListenerId :
          /\ listener[k].thread = "none" => listener'[k].thread = "none"
          /\ listener'[k].m_Running = listener[k].m_Running
          /\ listener[k].m_Running /\ listener[k].thread \in {"bind", "loop", "accept"} =>
                 listener'[k].thread \in {"bind", "loop", "accept"}
  BY <1>1, <1>2
<1> HIDE DEF next
<1> QED BY <1>1, <1>2, <1>3, <1>4, <1>5, ListenerKept

LEMMA AcceptStep ==
    ASSUME IInv, NEW l \in ListenerId, Accept(l)
    PROVE  IInv'
<1>1. /\ listener[l].thread = "accept"
      /\ SetThread(l, "loop")
      /\ UNCHANGED <<uiVars, m_SharingContext, tasks, storeVars, crashed>>
  BY DEF Accept
<1>2. /\ listener' \in [ListenerId -> ListenerState]
      /\ listener'[l].thread = "loop"
      /\ listener'[l].m_Running = listener[l].m_Running
      /\ \A k \in ListenerId : k # l => listener'[k] = listener[k]
  BY <1>1, SetThreadFacts DEF IInv
<1>3. connection' \in [Connection -> ConnectionState]
  <2>1. CASE UNCHANGED connection
    BY <2>1 DEF IInv, TypeOK
  <2>2. ASSUME NEW c \in Connection, connection' = [connection EXCEPT ![c].thread = "recv"]
        PROVE  connection' \in [Connection -> ConnectionState]
    <3>1. [connection[c] EXCEPT !.thread = "recv"] \in ConnectionState
      BY DEF IInv, TypeOK, ConnectionState
    <3> QED BY <2>2, <3>1 DEF IInv, TypeOK
  <2> QED BY <2>1, <2>2 DEF Accept
<1>4. crashed' \in BOOLEAN
  BY <1>1 DEF IInv, TypeOK
<1> QED BY <1>1, <1>2, <1>3, <1>4, ListenerKept

-----------------------------------------------------------------------------
(* Steps of the connections *)

\* The connections only read what the invariant is about.
LEMMA NativeKept ==
    ASSUME IInv, NativeUnchanged, connection' \in [Connection -> ConnectionState]
    PROVE  IInv'
<1>1. UNCHANGED <<uiVars, m_SharingContext, tasks, storeVars, listener, crashed>>
  BY DEF NativeUnchanged
<1>2. crashed' \in BOOLEAN
  BY <1>1 DEF IInv, TypeOK
<1>3. listener' \in [ListenerId -> ListenerState]
  BY <1>1 DEF IInv, TypeOK
<1> QED BY <1>1, <1>2, <1>3, ListenerKept

\* What is shown of a folder is on disk.
LEMMA ContentsOnDisk == \A s, p : GetFolderContents(s, p) \subseteq Disk
BY DEF GetFolderContents, EnumerateFiles

\* A connection that is set to a state of its type.
LEMMA SetConnectionFacts ==
    ASSUME TypeOK, NEW c \in Connection, NEW state \in ConnectionState,
           SetConnection(c, state)
    PROVE  connection' \in [Connection -> ConnectionState]
BY DEF SetConnection, TypeOK

LEMMA AnswerFacts ==
    ASSUME TypeOK, NEW c \in Connection, NEW kind \in {"volumes", "listing", "file", "error"},
           NEW entries \in SUBSET Disk, Answer(c, kind, entries)
    PROVE  connection' \in [Connection -> ConnectionState]
<1> DEFINE state == [Idle("recv") EXCEPT !.answer = [kind |-> kind, entries |-> entries]]
<1>1. state \in ConnectionState
  BY DEF ConnectionState, Idle, NoAnswer
<1>2. SetConnection(c, state)
  BY DEF Answer
<1> QED BY <1>1, <1>2, SetConnectionFacts

\* A connection whose thread moves on.
LEMMA ThreadFacts ==
    ASSUME TypeOK, NEW c \in Connection, NEW state \in {"backlog", "list", "stream"},
           connection' = [connection EXCEPT ![c].thread = state]
    PROVE  connection' \in [Connection -> ConnectionState]
<1>1. [connection[c] EXCEPT !.thread = state] \in ConnectionState
  BY DEF TypeOK, ConnectionState
<1> QED BY <1>1 DEF TypeOK

LEMMA BrowserSteps ==
    ASSUME IInv, NEW c \in Connection, BrowserStep(c)
    PROVE  IInv'
<1>1. TypeOK
  BY DEF IInv
<1>2. CASE Connect(c)
  BY <1>1, <1>2, ThreadFacts, NativeKept DEF Connect
<1>3. CASE Receive(c)
  <2>1. PICK p \in Requested :
            SetConnection(c, [Idle("request") EXCEPT
                                  !.path = p,
                                  !.volumes = IF p = <<>> THEN Volumes ELSE {},
                                  !.during = {published}])
    BY <1>3 DEF Receive
  <2>2. published \in SharedSets /\ p \in Disk \cup {<<>>}
    BY <1>1, RequestedAssumption DEF TypeOK
  <2>3. [Idle("request") EXCEPT !.path = p,
                                !.volumes = IF p = <<>> THEN Volumes ELSE {},
                                !.during = {published}] \in ConnectionState
    BY <2>2 DEF ConnectionState, Idle, NoAnswer
  <2>4. connection' \in [Connection -> ConnectionState]
    BY <1>1, <2>1, <2>3, SetConnectionFacts
  <2> QED BY <1>3, <2>4, NativeKept DEF Receive
<1>4. CASE Disconnect(c)
  <2>1. Idle("none") \in ConnectionState
    BY DEF ConnectionState, Idle, NoAnswer
  <2>2. connection' \in [Connection -> ConnectionState]
    BY <1>1, <1>4, <2>1, SetConnectionFacts DEF Disconnect
  <2> QED BY <1>4, <2>2, NativeKept DEF Disconnect
<1> QED BY <1>2, <1>3, <1>4 DEF BrowserStep

LEMMA ConnectionSteps ==
    ASSUME IInv, NEW c \in Connection, ConnectionStep(c)
    PROVE  IInv'
<1>1. TypeOK /\ connection[c] \in ConnectionState
  BY DEF IInv, TypeOK
<1>2. CASE LookUpVolume(c)
  <2>1. PICK v \in connection[c].volumes :
            connection' = [connection EXCEPT
                ![c].volumes = @ \ {v},
                ![c].answer.entries = IF IsFolderVisible(shared, v) THEN @ \cup {v} ELSE @]
    BY <1>2 DEF LookUpVolume
  <2> DEFINE entries == IF IsFolderVisible(shared, v)
                        THEN connection[c].answer.entries \cup {v}
                        ELSE connection[c].answer.entries
             answer == [connection[c].answer EXCEPT !.entries = entries]
             state == [connection[c] EXCEPT !.volumes = @ \ {v}, !.answer = answer]
  <2>2. v \in Disk
    BY <1>1 DEF ConnectionState, Volumes
  <2>3. entries \in SUBSET Disk
    BY <1>1, <2>2 DEF ConnectionState
  <2>4. answer \in [kind : {"none", "volumes", "listing", "file", "error"},
                   entries : SUBSET Disk]
    <3> HIDE DEF entries
    <3> QED BY <1>1, <2>3 DEF ConnectionState
  <2>5. state \in ConnectionState
    <3> HIDE DEF answer
    <3> QED BY <1>1, <2>4 DEF ConnectionState
  <2>6. connection' = [connection EXCEPT ![c] = state]
    BY <1>1, <2>1 DEF TypeOK
  <2>7. connection' \in [Connection -> ConnectionState]
    <3> HIDE DEF state
    <3> QED BY <1>1, <2>5, <2>6 DEF TypeOK
  <2> QED BY <1>2, <2>7, NativeKept DEF LookUpVolume
<1>3. CASE ListVolumes(c)
  <2>1. connection[c].answer.entries \in SUBSET Disk
    BY <1>1 DEF ConnectionState
  <2> QED BY <1>1, <1>3, <2>1, AnswerFacts, NativeKept DEF ListVolumes
<1>4. CASE CheckFolderVisible(c)
  <2>1. CASE connection' = [connection EXCEPT ![c].thread = "list"]
    BY <1>1, <1>4, <2>1, ThreadFacts, NativeKept DEF CheckFolderVisible
  <2>2. CASE Answer(c, "error", {})
    BY <1>1, <1>4, <2>2, AnswerFacts, NativeKept DEF CheckFolderVisible
  <2> QED BY <1>4, <2>1, <2>2 DEF CheckFolderVisible
<1>5. CASE ListFolder(c)
  <2>1. Answer(c, "listing", GetFolderContents(shared, connection[c].path))
    BY <1>5 DEF ListFolder
  <2>2. connection' \in [Connection -> ConnectionState]
    BY <1>1, <2>1, ContentsOnDisk, AnswerFacts
  <2> QED BY <1>5, <2>2, NativeKept DEF ListFolder
<1>6. CASE CheckFileShared(c)
  <2>1. CASE connection' = [connection EXCEPT ![c].thread = "stream"]
    BY <1>1, <1>6, <2>1, ThreadFacts, NativeKept DEF CheckFileShared
  <2>2. CASE Answer(c, "error", {})
    BY <1>1, <1>6, <2>2, AnswerFacts, NativeKept DEF CheckFileShared
  <2> QED BY <1>6, <2>1, <2>2 DEF CheckFileShared
<1>7. CASE SendFile(c)
  BY <1>1, <1>7, AnswerFacts, NativeKept DEF SendFile
<1> QED BY <1>2, <1>3, <1>4, <1>5, <1>6, <1>7 DEF ConnectionStep

-----------------------------------------------------------------------------
(* The invariant *)

LEMMA StepInvariant == IInv /\ [Next]_vars => IInv'
<1> SUFFICES ASSUME IInv, [Next]_vars
             PROVE  IInv'
  OBVIOUS
<1>1. CASE UNCHANGED vars
  <2>1. UNCHANGED <<uiVars, m_SharingContext, tasks, storeVars, listener, crashed>>
        /\ connection' = connection
    BY <1>1 DEF vars
  <2>2. connection' \in [Connection -> ConnectionState]
    BY <2>1 DEF IInv, TypeOK
  <2> QED BY <2>1, <2>2, NativeKept DEF NativeUnchanged
<1>2. CASE UserStep
  BY <1>2, ClickCheckBoxStep, StartSharingStep, StopSharingStep DEF UserStep
<1>3. CASE LoadVolumes
  BY <1>3, LoadVolumesStep
<1>4. ASSUME NEW t \in TaskId, TaskStep(t) \/ FinishTask(t)
      PROVE  IInv'
  BY <1>4, FinishTaskStep, EnterCriticalSectionStep, AssignPartiallySharedFoldersStep,
     LeaveCriticalSectionStep, StartListenerStep, StopListenerStep, JoinListenerStep
     DEF TaskStep
<1>5. ASSUME NEW l \in ListenerId, ListenerStep(l)
      PROVE  IInv'
  BY <1>5, BindListenerStep, TestRunningStep, AcceptStep DEF ListenerStep
<1>6. ASSUME NEW c \in Connection, ConnectionStep(c) \/ BrowserStep(c)
      PROVE  IInv'
  BY <1>6, ConnectionSteps, BrowserSteps
<1> QED BY <1>1, <1>2, <1>3, <1>4, <1>5, <1>6 DEF Next

\* IInv holds in every state of a session, for any number of tasks, listeners and
\* connections.
THEOREM Invariance == Spec => []IInv
BY InitInvariant, StepInvariant, PTL DEF Spec

-----------------------------------------------------------------------------
(* The properties *)

\* The variables keep their types.
THEOREM TypeCorrect == Spec => []TypeOK
<1>1. IInv => TypeOK
  BY DEF IInv
<1> QED BY <1>1, Invariance, PTL

\* The lock of SetSharedFiles keeps the updates of parallel tasks apart: what is
\* published is always what the check boxes showed at one moment.
THEOREM PublishesSnapshots == Spec => []SharedIsSnapshot
<1>1. IInv => SharedIsSnapshot
  BY DEF IInv
<1> QED BY <1>1, Invariance, PTL

\* StopSharingFiles joins the thread before another session can start, so that no
\* two listeners compete for the port.
THEOREM ListensOnce == Spec => []OneListener
<1>1. IInv => OneListener
  BY DEF IInv, Session, OneListener
<1> QED BY <1>1, Invariance, PTL

\* The status on the page, once it can be changed, tells whether there is a
\* listener that goes on accepting.
THEOREM StatusIsTrue == Spec => []StatusMatchesListener
<1>1. IInv => StatusMatchesListener
  <2> SUFFICES ASSUME IInv, m_CanChangeShareStatus
               PROVE  IF m_IsSharing THEN Listening
                      ELSE \A l \in ListenerId : listener[l].thread = "none"
    BY DEF StatusMatchesListener, Listening
  <2>1. \A t \in TaskId : ~Switches(t)
    BY DEF IInv, OneSwitch
  <2>2. m_IsSharing => Listening
    BY <2>1 DEF IInv, Session
  <2>3. ~m_IsSharing => m_SharingContext = None
    BY <2>1 DEF IInv, Session
  <2>4. m_SharingContext = None => \A l \in ListenerId : listener[l].thread = "none"
    BY NoneAssumption DEF IInv, Session
  <2> QED BY <2>2, <2>3, <2>4
<1> QED BY <1>1, Invariance, PTL

-----------------------------------------------------------------------------
(* Answers *)

\* A look-up that gets the lock sees the published state, which is one of those
\* the request may be answered from.
LEMMA LookUpSeesPublished ==
    ASSUME IInv, s_CriticalSection = None
    PROVE  shared = published
BY DEF IInv, Assigned

\* A step of connection c concerns no other connection.
LEMMA OtherConnections ==
    ASSUME RequestsInvariant, NEW c \in Connection, published' = published,
           \A d \in Connection : d # c => connection'[d] = connection[d],
           RequestInvariant(c)', AnswerIsRight(c), VolumesAreRight(c)
    PROVE  /\ RequestsInvariant'
           /\ \A d \in Connection : AnswerIsRight(d) /\ VolumesAreRight(d)
<1>1. ASSUME NEW d \in Connection, d # c
      PROVE  RequestInvariant(d)' /\ AnswerIsRight(d) /\ VolumesAreRight(d)
  <2>1. connection'[d] = connection[d] /\ RequestInvariant(d)
    BY <1>1 DEF RequestsInvariant
  <2>2. Answering(d)' <=> Answering(d)
    BY <2>1 DEF Answering
  <2>3. RequestInvariant(d)'
    BY <2>1, <2>2 DEF RequestInvariant
  <2> QED BY <2>2, <2>3 DEF AnswerIsRight, VolumesAreRight
<1> QED BY <1>1 DEF RequestsInvariant

\* A step that answers nothing, and after which nothing is being answered that
\* was not before.
LEMMA NothingAnswered ==
    ASSUME RequestsInvariant,
           \A c \in Connection :
               /\ Answering(c) <=> Answering(c)'
               /\ Answering(c) =>
                     /\ connection'[c] = [connection[c] EXCEPT !.during = connection'[c].during]
                     /\ connection[c].during \cup {published'} \subseteq connection'[c].during,
           TypeOK, TypeOK'
    PROVE  /\ RequestsInvariant'
           /\ \A c \in Connection : AnswerIsRight(c) /\ VolumesAreRight(c)
<1>1. ASSUME NEW c \in Connection
      PROVE  RequestInvariant(c)'
  <2> SUFFICES ASSUME Answering(c)'
               PROVE  RequestInvariant(c)'
    BY DEF RequestInvariant
  <2>1. Answering(c) /\ RequestInvariant(c) /\ connection[c] \in ConnectionState
    BY DEF RequestsInvariant, TypeOK
  <2>2. /\ connection'[c].thread = connection[c].thread
        /\ connection'[c].path = connection[c].path
        /\ connection'[c].answer = connection[c].answer
        /\ connection'[c].volumes = connection[c].volumes
        /\ published' \in connection'[c].during
        /\ \A s \in connection[c].during : s \in connection'[c].during
    BY <2>1 DEF ConnectionState
  <2> QED BY <2>1, <2>2 DEF RequestInvariant
<1>2. \A c \in Connection : AnswerIsRight(c) /\ VolumesAreRight(c)
  BY DEF AnswerIsRight, VolumesAreRight
<1> QED BY <1>1, <1>2 DEF RequestsInvariant

\* What a connection holds once its thread has answered.
LEMMA Answered ==
    ASSUME TypeOK, NEW c \in Connection, NEW kind, NEW entries, Answer(c, kind, entries)
    PROVE  /\ ~Answering(c)'
           /\ connection'[c].answer = [kind |-> kind, entries |-> entries]
           /\ \A d \in Connection : d # c => connection'[d] = connection[d]
<1>1. connection' = [connection EXCEPT ![c] =
          [Idle("recv") EXCEPT !.answer = [kind |-> kind, entries |-> entries]]]
  BY DEF Answer, SetConnection
<1>2. connection'[c] = [Idle("recv") EXCEPT !.answer = [kind |-> kind, entries |-> entries]]
      /\ \A d \in Connection : d # c => connection'[d] = connection[d]
  BY <1>1 DEF TypeOK
<1>3. connection'[c].thread = "recv"
      /\ connection'[c].answer = [kind |-> kind, entries |-> entries]
  BY <1>2 DEF Idle
<1> QED BY <1>2, <1>3 DEF Answering

\* What a connection holds when its thread has moved on.
LEMMA MovedOn ==
    ASSUME TypeOK, NEW c \in Connection, NEW state,
           connection' = [connection EXCEPT ![c].thread = state]
    PROVE  /\ connection'[c].thread = state
           /\ connection'[c].path = connection[c].path
           /\ connection'[c].answer = connection[c].answer
           /\ connection'[c].volumes = connection[c].volumes
           /\ connection'[c].during = connection[c].during
           /\ \A d \in Connection : d # c => connection'[d] = connection[d]
<1>1. connection[c] \in ConnectionState
  BY DEF TypeOK
<1>2. connection'[c] = [connection[c] EXCEPT !.thread = state]
      /\ \A d \in Connection : d # c => connection'[d] = connection[d]
  BY DEF TypeOK
<1> QED BY <1>1, <1>2 DEF ConnectionState

LEMMA ConnectionStepAnswers ==
    ASSUME IInv, RequestsInvariant, NEW c \in Connection, ConnectionStep(c)
    PROVE  /\ RequestsInvariant'
           /\ \A d \in Connection : AnswerIsRight(d) /\ VolumesAreRight(d)
<1>1. /\ TypeOK
      /\ connection[c] \in ConnectionState
      /\ RequestInvariant(c)
  BY DEF IInv, TypeOK, RequestsInvariant
<1>2. published' = published /\ shared' = shared
  BY DEF ConnectionStep, LookUpVolume, ListVolumes, CheckFolderVisible, ListFolder,
         CheckFileShared, SendFile, NativeUnchanged, storeVars
<1>3. Answering(c)
  BY DEF ConnectionStep, LookUpVolume, ListVolumes, CheckFolderVisible, ListFolder,
         CheckFileShared, SendFile, Answering
<1>4. CASE LookUpVolume(c)
  <2>1. PICK v \in connection[c].volumes :
            connection' = [connection EXCEPT
                ![c].volumes = @ \ {v},
                ![c].answer.entries = IF IsFolderVisible(shared, v) THEN @ \cup {v} ELSE @]
    BY <1>4 DEF LookUpVolume
  <2>2. shared = published /\ connection[c].thread = "request"
    BY <1>4, LookUpSeesPublished DEF LookUpVolume
  <2> DEFINE entries == IF IsFolderVisible(shared, v)
                        THEN connection[c].answer.entries \cup {v}
                        ELSE connection[c].answer.entries
             answer == [connection[c].answer EXCEPT !.entries = entries]
             state == [connection[c] EXCEPT !.volumes = @ \ {v}, !.answer = answer]
  <2>3. connection' = [connection EXCEPT ![c] = state]
    BY <1>1, <2>1 DEF TypeOK
  <2>4. /\ connection'[c] = state
        /\ \A d \in Connection : d # c => connection'[d] = connection[d]
    <3> HIDE DEF state
    <3> QED BY <1>1, <2>3 DEF TypeOK
  <2>5. /\ state.thread = "request"
        /\ state.path = connection[c].path
        /\ state.volumes = connection[c].volumes \ {v}
        /\ state.during = connection[c].during
        /\ state.answer = answer
    <3> HIDE DEF answer
    <3> QED BY <1>1, <2>2 DEF ConnectionState
  <2>6. answer.entries = entries
    <3> HIDE DEF entries
    <3> QED BY <1>1 DEF ConnectionState
  <2> HIDE DEF state, answer
  <2>7. Answering(c)'
    BY <2>4, <2>5 DEF Answering
  <2>8. RequestInvariant(c)'
    BY <1>1, <1>2, <1>3, <2>2, <2>4, <2>5, <2>6 DEF RequestInvariant
  <2>9. AnswerIsRight(c) /\ VolumesAreRight(c)
    BY <2>7 DEF AnswerIsRight, VolumesAreRight
  <2> QED BY <1>2, <2>4, <2>8, <2>9, OtherConnections
<1>5. CASE ListVolumes(c)
  <2>1. /\ connection[c].path = <<>> /\ connection[c].volumes = {}
        /\ Answer(c, "volumes", connection[c].answer.entries)
    BY <1>5 DEF ListVolumes
  <2>2. /\ ~Answering(c)'
        /\ connection'[c].answer = [kind |-> "volumes", entries |-> connection[c].answer.entries]
        /\ \A d \in Connection : d # c => connection'[d] = connection[d]
    BY <1>1, <2>1, Answered
  <2>3. RequestInvariant(c)'
    BY <2>2 DEF RequestInvariant
  <2>4. AnswerIsRight(c)
    BY <1>1, <1>3, <2>2 DEF AnswerIsRight, RequestInvariant
  <2>5. VolumesAreRight(c)
    BY <1>1, <1>3, <2>1, <2>2 DEF VolumesAreRight, RequestInvariant
  <2> QED BY <1>2, <2>2, <2>3, <2>4, <2>5, OtherConnections
<1>6. CASE CheckFolderVisible(c)
  <2>1. shared = published /\ connection[c].path \in Folders
    BY <1>6, LookUpSeesPublished DEF CheckFolderVisible
  <2>2. CASE connection' = [connection EXCEPT ![c].thread = "list"]
    <3>1. /\ connection'[c].thread = "list"
          /\ connection'[c].path = connection[c].path
          /\ connection'[c].answer = connection[c].answer
          /\ connection'[c].volumes = connection[c].volumes
          /\ connection'[c].during = connection[c].during
          /\ \A d \in Connection : d # c => connection'[d] = connection[d]
      BY <1>1, <2>2, MovedOn
    <3>2. Answering(c)'
      BY <3>1 DEF Answering
    <3>3. RequestInvariant(c)'
      BY <1>1, <1>2, <1>3, <2>1, <3>1 DEF RequestInvariant
    <3>4. AnswerIsRight(c) /\ VolumesAreRight(c)
      BY <3>2 DEF AnswerIsRight, VolumesAreRight
    <3> QED BY <1>2, <3>1, <3>3, <3>4, OtherConnections
  <2>3. CASE ~IsFolderVisible(shared, connection[c].path) /\ Answer(c, "error", {})
    <3>1. /\ ~Answering(c)'
          /\ connection'[c].answer = [kind |-> "error", entries |-> {}]
          /\ \A d \in Connection : d # c => connection'[d] = connection[d]
      BY <1>1, <2>3, Answered
    <3>2. RequestInvariant(c)'
      BY <3>1 DEF RequestInvariant
    <3>3. ~IsEntryVisible(published, connection[c].path)
      BY <2>1, <2>3 DEF IsEntryVisible
    <3>4. AnswerIsRight(c)
      BY <1>1, <1>3, <3>1, <3>3 DEF AnswerIsRight, RequestInvariant
    <3>5. VolumesAreRight(c)
      BY <3>1 DEF VolumesAreRight
    <3> QED BY <1>2, <3>1, <3>2, <3>4, <3>5, OtherConnections
  <2> QED BY <1>6, <2>2, <2>3 DEF CheckFolderVisible
<1>7. CASE ListFolder(c)
  <2>1. /\ shared = published
        /\ Answer(c, "listing", GetFolderContents(shared, connection[c].path))
    BY <1>7, LookUpSeesPublished DEF ListFolder
  <2>2. /\ ~Answering(c)'
        /\ connection'[c].answer = [kind |-> "listing",
                 entries |-> GetFolderContents(shared, connection[c].path)]
        /\ \A d \in Connection : d # c => connection'[d] = connection[d]
    BY <1>1, <2>1, Answered
  <2>3. RequestInvariant(c)'
    BY <2>2 DEF RequestInvariant
  <2>4. AnswerIsRight(c)
    BY <1>1, <1>3, <2>1, <2>2 DEF AnswerIsRight, RequestInvariant
  <2>5. VolumesAreRight(c)
    BY <2>2 DEF VolumesAreRight
  <2> QED BY <1>2, <2>2, <2>3, <2>4, <2>5, OtherConnections
<1>8. CASE CheckFileShared(c)
  <2>1. shared = published /\ connection[c].path \in Files
    BY <1>8, LookUpSeesPublished DEF CheckFileShared
  <2>2. CASE /\ IsFileShared(shared, connection[c].path)
             /\ connection' = [connection EXCEPT ![c].thread = "stream"]
    <3>1. /\ connection'[c].thread = "stream"
          /\ connection'[c].path = connection[c].path
          /\ connection'[c].answer = connection[c].answer
          /\ connection'[c].volumes = connection[c].volumes
          /\ connection'[c].during = connection[c].during
          /\ \A d \in Connection : d # c => connection'[d] = connection[d]
      BY <1>1, <2>2, MovedOn
    <3>2. Answering(c)'
      BY <3>1 DEF Answering
    <3>3. RequestInvariant(c)'
      BY <1>1, <1>2, <1>3, <2>1, <2>2, <3>1 DEF RequestInvariant
    <3>4. AnswerIsRight(c) /\ VolumesAreRight(c)
      BY <3>2 DEF AnswerIsRight, VolumesAreRight
    <3> QED BY <1>2, <3>1, <3>3, <3>4, OtherConnections
  <2>3. CASE ~IsFileShared(shared, connection[c].path) /\ Answer(c, "error", {})
    <3>1. /\ ~Answering(c)'
          /\ connection'[c].answer = [kind |-> "error", entries |-> {}]
          /\ \A d \in Connection : d # c => connection'[d] = connection[d]
      BY <1>1, <2>3, Answered
    <3>2. RequestInvariant(c)'
      BY <3>1 DEF RequestInvariant
    <3>3. ~IsEntryVisible(published, connection[c].path)
      BY <2>1, <2>3 DEF IsEntryVisible, Files
    <3>4. AnswerIsRight(c)
      BY <1>1, <1>3, <3>1, <3>3 DEF AnswerIsRight, RequestInvariant
    <3>5. VolumesAreRight(c)
      BY <3>1 DEF VolumesAreRight
    <3> QED BY <1>2, <3>1, <3>2, <3>4, <3>5, OtherConnections
  <2> QED BY <1>8, <2>2, <2>3 DEF CheckFileShared
<1>9. CASE SendFile(c)
  <2>1. connection[c].thread = "stream" /\ Answer(c, "file", {})
    BY <1>9 DEF SendFile
  <2>2. /\ ~Answering(c)'
        /\ connection'[c].answer = [kind |-> "file", entries |-> {}]
        /\ \A d \in Connection : d # c => connection'[d] = connection[d]
    BY <1>1, <2>1, Answered
  <2>3. RequestInvariant(c)'
    BY <2>2 DEF RequestInvariant
  <2>4. AnswerIsRight(c)
    BY <1>1, <1>3, <2>1, <2>2 DEF AnswerIsRight, RequestInvariant
  <2>5. VolumesAreRight(c)
    BY <2>2 DEF VolumesAreRight
  <2> QED BY <1>2, <2>2, <2>3, <2>4, <2>5, OtherConnections
<1> QED BY <1>4, <1>5, <1>6, <1>7, <1>8, <1>9 DEF ConnectionStep

LEMMA BrowserStepAnswers ==
    ASSUME IInv, RequestsInvariant, NEW c \in Connection, BrowserStep(c)
    PROVE  /\ RequestsInvariant'
           /\ \A d \in Connection : AnswerIsRight(d) /\ VolumesAreRight(d)
<1>1. TypeOK /\ published' = published
  BY DEF IInv, BrowserStep, Connect, Receive, Disconnect, NativeUnchanged, storeVars
<1>2. ~Answering(c)
  BY DEF BrowserStep, Connect, Receive, Disconnect, Answering
<1>3. AnswerIsRight(c) /\ VolumesAreRight(c)
  BY <1>2 DEF AnswerIsRight, VolumesAreRight
<1>4. CASE Connect(c)
  <2>1. /\ connection'[c].thread = "backlog"
        /\ \A d \in Connection : d # c => connection'[d] = connection[d]
    BY <1>1, <1>4, MovedOn DEF Connect
  <2>2. RequestInvariant(c)'
    BY <2>1 DEF RequestInvariant, Answering
  <2> QED BY <1>1, <1>3, <2>1, <2>2, OtherConnections
<1>5. CASE Receive(c)
  <2>1. PICK p \in Requested :
            SetConnection(c, [Idle("request") EXCEPT
                                  !.path = p,
                                  !.volumes = IF p = <<>> THEN Volumes ELSE {},
                                  !.during = {published}])
    BY <1>5 DEF Receive
  <2>2. /\ connection'[c] = [Idle("request") EXCEPT
                                  !.path = p,
                                  !.volumes = IF p = <<>> THEN Volumes ELSE {},
                                  !.during = {published}]
        /\ \A d \in Connection : d # c => connection'[d] = connection[d]
    BY <1>1, <2>1 DEF SetConnection, TypeOK
  <2>3. /\ connection'[c].thread = "request"
        /\ connection'[c].path = p
        /\ connection'[c].volumes = IF p = <<>> THEN Volumes ELSE {}
        /\ connection'[c].during = {published}
        /\ connection'[c].answer.entries = {}
    BY <2>2 DEF Idle, NoAnswer
  <2>4. RequestInvariant(c)'
    BY <1>1, <2>3 DEF RequestInvariant
  <2> QED BY <1>1, <1>3, <2>2, <2>4, OtherConnections
<1>6. CASE Disconnect(c)
  <2>1. /\ connection'[c] = Idle("none")
        /\ \A d \in Connection : d # c => connection'[d] = connection[d]
    BY <1>1, <1>6 DEF Disconnect, SetConnection, TypeOK
  <2>2. connection'[c].thread = "none"
    BY <2>1 DEF Idle
  <2>3. RequestInvariant(c)'
    BY <2>2 DEF RequestInvariant, Answering
  <2> QED BY <1>1, <1>3, <2>1, <2>3, OtherConnections
<1> QED BY <1>4, <1>5, <1>6 DEF BrowserStep

\* The other steps answer nothing; LeaveCriticalSection tells every request that
\* is being answered of the new state.
LEMMA ConnectionsKept ==
    ASSUME IInv, RequestsInvariant, published' = published, connection' = connection
    PROVE  /\ RequestsInvariant'
           /\ \A c \in Connection : AnswerIsRight(c) /\ VolumesAreRight(c)
<1>1. \A c \in Connection : Answering(c)' <=> Answering(c)
  BY DEF Answering
<1>2. \A c \in Connection : RequestInvariant(c)'
  BY <1>1 DEF RequestsInvariant, RequestInvariant
<1> QED BY <1>1, <1>2 DEF RequestsInvariant, AnswerIsRight, VolumesAreRight

LEMMA StepAnswers ==
    ASSUME IInv, IInv', RequestsInvariant, [Next]_vars
    PROVE  /\ RequestsInvariant'
           /\ \A c \in Connection : AnswerIsRight(c) /\ VolumesAreRight(c)
<1>1. TypeOK /\ TypeOK'
  BY DEF IInv
<1>2. CASE UNCHANGED vars
  BY <1>2, ConnectionsKept DEF vars, storeVars
<1>3. CASE UserStep
  BY <1>3, ConnectionsKept DEF UserStep, ClickCheckBox, StartSharing, StopSharing, storeVars
<1>4. CASE LoadVolumes
  BY <1>4, ConnectionsKept DEF LoadVolumes, storeVars
<1>5. ASSUME NEW t \in TaskId, LeaveCriticalSection(t)
      PROVE  /\ RequestsInvariant'
             /\ \A c \in Connection : AnswerIsRight(c) /\ VolumesAreRight(c)
  <2>1. published' = shared'
        /\ connection' = [c \in Connection |->
              IF Answering(c)
              THEN [connection[c] EXCEPT !.during = @ \cup {shared'}]
              ELSE connection[c]]
    BY <1>5 DEF LeaveCriticalSection
  <2>2. ASSUME NEW c \in Connection
        PROVE  /\ Answering(c) <=> Answering(c)'
               /\ Answering(c) =>
                     /\ connection'[c] = [connection[c] EXCEPT !.during = connection'[c].during]
                     /\ connection[c].during \cup {published'} \subseteq connection'[c].during
    <3>1. connection[c] \in ConnectionState
      BY <1>1 DEF TypeOK
    <3>2. CASE Answering(c)
      <4>1. connection'[c] = [connection[c] EXCEPT !.during = @ \cup {published'}]
        BY <2>1, <3>2
      <4>2. /\ connection'[c].during = connection[c].during \cup {published'}
            /\ connection'[c].thread = connection[c].thread
        BY <3>1, <4>1 DEF ConnectionState
      <4>3. connection'[c] = [connection[c] EXCEPT !.during = connection'[c].during]
        BY <4>1, <4>2, <3>1 DEF ConnectionState
      <4> QED BY <3>2, <4>2, <4>3 DEF Answering
    <3>3. CASE ~Answering(c)
      BY <2>1, <3>3 DEF Answering
    <3> QED BY <3>2, <3>3
  <2> QED BY <1>1, <2>2, NothingAnswered
<1>6. ASSUME NEW t \in TaskId,
             \/ EnterCriticalSection(t) \/ AssignPartiallySharedFolders(t)
             \/ StartListener(t) \/ StopListener(t) \/ JoinListener(t) \/ FinishTask(t)
      PROVE  /\ RequestsInvariant'
             /\ \A c \in Connection : AnswerIsRight(c) /\ VolumesAreRight(c)
  BY <1>6, ConnectionsKept
     DEF EnterCriticalSection, AssignPartiallySharedFolders, StartListener, StopListener,
         JoinListener, FinishTask, storeVars
<1>7. ASSUME NEW l \in ListenerId, ListenerStep(l)
      PROVE  /\ RequestsInvariant'
             /\ \A c \in Connection : AnswerIsRight(c) /\ VolumesAreRight(c)
  <2>1. published' = published
    BY <1>7 DEF ListenerStep, BindListener, TestRunning, Accept, storeVars
  <2>2. CASE connection' = connection
    BY <2>1, <2>2, ConnectionsKept
  <2>3. CASE \E c \in Connection :
                /\ connection[c].thread = "backlog"
                /\ connection' = [connection EXCEPT ![c].thread = "recv"]
    <3>1. PICK c \in Connection :
              /\ connection[c].thread = "backlog"
              /\ connection' = [connection EXCEPT ![c].thread = "recv"]
      BY <2>3
    <3>2. /\ connection'[c].thread = "recv"
          /\ \A d \in Connection : d # c => connection'[d] = connection[d]
      BY <1>1, <3>1, MovedOn
    <3>3. ~Answering(c) /\ ~Answering(c)'
      BY <3>1, <3>2 DEF Answering
    <3>4. RequestInvariant(c)' /\ AnswerIsRight(c) /\ VolumesAreRight(c)
      BY <3>3 DEF RequestInvariant, AnswerIsRight, VolumesAreRight
    <3> QED BY <2>1, <3>2, <3>4, OtherConnections
  <2>4. CASE connection' = [c \in Connection |->
                  IF connection[c].thread = "backlog"
                  THEN [connection[c] EXCEPT !.thread = "none"]
                  ELSE connection[c]]
    <3>1. ASSUME NEW c \in Connection
          PROVE  RequestInvariant(c)' /\ AnswerIsRight(c) /\ VolumesAreRight(c)
      <4>1. CASE connection[c].thread = "backlog"
        <5>1. connection'[c].thread = "none"
          BY <1>1, <2>4, <4>1 DEF TypeOK, ConnectionState
        <5>2. ~Answering(c) /\ ~Answering(c)'
          BY <4>1, <5>1 DEF Answering
        <5> QED BY <5>2 DEF RequestInvariant, AnswerIsRight, VolumesAreRight
      <4>2. CASE connection[c].thread # "backlog"
        <5>1. connection'[c] = connection[c]
          BY <2>4, <4>2
        <5>2. (Answering(c)' <=> Answering(c)) /\ RequestInvariant(c)
          BY <5>1 DEF Answering, RequestsInvariant
        <5>3. RequestInvariant(c)'
          BY <2>1, <5>1, <5>2 DEF RequestInvariant
        <5> QED BY <5>2, <5>3 DEF AnswerIsRight, VolumesAreRight
      <4> QED BY <4>1, <4>2
    <3> QED BY <3>1 DEF RequestsInvariant
  <2>5. CASE BindListener(l)
    BY <2>2, <2>5 DEF BindListener
  <2>6. CASE TestRunning(l)
    BY <2>2, <2>4, <2>6 DEF TestRunning
  <2>7. CASE Accept(l)
    BY <2>2, <2>3, <2>7 DEF Accept
  <2> QED BY <1>7, <2>5, <2>6, <2>7 DEF ListenerStep
<1>8. ASSUME NEW c \in Connection, ConnectionStep(c) \/ BrowserStep(c)
      PROVE  /\ RequestsInvariant'
             /\ \A d \in Connection : AnswerIsRight(d) /\ VolumesAreRight(d)
  BY <1>8, ConnectionStepAnswers, BrowserStepAnswers
<1> QED BY <1>2, <1>3, <1>4, <1>5, <1>6, <1>7, <1>8 DEF Next, TaskStep

\* What is known of the requests that are being answered.
THEOREM RequestsInvariance == Spec => []RequestsInvariant
<1>1. Init => RequestsInvariant
  BY DEF Init, RequestsInvariant, RequestInvariant, Answering, Idle
<1>2. IInv /\ IInv' /\ RequestsInvariant /\ [Next]_vars => RequestsInvariant'
  BY StepAnswers
<1> QED BY <1>1, <1>2, Invariance, PTL DEF Spec

\* Each answer about a folder or a file is right for one instant of its request,
\* whatever other tasks publish between the two look-ups.
THEOREM AnswersFromOneInstant == Spec => AnswerFromOneInstant
<1>1. IInv /\ IInv' /\ RequestsInvariant /\ [Next]_vars =>
          [\A c \in Connection : AnswerIsRight(c)]_vars
  BY StepAnswers
<1> QED BY <1>1, Invariance, RequestsInvariance, PTL DEF Spec, AnswerFromOneInstant

\* A volume on the home page was visible at some moment of the request, and one
\* that is missing was invisible at some moment.
THEOREM VolumesAreFromTheRequest == Spec => VolumesFromTheRequest
<1>1. IInv /\ IInv' /\ RequestsInvariant /\ [Next]_vars =>
          [\A c \in Connection : VolumesAreRight(c)]_vars
  BY StepAnswers
<1> QED BY <1>1, Invariance, RequestsInvariance, PTL DEF Spec, VolumesFromTheRequest

=============================================================================
