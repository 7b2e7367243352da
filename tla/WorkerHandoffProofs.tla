------------------------ MODULE WorkerHandoffProofs ------------------------
(***************************************************************************)
(* The safety properties of WorkerHandoff, and that it implements          *)
(* LicenseStatus, proved from one inductive invariant.                     *)
(***************************************************************************)
EXTENDS WorkerHandoff, TLAPS

\* The worker has a current task exactly while it runs one, and it owes
\* notifications only between handleTaskResult's lock and their delivery.
WorkerPlaced ==
    /\ worker = "running" <=> currentTask # "none"
    /\ workerOwes # {} => worker = "notifying"
    /\ worker = "exited" => threadShouldExit

\* A request that queues a task breaks the one that runs.
QueuedBreaksRunning ==
    pendingTask # "none" /\ currentTask # "none" => breakCurrentTask

\* Before startup() or logout() nothing happens.
UndefinedIsQuiet ==
    status = "undefined" =>
        /\ worker = "notStarted"
        /\ caller \in {"idle"} \cup DestructorPlaces
        /\ pendingTask = "none"
        /\ ~hasError
        /\ ~asyncUpdate

\* The destructor withdraws the queued task and breaks the running one.
DestructorWithdraws ==
    /\ threadShouldExit <=> caller \in {"dtorJoin", "destroyed"}
    /\ Destroying => pendingTask = "none"
    /\ Destroying /\ currentTask # "none" => breakCurrentTask

\* What updateActivationEventWatcher() is about to apply is up to date, or
\* another update is on its way.
WatcherInformed ==
    caller = "watcher" =>
        \/ asyncUpdate
        \/ "update" \in workerOwes
        \/ seenStatus = "activationRequired" <=> status = "activationRequired"

IInv ==
    /\ TypeOK
    /\ TaskMatchesStatus
    /\ UnlockingHasWork
    /\ NoLostWakeup
    /\ WatcherSettled
    /\ QuietAfterDestructor
    /\ WorkerPlaced
    /\ QueuedBreaksRunning
    /\ UndefinedIsQuiet
    /\ DestructorWithdraws
    /\ WatcherInformed

\* Every result a task can return is a TaskResult with a published status.
LEMMA ResultsTyped ==
    \A task : ResultsOf(task) \subseteq TaskResults
<1>1. \A s \in Statuses \cup {"keep"}, e \in BOOLEAN, p \in WorkerTask :
        TaskResult(s, e, p) \in TaskResults
    BY DEF TaskResult, TaskResults
<1>2. NoResult \in TaskResults
    BY <1>1 DEF NoResult, Statuses, WorkerTask
<1>3. StartupVerdicts \subseteq TaskResults
    BY <1>1 DEF StartupVerdicts, Statuses, WorkerTask
<1>4. /\ ActivationResults \subseteq TaskResults
      /\ RefreshResults \subseteq TaskResults
    BY <1>1, <1>2 DEF ActivationResults, RefreshResults, Statuses, WorkerTask
<1> QED
    BY <1>2, <1>3, <1>4 DEF ResultsOf, StartupResults

LEMMA InvStep == IInv /\ [Next]_vars => IInv'
<1> SUFFICES ASSUME IInv, [Next]_vars PROVE IInv'
    OBVIOUS
<1> USE DEF IInv, TypeOK, TaskMatchesStatus, UnlockingHasWork, NoLostWakeup,
            WatcherSettled, QuietAfterDestructor, WorkerPlaced,
            QueuedBreaksRunning, UndefinedIsQuiet, DestructorWithdraws,
            WatcherInformed, Statuses, WorkerTask, StartupTasks, WorkerPlaces,
            CallerPlaces, DestructorPlaces, Destroying, shared, threads,
            message, BreakRunningTask
<1>1. CASE Startup
    BY <1>1 DEF Startup
<1>2. CASE StartActivation
    BY <1>2 DEF StartActivation
<1>3. CASE RetryUnlocking
    BY <1>3 DEF RetryUnlocking
<1>4. CASE CheckActivationEvent
    BY <1>4 DEF CheckActivationEvent
<1>5. CASE Logout
    BY <1>5 DEF Logout
<1>6. CASE CallerNotify
    BY <1>6 DEF CallerNotify
<1>7. CASE HandleAsyncUpdate
    BY <1>7 DEF HandleAsyncUpdate
<1>8. CASE UpdateActivationEventWatcher
  <2>1. TypeOK'
    BY <1>8 DEF UpdateActivationEventWatcher
  <2>2. TaskMatchesStatus'
    BY <1>8 DEF UpdateActivationEventWatcher
  <2>3. UnlockingHasWork'
    BY <1>8 DEF UpdateActivationEventWatcher
  <2>4. NoLostWakeup'
    BY <1>8 DEF UpdateActivationEventWatcher
  <2>5. WatcherSettled'
    BY <1>8 DEF UpdateActivationEventWatcher
  <2>6. QuietAfterDestructor'
    BY <1>8 DEF UpdateActivationEventWatcher
  <2>7. WorkerPlaced'
    BY <1>8 DEF UpdateActivationEventWatcher
  <2>8. QueuedBreaksRunning'
    BY <1>8 DEF UpdateActivationEventWatcher
  <2>9. UndefinedIsQuiet'
    BY <1>8 DEF UpdateActivationEventWatcher
  <2>10. DestructorWithdraws'
    BY <1>8 DEF UpdateActivationEventWatcher
  <2>11. WatcherInformed'
    BY <1>8 DEF UpdateActivationEventWatcher
  <2> QED
    BY <2>1, <2>2, <2>3, <2>4, <2>5, <2>6, <2>7, <2>8, <2>9, <2>10, <2>11
<1>9. CASE Destroy
    BY <1>9 DEF Destroy
<1>10. CASE DestructorSignals
    BY <1>10 DEF DestructorSignals
<1>11. CASE DestructorSetsExit
    BY <1>11 DEF DestructorSetsExit
<1>12. CASE DestructorJoins
    BY <1>12 DEF DestructorJoins
<1>13. CASE RunLoop
    BY <1>13 DEF RunLoop
<1>14. CASE WakeUp
  <2>1. TypeOK'
    BY <1>14 DEF WakeUp
  <2>2. TaskMatchesStatus'
    BY <1>14 DEF WakeUp
  <2>3. UnlockingHasWork'
    BY <1>14 DEF WakeUp
  <2>4. NoLostWakeup'
    BY <1>14 DEF WakeUp
  <2>5. WatcherSettled'
    BY <1>14 DEF WakeUp
  <2>6. QuietAfterDestructor'
    BY <1>14 DEF WakeUp
  <2>7. WorkerPlaced'
    BY <1>14 DEF WakeUp
  <2>8. QueuedBreaksRunning'
    BY <1>14 DEF WakeUp
  <2>9. UndefinedIsQuiet'
    BY <1>14 DEF WakeUp
  <2>10. DestructorWithdraws'
    BY <1>14 DEF WakeUp
  <2>11. WatcherInformed'
    BY <1>14 DEF WakeUp
  <2> QED
    BY <2>1, <2>2, <2>3, <2>4, <2>5, <2>6, <2>7, <2>8, <2>9, <2>10, <2>11
<1>15. CASE CheckExit
    BY <1>15 DEF CheckExit
<1>16. CASE TakeTask
  <2>1. TypeOK'
    BY <1>16 DEF TakeTask
  <2>2. TaskMatchesStatus'
    BY <1>16 DEF TakeTask
  <2>3. UnlockingHasWork'
    BY <1>16 DEF TakeTask
  <2>4. NoLostWakeup'
    BY <1>16 DEF TakeTask
  <2>5. WatcherSettled'
    BY <1>16 DEF TakeTask
  <2>6. QuietAfterDestructor'
    BY <1>16 DEF TakeTask
  <2>7. WorkerPlaced'
    BY <1>16 DEF TakeTask
  <2>8. QueuedBreaksRunning'
    BY <1>16 DEF TakeTask
  <2>9. UndefinedIsQuiet'
    BY <1>16 DEF TakeTask
  <2>10. DestructorWithdraws'
    BY <1>16 DEF TakeTask
  <2>11. WatcherInformed'
    BY <1>16 DEF TakeTask
  <2> QED
    BY <2>1, <2>2, <2>3, <2>4, <2>5, <2>6, <2>7, <2>8, <2>9, <2>10, <2>11
<1>17. CASE WorkerNotify
  <2>1. TypeOK'
    BY <1>17 DEF WorkerNotify
  <2>2. TaskMatchesStatus'
    BY <1>17 DEF WorkerNotify
  <2>3. UnlockingHasWork'
    BY <1>17 DEF WorkerNotify
  <2>4. NoLostWakeup'
    BY <1>17 DEF WorkerNotify
  <2>5. WatcherSettled'
    BY <1>17 DEF WorkerNotify
  <2>6. QuietAfterDestructor'
    BY <1>17 DEF WorkerNotify
  <2>7. WorkerPlaced'
    BY <1>17 DEF WorkerNotify
  <2>8. QueuedBreaksRunning'
    BY <1>17 DEF WorkerNotify
  <2>9. UndefinedIsQuiet'
    BY <1>17 DEF WorkerNotify
  <2>10. DestructorWithdraws'
    BY <1>17 DEF WorkerNotify
  <2>11. WatcherInformed'
    BY <1>17 DEF WorkerNotify
  <2> QED
    BY <2>1, <2>2, <2>3, <2>4, <2>5, <2>6, <2>7, <2>8, <2>9, <2>10, <2>11
<1>18. CASE TaskEnds
  <2>1. PICK res \in ResultsOf(currentTask) : HandleTaskResult(res)
    BY <1>18 DEF TaskEnds
  <2>2. res \in TaskResults
    BY <2>1, ResultsTyped
  <2>3. workerOwes' \in SUBSET {"update", "wake"}
    BY <2>1 DEF HandleTaskResult, DropResult, ApplyResult, Owed
  <2>4. CASE DropResult
    <3>1. /\ worker = "running"
          /\ currentTask' = "none"
          /\ worker' = "loop"
          /\ breakCurrentTask' = FALSE
          /\ UNCHANGED <<status, hasError, pendingTask, workerOwes>>
          /\ UNCHANGED <<wakeEvent, asyncUpdate, message>>
      BY <2>1, <2>4 DEF HandleTaskResult, DropResult
    <3>2. breakCurrentTask
      BY <2>4 DEF DropResult
    <3>3. TypeOK' /\ TaskMatchesStatus'
      BY <3>1, <3>2
    <3>4. UnlockingHasWork' /\ NoLostWakeup'
      BY <3>1, <3>2
    <3>5. WatcherSettled' /\ QuietAfterDestructor' /\ WatcherInformed'
      BY <3>1, <3>2
    <3>6. /\ WorkerPlaced' /\ QueuedBreaksRunning'
          /\ UndefinedIsQuiet' /\ DestructorWithdraws'
      BY <3>1, <3>2
    <3> QED
      BY <3>3, <3>4, <3>5, <3>6
  <2>5. CASE ApplyResult(res) /\ currentTask \in StartupTasks
    <3>1. res \in StartupVerdicts \/ (res = NoResult /\ TaskShouldExit)
      BY <2>1, <2>5 DEF ResultsOf, StartupResults
    <3> QED
      BY <2>1, <2>2, <2>3, <2>5, <3>1
      DEF HandleTaskResult, ApplyResult, StartupVerdicts, NoResult,
          TaskResult,
          TaskResults, StatusAfter, Owed, TaskShouldExit
  <2>6. CASE ApplyResult(res) /\ currentTask = "startActivation"
    <3>1. res \in ActivationResults
      BY <2>1, <2>6 DEF ResultsOf
    <3> QED
      BY <2>1, <2>2, <2>3, <2>6, <3>1
      DEF HandleTaskResult, ApplyResult, ActivationResults, NoResult,
          TaskResult, TaskResults, StatusAfter, Owed
  <2>7. CASE ApplyResult(res) /\ currentTask = "refreshAccessWithDelay"
    <3>1. res \in RefreshResults
      BY <2>1, <2>7 DEF ResultsOf
    <3> QED
      BY <2>1, <2>2, <2>3, <2>7, <3>1
      DEF HandleTaskResult, ApplyResult, RefreshResults, NoResult,
          TaskResult, TaskResults, StatusAfter, Owed
  <2> QED
    BY <2>1, <2>4, <2>5, <2>6, <2>7 DEF HandleTaskResult
<1>19. CASE UNCHANGED vars
    BY <1>19 DEF vars
<1> QED
    BY <1>1, <1>2, <1>3, <1>4, <1>5, <1>6, <1>7, <1>8, <1>9, <1>10, <1>11,
       <1>12, <1>13, <1>14, <1>15, <1>16, <1>17, <1>18, <1>19 DEF Next,
       CallerStep, WorkerStep

LEMMA InitInv == Init => IInv
BY DEF Init, IInv, TypeOK, TaskMatchesStatus, UnlockingHasWork, NoLostWakeup,
       WatcherSettled, QuietAfterDestructor, WorkerPlaced,
       QueuedBreaksRunning, UndefinedIsQuiet, DestructorWithdraws,
       WatcherInformed, Statuses, WorkerTask, StartupTasks, WorkerPlaces,
       CallerPlaces, DestructorPlaces, Destroying

\* The invariant of the handoff, from which the properties below follow.
THEOREM Invariant == Spec => []IInv
<1>1. Init => IInv
    BY InitInv
<1>2. IInv /\ [Next]_vars => IInv'
    BY InvStep
<1> QED
    BY <1>1, <1>2, PTL DEF Spec

-----------------------------------------------------------------------------
\* The variables of UnlockerImpl and its two threads keep their types; in
\* particular a result without a status never becomes one.
THEOREM TypeCorrect == Spec => []TypeOK
<1>1. IInv => TypeOK
    BY DEF IInv
<1> QED
    BY <1>1, Invariant, PTL

\* A late result cannot undo what a newer request published.
THEOREM LateResultsAreHarmless == Spec => []TaskMatchesStatus
<1>1. IInv => TaskMatchesStatus
    BY DEF IInv
<1> QED
    BY <1>1, Invariant, PTL

\* The status never says unlocking with nobody working on it.
THEOREM NeverStuckUnlocking == Spec => []UnlockingHasWork
<1>1. IInv => UnlockingHasWork
    BY DEF IInv
<1> QED
    BY <1>1, Invariant, PTL

\* No queued task is left to a worker that nobody wakes.
THEOREM WakeupsAreNotLost == Spec => []NoLostWakeup
<1>1. IInv => NoLostWakeup
    BY DEF IInv
<1> QED
    BY <1>1, Invariant, PTL

\* The activation event timer runs exactly when it should.
THEOREM WatcherIsRight == Spec => []WatcherSettled
<1>1. IInv => WatcherSettled
    BY DEF IInv
<1> QED
    BY <1>1, Invariant, PTL

\* Nothing of a destroyed unlocker runs any more.
THEOREM NothingIsLeft == Spec => []QuietAfterDestructor
<1>1. IInv => QuietAfterDestructor
    BY DEF IInv
<1> QED
    BY <1>1, Invariant, PTL

-----------------------------------------------------------------------------
LEMMA RefineInit == Init => Promise!Init
BY DEF Init, Promise!Init, Operation, OperationOf, Destroying,
       DestructorPlaces, StartupTasks

\* Every step of the handoff is a step of the status machine or invisible.
LEMMA RefineStep ==
    IInv /\ [Next]_vars => [Promise!Next]_(Promise!vars)
<1> SUFFICES ASSUME IInv, [Next]_vars
             PROVE  [Promise!Next]_(Promise!vars)
    OBVIOUS
<1> USE DEF IInv, TypeOK, Operation, OperationOf, Destroying,
            DestructorPlaces, StartupTasks, WorkerTask, CallerPlaces
<1>1. CASE Startup
  <2>1. Promise!Startup
    BY <1>1 DEF Startup, BreakRunningTask, Promise!Startup, Promise!Publish,
        DestructorWithdraws, QueuedBreaksRunning
  <2> QED
    BY <2>1 DEF Promise!Next
<1>2. CASE StartActivation
  <2>1. Promise!StartActivation
    BY <1>2
    DEF StartActivation, BreakRunningTask, Promise!StartActivation,
        Promise!Publish,
        DestructorWithdraws, QueuedBreaksRunning
  <2> QED
    BY <2>1 DEF Promise!Next
<1>3. CASE RetryUnlocking
  <2>1. Promise!RetryUnlocking
    BY <1>3
    DEF RetryUnlocking, BreakRunningTask, Promise!RetryUnlocking,
        Promise!Publish,
        DestructorWithdraws, QueuedBreaksRunning
  <2> QED
    BY <2>1 DEF Promise!Next
<1>4. CASE CheckActivationEvent
  <2>1. Promise!ActivatedElsewhere
    BY <1>4
    DEF CheckActivationEvent, BreakRunningTask, Promise!ActivatedElsewhere,
        Promise!Publish,
        DestructorWithdraws, QueuedBreaksRunning
  <2> QED
    BY <2>1 DEF Promise!Next
<1>5. CASE Logout
  <2>1. /\ status' = "activationRequired" /\ ~hasError'
        /\ ~Destroying /\ ~Destroying'
        /\ pendingTask' = "none" /\ currentTask' = currentTask
    BY <1>5 DEF Logout
  <2>2. breakCurrentTask' \/ currentTask' = "none"
    BY <1>5 DEF Logout, BreakRunningTask
  <2>3. Operation' = "none"
    BY <2>1, <2>2
  <2>4. Promise!Logout
    BY <1>5, <2>1, <2>3 DEF Logout, Promise!Logout, Promise!Publish
  <2> QED
    BY <2>4 DEF Promise!Next
<1>6. CASE Destroy
  <2>1. Promise!Close
    BY <1>6 DEF Destroy, BreakRunningTask, Promise!Close, Promise!Publish,
        DestructorWithdraws, QueuedBreaksRunning
  <2> QED
    BY <2>1 DEF Promise!Next
<1>7. CASE CallerNotify
    BY <1>7
    DEF CallerNotify, Promise!vars, shared, message, QueuedBreaksRunning,
        WorkerPlaced
<1>8. CASE HandleAsyncUpdate
    BY <1>8
    DEF HandleAsyncUpdate, Promise!vars, shared, message,
        QueuedBreaksRunning, WorkerPlaced
<1>9. CASE UpdateActivationEventWatcher
    BY <1>9
    DEF UpdateActivationEventWatcher, Promise!vars, shared, message,
        QueuedBreaksRunning, WorkerPlaced
<1>10. CASE DestructorSignals
    BY <1>10
    DEF DestructorSignals, Promise!vars, shared, message,
        QueuedBreaksRunning, WorkerPlaced
<1>11. CASE DestructorSetsExit
    BY <1>11
    DEF DestructorSetsExit, Promise!vars, shared, message,
        QueuedBreaksRunning, WorkerPlaced
<1>12. CASE DestructorJoins
    BY <1>12
    DEF DestructorJoins, Promise!vars, shared, message, QueuedBreaksRunning,
        WorkerPlaced
<1>13. CASE RunLoop
    BY <1>13
    DEF RunLoop, Promise!vars, shared, message, QueuedBreaksRunning,
        WorkerPlaced
<1>14. CASE WakeUp
    BY <1>14
    DEF WakeUp, Promise!vars, shared, message, QueuedBreaksRunning,
        WorkerPlaced
<1>15. CASE CheckExit
    BY <1>15
    DEF CheckExit, Promise!vars, shared, message, QueuedBreaksRunning,
        WorkerPlaced
<1>16. CASE TakeTask
    BY <1>16
    DEF TakeTask, Promise!vars, shared, message, QueuedBreaksRunning,
        WorkerPlaced
<1>17. CASE WorkerNotify
    BY <1>17
    DEF WorkerNotify, Promise!vars, shared, message, QueuedBreaksRunning,
        WorkerPlaced
<1>18. CASE TaskEnds
  <2>1. PICK res \in ResultsOf(currentTask) : HandleTaskResult(res)
    BY <1>18 DEF TaskEnds
  <2>2. CASE DropResult
    BY <2>1, <2>2
    DEF HandleTaskResult, DropResult, Promise!vars, message,
        QueuedBreaksRunning
  <2>3. CASE ApplyResult(res)
    <3>1. /\ worker = "running" /\ currentTask # "none" /\ pendingTask = "none"
          /\ ~breakCurrentTask /\ ~breakCurrentTask' /\ currentTask' = "none"
          /\ status' = StatusAfter(res)
          /\ hasError' = (hasError \/ res.newError)
          /\ pendingTask' = res.newPendingTask
          /\ caller' = caller /\ ~Destroying
      BY <2>1, <2>3 DEF HandleTaskResult, ApplyResult, message, WorkerPlaced,
                        QueuedBreaksRunning, DestructorWithdraws
    <3>2. res \in TaskResults
      BY <2>1, ResultsTyped
    <3>3. CASE currentTask \in StartupTasks
      <4>1. res \in StartupVerdicts
        BY <2>1, <3>1, <3>3
        DEF ResultsOf, StartupResults, TaskShouldExit, DestructorWithdraws
      <4>2. Promise!UnlockEnds \/ UNCHANGED Promise!vars
        BY <3>1, <3>2, <3>3, <4>1
        DEF StartupVerdicts, TaskResult, TaskResults, StatusAfter,
           TaskMatchesStatus, Promise!UnlockEnds, Promise!Publish,
           Promise!vars
      <4> QED
        BY <4>2 DEF Promise!Next
    <3>4. CASE currentTask = "startActivation"
      <4>1. res \in ActivationResults
        BY <2>1, <3>4 DEF ResultsOf
      <4>2. Promise!ActivationEnds
        <5>1. /\ status = "activationRequired"
              /\ Operation = "activate" /\ Operation' = "none"
              /\ ~Destroying /\ ~Destroying'
              /\ hasError = FALSE
          BY <3>1, <3>2, <3>4, <4>1
          DEF ActivationResults, NoResult, TaskResult,
             TaskResults, TaskMatchesStatus
        <5>2. \/ status' = "unlocked" /\ hasError' = hasError
              \/ status' = "activationRequired" /\ hasError' = hasError
              \/ status' = "activationRequired" /\ hasError' = TRUE
          BY <3>1, <3>2, <3>4, <4>1, <5>1
          DEF ActivationResults, NoResult, TaskResult,
             TaskResults, StatusAfter
        <5> HIDE DEF Operation, IInv
        <5> QED
          BY <5>1, <5>2 DEF Promise!ActivationEnds, Promise!Publish
      <4> QED
        BY <4>2 DEF Promise!Next
    <3>5. CASE currentTask = "refreshAccessWithDelay"
      <4>1. res \in RefreshResults
        BY <2>1, <3>5 DEF ResultsOf
      <4>2. Promise!RefreshEnds \/ UNCHANGED Promise!vars
        <5>1. /\ status = "unlocked" /\ Operation = "refresh"
              /\ hasError = FALSE
              /\ ~Destroying /\ ~Destroying'
          BY <3>1, <3>5 DEF TaskMatchesStatus
        <5>2. \/ /\ status' = "unlocking" /\ Operation' = "unlock"
                 /\ hasError' = hasError
              \/ /\ status' = "activationRequired" /\ Operation' = "none"
                 /\ hasError' = hasError
              \/ /\ status' = status /\ Operation' = "refresh"
                 /\ hasError' = hasError
              \/ /\ status' = status /\ Operation' = "none"
                 /\ hasError' = hasError
              \/ /\ status' = status /\ Operation' = "none"
                 /\ hasError' = TRUE
          BY <3>1, <3>2, <3>5, <4>1, <5>1
          DEF RefreshResults, NoResult, TaskResult,
             TaskResults, StatusAfter
        <5> HIDE DEF Operation, IInv
        <5> QED
          BY <5>1, <5>2 DEF Promise!RefreshEnds, Promise!Publish, Promise!vars
      <4> QED
        BY <4>2 DEF Promise!Next
    <3> QED
      BY <3>1, <3>3, <3>4, <3>5
  <2> QED
    BY <2>1, <2>2, <2>3 DEF HandleTaskResult
<1>19. CASE UNCHANGED vars
    BY <1>19 DEF vars, Promise!vars
<1> QED
    BY <1>1, <1>2, <1>3, <1>4, <1>5, <1>6, <1>7, <1>8, <1>9, <1>10, <1>11,
       <1>12, <1>13, <1>14, <1>15, <1>16, <1>17, <1>18, <1>19
    DEF Next, CallerStep, WorkerStep

\* The two threads implement the status machine: requests take effect at once,
\* only the operation last asked for reports, and none after ~UnlockerImpl()
\* began.
THEOREM Refinement == Spec => ImplementsLicenseStatus
<1>1. Init => Promise!Init
    BY RefineInit
<1>2. IInv /\ [Next]_vars => [Promise!Next]_(Promise!vars)
    BY RefineStep
<1> QED
    BY <1>1, <1>2, Invariant, PTL
    DEF Spec, Promise!Spec, ImplementsLicenseStatus
=============================================================================
