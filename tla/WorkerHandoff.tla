--------------------------- MODULE WorkerHandoff ---------------------------
(***************************************************************************)
(* How UnlockerImpl hands work from the message thread to its worker.      *)
(*                                                                         *)
(* The message thread runs the public operations, the asynchronous update, *)
(* the timer and the destructor; the worker runs UnlockerImpl::run().      *)
(* They share _state, guarded by _stateCriticalSection, and the auto-reset *)
(* event _wakeEvent.  One action is one critical section, or one step      *)
(* between two of them that the other thread can observe.                  *)
(*                                                                         *)
(* What a task does is left to the module Unlocker: here a task ends with  *)
(* any TaskResult its body can return.                                     *)
(***************************************************************************)
VARIABLES
    \* guarded by _stateCriticalSection
    status, hasError, pendingTask, currentTask, breakCurrentTask,
    \* thread plumbing
    wakeEvent, threadShouldExit,
    worker,         \* where the worker is in run()
    workerOwes,     \* what handleTaskResult does after it releases the lock
    caller,         \* where the message thread is
    asyncUpdate,    \* a triggered AsyncUpdater callback is outstanding
    watching,       \* the activation event timer runs
    seenStatus      \* status read by updateActivationEventWatcher()

shared == <<status, hasError, pendingTask, currentTask, breakCurrentTask>>
vars == <<status, hasError, pendingTask, currentTask, breakCurrentTask,
          wakeEvent, threadShouldExit, worker, workerOwes, caller,
          asyncUpdate, watching, seenStatus>>

Statuses == {"undefined", "activationRequired", "unlocking", "unlocked"}

WorkerTask == {"none", "startup", "startupWithDelay", "startActivation",
               "refreshAccessWithDelay"}

StartupTasks == {"startup", "startupWithDelay"}

\* TaskResult: a status to publish ("keep" for nullopt), whether there is an
\* error message, and the task to run next.
TaskResults == [newStatus : Statuses \cup {"keep"},
                newError : BOOLEAN,
                newPendingTask : WorkerTask]

TaskResult(newStatus, newError, newPendingTask) ==
    [newStatus |-> newStatus, newError |-> newError,
     newPendingTask |-> newPendingTask]

NoResult == TaskResult("keep", FALSE, "none")

WorkerPlaces == {"notStarted", "loop", "waiting", "woken", "taking",
                 "running", "notifying", "exited"}

DestructorPlaces == {"dtorSignal", "dtorExit", "dtorJoin", "destroyed"}

CallerPlaces == {"idle", "starting", "clearing", "watcher"}
                    \cup DestructorPlaces

TypeOK ==
    /\ status \in Statuses
    /\ hasError \in BOOLEAN
    /\ pendingTask \in WorkerTask
    /\ currentTask \in WorkerTask
    /\ breakCurrentTask \in BOOLEAN
    /\ wakeEvent \in BOOLEAN
    /\ threadShouldExit \in BOOLEAN
    /\ worker \in WorkerPlaces
    /\ workerOwes \in SUBSET {"update", "wake"}
    /\ caller \in CallerPlaces
    /\ asyncUpdate \in BOOLEAN
    /\ watching \in BOOLEAN
    /\ seenStatus \in Statuses

Init ==
    /\ status = "undefined"
    /\ hasError = FALSE
    /\ pendingTask = "none"
    /\ currentTask = "none"
    /\ breakCurrentTask = FALSE
    /\ wakeEvent = FALSE
    /\ threadShouldExit = FALSE
    /\ worker = "notStarted"
    /\ workerOwes = {}
    /\ caller = "idle"
    /\ asyncUpdate = FALSE
    /\ watching = FALSE
    /\ seenStatus = "undefined"

Destroying == caller \in DestructorPlaces

TaskShouldExit == threadShouldExit \/ breakCurrentTask

-----------------------------------------------------------------------------
(* The message thread: public operations.  Each one changes _state in one  *)
(* critical section and then starts and wakes the worker (CallerNotify).   *)

threads == <<wakeEvent, threadShouldExit, worker, workerOwes, asyncUpdate,
             watching, seenStatus>>

\* Mutant: a request forgets that a task may be running.
LetRunningTaskFinish == UNCHANGED breakCurrentTask

\* breakCurrentTask.store(currentTask != WorkerTask::none)
BreakRunningTask == breakCurrentTask' = (currentTask # "none")

Startup ==
    /\ caller = "idle"
    /\ status = "undefined"
    /\ status' = "unlocking"
    /\ hasError' = FALSE
    /\ pendingTask' = "startup"
    /\ breakCurrentTask' = FALSE
    /\ caller' = "starting"
    /\ UNCHANGED <<currentTask, threads>>

\* prepareStartActivation()
StartActivation ==
    /\ caller = "idle"
    /\ status = "activationRequired"
    /\ hasError' = FALSE
    /\ BreakRunningTask
    /\ pendingTask' = "startActivation"
    /\ caller' = "starting"
    /\ UNCHANGED <<status, currentTask, threads>>

\* prepareRetryUnlocking()
RetryUnlocking ==
    /\ caller = "idle"
    /\ status = "unlocking"
    /\ hasError
    /\ hasError' = FALSE
    /\ BreakRunningTask
    /\ pendingTask' = "startup"
    /\ caller' = "starting"
    /\ UNCHANGED <<status, currentTask, threads>>

\* A timer callback that finds a fresh event of another instance.  Whether it
\* finds one is up to the other instances.
CheckActivationEvent ==
    /\ caller = "idle"
    /\ watching
    /\ status = "activationRequired"
    /\ status' = "unlocking"
    /\ hasError' = FALSE
    /\ BreakRunningTask
    /\ pendingTask' = "startup"
    /\ caller' = "starting"
    /\ UNCHANGED <<currentTask, threads>>

\* applyLogoutState(), up to the end of its critical section
Logout ==
    /\ caller = "idle"
    /\ status' = "activationRequired"
    /\ hasError' = FALSE
    /\ BreakRunningTask
    /\ pendingTask' = "none"
    /\ caller' = "clearing"
    /\ UNCHANGED <<currentTask, threads>>

\* Mutant: like a condition variable, the event wakes only who already waits.
NotifyWaitingOnly ==
    /\ caller \in {"starting", "clearing"}
    /\ worker' = IF caller = "starting" /\ worker = "notStarted"
                 THEN "loop" ELSE worker
    /\ asyncUpdate' = TRUE
    /\ wakeEvent' = (wakeEvent \/ worker = "waiting")
    /\ caller' = "idle"
    /\ UNCHANGED <<shared, threadShouldExit, workerOwes, watching, seenStatus>>

\* What follows the critical section: startWorkerIfNeeded() (not for a
\* logout), triggerAsyncUpdate(), _wakeEvent.signal().
CallerNotify ==
    /\ caller \in {"starting", "clearing"}
    /\ worker' = IF caller = "starting" /\ worker = "notStarted"
                 THEN "loop" ELSE worker
    /\ asyncUpdate' = TRUE
    /\ wakeEvent' = TRUE
    /\ caller' = "idle"
    /\ UNCHANGED <<shared, threadShouldExit, workerOwes, watching, seenStatus>>

-----------------------------------------------------------------------------
(* The message thread: callbacks.                                          *)

HandleAsyncUpdate ==
    /\ caller = "idle"
    /\ asyncUpdate
    /\ asyncUpdate' = FALSE
    /\ seenStatus' = status
    /\ caller' = "watcher"
    /\ UNCHANGED <<shared, wakeEvent, threadShouldExit, worker, workerOwes,
                   watching>>

\* Mutant: the flag of the update is reset when the callback is over.
UpdateWatcherThenResetFlag ==
    /\ caller = "watcher"
    /\ watching' = (seenStatus = "activationRequired")
    /\ asyncUpdate' = FALSE
    /\ caller' = "idle"
    /\ UNCHANGED <<shared, wakeEvent, threadShouldExit, worker, workerOwes,
                   seenStatus>>

\* The timer is started or stopped after the lock of getStatus() is released.
UpdateActivationEventWatcher ==
    /\ caller = "watcher"
    /\ watching' = (seenStatus = "activationRequired")
    /\ caller' = "idle"
    /\ UNCHANGED <<shared, wakeEvent, threadShouldExit, worker, workerOwes,
                   asyncUpdate, seenStatus>>

-----------------------------------------------------------------------------
(* The message thread: ~UnlockerImpl(), statement by statement.            *)

Destroy ==
    /\ caller = "idle"
    /\ pendingTask' = "none"
    /\ breakCurrentTask' = TRUE
    /\ caller' = "dtorSignal"
    /\ UNCHANGED <<status, hasError, currentTask, threads>>

DestructorSignals ==
    /\ caller = "dtorSignal"
    /\ wakeEvent' = TRUE
    /\ caller' = "dtorExit"
    /\ UNCHANGED <<shared, threadShouldExit, worker, workerOwes, asyncUpdate,
                   watching, seenStatus>>

\* signalThreadShouldExit() and the start of stopThread(-1), which notifies
\* the thread's own event and not _wakeEvent.
DestructorSetsExit ==
    /\ caller = "dtorExit"
    /\ threadShouldExit' = TRUE
    /\ caller' = "dtorJoin"
    /\ UNCHANGED <<shared, wakeEvent, worker, workerOwes, asyncUpdate,
                   watching, seenStatus>>

\* Mutant: stopThread with a timeout that runs out.
DestructorGivesUpWaiting ==
    /\ caller = "dtorJoin"
    /\ watching' = FALSE
    /\ asyncUpdate' = FALSE
    /\ caller' = "destroyed"
    /\ UNCHANGED <<shared, wakeEvent, threadShouldExit, worker, workerOwes,
                   seenStatus>>

\* The end of stopThread(-1), then stopTimer() and cancelPendingUpdate().
DestructorJoins ==
    /\ caller = "dtorJoin"
    /\ worker \in {"notStarted", "exited"}
    /\ watching' = FALSE
    /\ asyncUpdate' = FALSE
    /\ caller' = "destroyed"
    /\ UNCHANGED <<shared, wakeEvent, threadShouldExit, worker, workerOwes,
                   seenStatus>>

-----------------------------------------------------------------------------
(* The worker: run() and handleTaskResult().                               *)

message == <<threadShouldExit, caller, watching, seenStatus>>

RunLoop ==
    /\ worker = "loop"
    /\ worker' = IF threadShouldExit THEN "exited" ELSE "waiting"
    /\ UNCHANGED <<shared, wakeEvent, workerOwes, asyncUpdate, message>>

WakeUp ==
    /\ worker = "waiting"
    /\ wakeEvent
    /\ wakeEvent' = FALSE
    /\ worker' = "woken"
    /\ UNCHANGED <<shared, workerOwes, asyncUpdate, message>>

CheckExit ==
    /\ worker = "woken"
    /\ worker' = IF threadShouldExit THEN "exited" ELSE "taking"
    /\ UNCHANGED <<shared, wakeEvent, workerOwes, asyncUpdate, message>>

\* Mutant: the task taken stays queued.
TakeTaskLeavingItQueued ==
    /\ worker = "taking"
    /\ breakCurrentTask' = FALSE
    /\ currentTask' = pendingTask
    /\ worker' = IF pendingTask = "none" THEN "loop" ELSE "running"
    /\ UNCHANGED <<status, hasError, pendingTask, wakeEvent, workerOwes,
                   asyncUpdate, message>>

TakeTask ==
    /\ worker = "taking"
    /\ pendingTask' = "none"
    /\ breakCurrentTask' = FALSE
    /\ currentTask' = pendingTask
    /\ worker' = IF pendingTask = "none" THEN "loop" ELSE "running"
    /\ UNCHANGED <<status, hasError, wakeEvent, workerOwes, asyncUpdate,
                   message>>

StartupVerdicts ==
    {TaskResult("unlocking", TRUE, "none"),
     TaskResult("activationRequired", FALSE, "none"),
     TaskResult("unlocked", FALSE, "none"),
     TaskResult("unlocked", FALSE, "refreshAccessWithDelay"),
     TaskResult("keep", FALSE, "startupWithDelay"),
     TaskResult("keep", TRUE, "none")}

\* Mutant: a failed request ends a startup without a result, as in a refresh.
StartupResultsOrSilence == StartupVerdicts \cup {NoResult}

\* A startup task returns an empty result only where it found taskShouldExit().
StartupResults ==
    StartupVerdicts \cup (IF TaskShouldExit THEN {NoResult} ELSE {})

\* An activation returns one also when the redirect of the browser was refused.
ActivationResults ==
    {TaskResult("activationRequired", TRUE, "none"),
     TaskResult("unlocked", FALSE, "none"),
     TaskResult("keep", TRUE, "none"),
     NoResult}

\* A refresh returns one also when it failed, succeeded or was not due.
RefreshResults ==
    {TaskResult("unlocking", FALSE, "startup"),
     TaskResult("activationRequired", FALSE, "none"),
     TaskResult("keep", FALSE, "refreshAccessWithDelay"),
     TaskResult("keep", TRUE, "none"),
     NoResult}

\* runTask()
ResultsOf(task) ==
    CASE task \in StartupTasks -> StartupResults
      [] task = "startActivation" -> ActivationResults
      [] task = "refreshAccessWithDelay" -> RefreshResults
      [] OTHER -> {NoResult}

StatusAfter(res) == IF res.newStatus = "keep" THEN status ELSE res.newStatus

\* Mutant: the follow-up task is queued, and nothing wakes the worker.
OwedWithoutWake(res) ==
    {owed \in {"update"} : res.newStatus # "keep" \/ res.newError}

\* Mutant: listeners hear of errors only.
OwedOnErrorOnly(res) ==
    {owed \in {"update", "wake"} :
        \/ owed = "update" /\ res.newError
        \/ owed = "wake" /\ res.newPendingTask # "none"}

\* shouldTriggerUpdate and shouldWake
Owed(res) ==
    {owed \in {"update", "wake"} :
        \/ owed = "update" /\ (res.newStatus # "keep" \/ res.newError)
        \/ owed = "wake" /\ res.newPendingTask # "none"}

\* The branch of handleTaskResult that ignores what a superseded task found
DropResult ==
    /\ breakCurrentTask
    /\ breakCurrentTask' = FALSE
    /\ worker' = "loop"
    /\ UNCHANGED <<status, hasError, pendingTask, workerOwes>>

ApplyResult(res) ==
    /\ ~breakCurrentTask
    /\ status' = StatusAfter(res)
    /\ hasError' = (hasError \/ res.newError)
    /\ pendingTask' = IF res.newPendingTask = "none"
                      THEN pendingTask ELSE res.newPendingTask
    /\ workerOwes' = Owed(res)
    /\ worker' = "notifying"
    /\ UNCHANGED breakCurrentTask

HandleTaskResult(res) ==
    /\ worker = "running"
    /\ currentTask' = "none"
    /\ DropResult \/ ApplyResult(res)
    /\ UNCHANGED <<wakeEvent, asyncUpdate, message>>

TaskEnds == \E res \in ResultsOf(currentTask) : HandleTaskResult(res)

\* triggerAsyncUpdate() and _wakeEvent.signal(), as far as they are owed
WorkerNotify ==
    /\ worker = "notifying"
    /\ asyncUpdate' = (asyncUpdate \/ "update" \in workerOwes)
    /\ wakeEvent' = (wakeEvent \/ "wake" \in workerOwes)
    /\ workerOwes' = {}
    /\ worker' = "loop"
    /\ UNCHANGED <<shared, message>>

-----------------------------------------------------------------------------
CallerStep ==
    \/ CallerNotify
    \/ UpdateActivationEventWatcher
    \/ DestructorSignals
    \/ DestructorSetsExit
    \/ DestructorJoins

WorkerStep ==
    \/ RunLoop
    \/ WakeUp
    \/ CheckExit
    \/ TakeTask
    \/ WorkerNotify

Next ==
    \/ Startup
    \/ StartActivation
    \/ RetryUnlocking
    \/ CheckActivationEvent
    \/ Logout
    \/ Destroy
    \/ HandleAsyncUpdate
    \/ CallerStep
    \/ WorkerStep
    \/ TaskEnds

Spec == Init /\ [][Next]_vars

(* Both threads keep running.  A task ends by itself: requests have        *)
(* timeouts and delays are bounded; only an activation waits for a user,   *)
(* and that wait polls breakCurrentTask.  AuthCallback shows this, but     *)
(* for a client of the local port that keeps sending a request without an  *)
(* end: that none does is assumed here.  The message queue delivers a      *)
(* posted update, however often the thread is busy with something else.    *)
Fairness ==
    /\ WF_vars(CallerStep)
    /\ WF_vars(WorkerStep)
    /\ WF_vars(TaskEnds /\ (currentTask # "startActivation" \/ breakCurrentTask))
    /\ SF_vars(HandleAsyncUpdate)

FairSpec == Spec /\ Fairness

-----------------------------------------------------------------------------
(* Properties.                                                             *)

\* A task is only ever queued, or still allowed to report, while the status
\* is the one it was started for: a result that arrives late (after a logout,
\* another activation, a retry) finds breakCurrentTask set and cannot undo
\* what the newer request published (prepare*, handleTaskResult).
TaskMatchesStatus ==
    \A task \in {pendingTask} \cup (IF breakCurrentTask THEN {} ELSE {currentTask}) :
        /\ task \in StartupTasks => status = "unlocking" /\ ~hasError
        /\ task = "startActivation" => status = "activationRequired" /\ ~hasError
        /\ task = "refreshAccessWithDelay" => status = "unlocked" /\ ~hasError

\* While the status says unlocking without an error, a startup task is queued
\* or running unbroken, so that the user is never left in a state with
\* neither a result to come nor a retry to press.
UnlockingHasWork ==
    status = "unlocking" /\ ~hasError /\ ~Destroying =>
        \/ pendingTask \in StartupTasks
        \/ currentTask \in StartupTasks /\ ~breakCurrentTask

\* A queued task cannot be forgotten: the wake event is set, or a thread that
\* is about to look at pendingTask or to set the event is on its way there.
NoLostWakeup ==
    pendingTask # "none" =>
        \/ wakeEvent
        \/ worker \in {"woken", "taking"} /\ ~threadShouldExit
        \/ caller = "starting"
        \/ worker = "notifying" /\ "wake" \in workerOwes

\* Once every notification is delivered, the activation event timer runs
\* exactly when an activation elsewhere would matter.
WatcherSettled ==
    /\ caller = "idle"
    /\ ~asyncUpdate
    /\ "update" \notin workerOwes
    => (watching <=> status = "activationRequired")

\* Nothing of a destroyed unlocker is left to run: no thread, no timer, no
\* queued callback that would touch freed members.
QuietAfterDestructor ==
    caller = "destroyed" =>
        /\ worker \in {"notStarted", "exited"}
        /\ ~watching
        /\ ~asyncUpdate

\* Every queued task is taken up (or withdrawn): no interleaving of wake-ups,
\* breaks and notifications leaves the worker asleep on it.
PendingIsTaken == pendingTask # "none" ~> pendingTask = "none"

\* Unlocker.h:77 says of ~Unlocker() that it "Stops background work and
\* releases resources owned by the unlocker": a destructor that has begun
\* returns.
DestructorReturns == caller = "dtorSignal" ~> caller = "destroyed"

-----------------------------------------------------------------------------
(* The status machine that the handoff implements.                         *)

OperationOf(task) ==
    CASE task \in StartupTasks -> "unlock"
      [] task = "startActivation" -> "activate"
      [] task = "refreshAccessWithDelay" -> "refresh"
      [] OTHER -> "none"

\* A queued task is the operation in progress, else the running one if it
\* has not been superseded.
Operation ==
    IF pendingTask # "none" THEN OperationOf(pendingTask)
    ELSE IF breakCurrentTask THEN "none" ELSE OperationOf(currentTask)

Promise == INSTANCE LicenseStatus
             WITH operation <- Operation, closed <- Destroying

\* Seen from outside, the two threads together behave as the status machine:
\* requests take effect at once, and only the operation last asked for can
\* change the status, at most once, and never after the destructor began.
ImplementsLicenseStatus == Promise!Spec
=============================================================================
