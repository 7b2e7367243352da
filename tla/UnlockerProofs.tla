--------------------------- MODULE UnlockerProofs ---------------------------
(***************************************************************************)
(* The safety properties of Unlocker, and that the bodies of its tasks     *)
(* implement WorkerHandoff.  What is proved of the two threads in          *)
(* WorkerHandoffProofs is used as it is, once each step of a task is known *)
(* to be a step of the hand-over or invisible to it.                       *)
(***************************************************************************)
EXTENDS Unlocker, TLAPS

HP == INSTANCE WorkerHandoffProofs

-----------------------------------------------------------------------------
(* The hand-over.                                                          *)

\* Where a body is belongs to the task that runs, and the result it returns
\* is one of those of the task.
BodyPlaced ==
    /\ step \in Steps
    /\ worker = "running" <=> step # "idle"
    /\ step \in {"loadAccess", "publishSaved", "decideRefresh", "lock", "receive",
                 "check", "write", "rejectId", "rejectAccess", "rejectState"}
         => Starting \/ Refreshing
    /\ step \in {"browser", "complete", "checkIdentity", "writeId", "writeAccess"}
         => Activating
    /\ step = "finished" => result \in H!ResultsOf(currentTask)

\* Both instances of WorkerHandoff are the same: what one calls a step is one
\* of the other.
LEMMA OneHandoff ==
    /\ H!Init => HP!Init
    /\ [H!Next]_(H!vars) => [HP!Next]_(HP!vars)
BY Zenon
DEF H!Init, HP!Init, H!Next, HP!Next, H!vars, HP!vars, H!Startup, HP!Startup,
    H!StartActivation, HP!StartActivation, H!RetryUnlocking, HP!RetryUnlocking,
    H!CheckActivationEvent, HP!CheckActivationEvent, H!Logout, HP!Logout,
    H!Destroy, HP!Destroy, H!HandleAsyncUpdate, HP!HandleAsyncUpdate,
    H!CallerStep, HP!CallerStep, H!WorkerStep, HP!WorkerStep,
    H!TaskEnds, HP!TaskEnds, H!CallerNotify, HP!CallerNotify,
    H!UpdateActivationEventWatcher, HP!UpdateActivationEventWatcher,
    H!DestructorSignals, HP!DestructorSignals,
    H!DestructorSetsExit, HP!DestructorSetsExit,
    H!DestructorJoins, HP!DestructorJoins, H!RunLoop, HP!RunLoop,
    H!WakeUp, HP!WakeUp, H!CheckExit, HP!CheckExit, H!TakeTask, HP!TakeTask,
    H!WorkerNotify, HP!WorkerNotify, H!shared, HP!shared, H!threads, HP!threads,
    H!message, HP!message, H!BreakRunningTask, HP!BreakRunningTask,
    H!ResultsOf, HP!ResultsOf, H!HandleTaskResult, HP!HandleTaskResult,
    H!StartupTasks, HP!StartupTasks, H!StartupResults, HP!StartupResults,
    H!ActivationResults, HP!ActivationResults, H!RefreshResults, HP!RefreshResults,
    H!StartupVerdicts, HP!StartupVerdicts, H!TaskResult, HP!TaskResult,
    H!NoResult, HP!NoResult, H!TaskShouldExit, HP!TaskShouldExit,
    H!DropResult, HP!DropResult, H!ApplyResult, HP!ApplyResult,
    H!StatusAfter, HP!StatusAfter, H!Owed, HP!Owed

\* What the invariant of the hand-over says of the variables used here.
LEMMA HandoffFacts ==
    ASSUME HP!IInv
    PROVE  /\ {pendingTask, currentTask} \subseteq
                {"none", "startup", "startupWithDelay", "startActivation",
                 "refreshAccessWithDelay"}
           /\ {breakCurrentTask, threadShouldExit} \subseteq BOOLEAN
           /\ worker = "running" <=> currentTask # "none"
           /\ status = "undefined" => worker = "notStarted"
           /\ pendingTask # "none" /\ currentTask # "none" => breakCurrentTask
           /\ H!Destroying => pendingTask = "none"
           /\ H!Destroying /\ currentTask # "none" => breakCurrentTask
           /\ pendingTask \in {"startup", "startupWithDelay"} => status = "unlocking"
           /\ pendingTask = "startActivation" => status = "activationRequired"
           /\ pendingTask = "refreshAccessWithDelay" => status = "unlocked"
           /\ ~breakCurrentTask =>
                /\ Starting => status = "unlocking"
                /\ Activating => status = "activationRequired"
                /\ Refreshing => status = "unlocked"
BY DEF HP!IInv, HP!TypeOK, HP!WorkerTask, HP!WorkerPlaced, HP!UndefinedIsQuiet,
       HP!QueuedBreaksRunning, HP!DestructorWithdraws, HP!TaskMatchesStatus,
       HP!StartupTasks, HP!Destroying, HP!DestructorPlaces, H!Destroying,
       H!DestructorPlaces, Starting, Activating, Refreshing, H!StartupTasks

\* Every step is one of the hand-over or invisible to it.
LEMMA StepIsHandoff == BodyPlaced /\ [Next]_vars => [H!Next]_(H!vars)
<1> SUFFICES ASSUME BodyPlaced, [Next]_vars PROVE H!Next \/ UNCHANGED H!vars
  OBVIOUS
<1>1. UNCHANGED handoffVars => UNCHANGED H!vars
  BY DEF handoffVars, H!vars
<1>2. CASE LogoutDeletes \/ Tick \/ OtherInstanceWrites
  BY <1>1, <1>2 DEF LogoutDeletes, Tick, OtherInstanceWrites
<1>3. CASE TaskBody
  BY <1>1, <1>3
  DEF TaskBody, unseen, BeginStartup, BeginRefresh, BeginActivation, LoadAccess,
      PublishSaved, DecideRefresh, LockIsTaken, LockAcquired, ReceiveAccess,
      CheckBeforeWrite, WriteAccess, Publish, RejectIdToken, RejectAccessToken,
      RejectState, BrowserReturns, CompleteAuth, CheckIdentity, WriteIdentity,
      WriteActivatedAccess
<1>4. CASE HandleTaskResult
  <2>1. H!HandleTaskResult(result) /\ result \in H!ResultsOf(currentTask)
    BY <1>4 DEF HandleTaskResult, BodyPlaced
  <2> QED
    BY <2>1 DEF H!Next, H!TaskEnds
<1>5. CASE \/ Startup \/ StartActivation \/ RetryUnlocking \/ CheckActivationEvent
           \/ Logout \/ Destroy \/ HandleAsyncUpdate \/ CallerContinues
  BY <1>5
  DEF Startup, StartActivation, RetryUnlocking, CheckActivationEvent, Logout,
      Destroy, HandleAsyncUpdate, CallerContinues, H!Next
<1>6. CASE WorkerContinues \/ TakeTask
  BY <1>6 DEF WorkerContinues, TakeTask, H!Next, H!WorkerStep
<1>7. CASE UNCHANGED vars
  BY <1>1, <1>7 DEF vars
<1> QED
  BY <1>2, <1>3, <1>4, <1>5, <1>6, <1>7 DEF Next

\* How the steps outside of the bodies leave the task that runs: some not at
\* all, and requests only break it.
LEMMA OutsideSteps ==
    ASSUME HP!IInv, [Next]_vars, ~TaskBody, ~TakeTask, ~HandleTaskResult
    PROVE  /\ UNCHANGED <<step, token, result, currentTask>>
           /\ worker = "running" <=> worker' = "running"
           /\ H!TaskShouldExit => H!TaskShouldExit' \/ worker # "running"
           /\ breakCurrentTask => breakCurrentTask' \/ worker # "running"
           /\ status' # status => status' # "unlocked"
           /\ validated' # validated => validated' = NoToken
<1> USE HandoffFacts
        DEF locals, handoffVars, H!TaskShouldExit, H!BreakRunningTask, H!threads,
            H!shared, H!message
<1>1. CASE Startup
  BY <1>1 DEF Startup, H!Startup
<1>2. CASE StartActivation
  BY <1>2 DEF StartActivation, H!StartActivation
<1>3. CASE RetryUnlocking
  BY <1>3 DEF RetryUnlocking, H!RetryUnlocking
<1>4. CASE CheckActivationEvent
  BY <1>4 DEF CheckActivationEvent, H!CheckActivationEvent
<1>5. CASE Logout
  BY <1>5 DEF Logout, H!Logout
<1>6. CASE LogoutDeletes \/ Tick \/ OtherInstanceWrites
  BY <1>6 DEF LogoutDeletes, Tick, OtherInstanceWrites
<1>7. CASE CallerContinues
  BY <1>7 DEF CallerContinues, H!CallerStep, H!CallerNotify,
              H!UpdateActivationEventWatcher, H!DestructorSignals,
              H!DestructorSetsExit, H!DestructorJoins
<1>8. CASE HandleAsyncUpdate
  BY <1>8 DEF HandleAsyncUpdate, H!HandleAsyncUpdate
<1>9. CASE Destroy
  BY <1>9 DEF Destroy, H!Destroy
<1>10. CASE WorkerContinues
  BY <1>10 DEF WorkerContinues, H!RunLoop, H!WakeUp, H!CheckExit, H!WorkerNotify
<1>11. CASE UNCHANGED vars
  BY <1>11 DEF vars
<1> QED
  BY <1>1, <1>2, <1>3, <1>4, <1>5, <1>6, <1>7, <1>8, <1>9, <1>10, <1>11 DEF Next

LEMMA PlacedStep == HP!IInv /\ BodyPlaced /\ [Next]_vars => BodyPlaced'
<1> SUFFICES ASSUME HP!IInv, BodyPlaced, [Next]_vars PROVE BodyPlaced'
  OBVIOUS
<1> USE HandoffFacts DEF Starting, Refreshing, Activating, H!StartupTasks
<1>1. CASE ~TaskBody /\ ~TakeTask /\ ~HandleTaskResult
  <2>1. /\ UNCHANGED <<step, result, currentTask>>
        /\ worker = "running" <=> worker' = "running"
        /\ H!TaskShouldExit => H!TaskShouldExit' \/ worker # "running"
    BY <1>1, OutsideSteps
  <2>2. step = "finished" => H!ResultsOf(currentTask) \subseteq H!ResultsOf(currentTask)'
    BY <2>1 DEF BodyPlaced, H!ResultsOf, H!StartupResults, H!StartupVerdicts,
                H!ActivationResults, H!RefreshResults
  <2> QED
    BY <2>1, <2>2 DEF BodyPlaced
<1>2. CASE TakeTask
  BY <1>2 DEF TakeTask, H!TakeTask, BodyPlaced, Steps
<1>3. CASE HandleTaskResult
  BY <1>3 DEF HandleTaskResult, H!HandleTaskResult, H!DropResult, H!ApplyResult,
              BodyPlaced, Steps
<1>4. CASE TaskBody
  <2>1. /\ worker = "running"
        /\ UNCHANGED <<worker, currentTask, breakCurrentTask, threadShouldExit>>
    BY <1>4
    DEF TaskBody, unseen, handoffVars, BeginStartup, BeginRefresh, BeginActivation,
        LoadAccess, PublishSaved, DecideRefresh, LockIsTaken, LockAcquired,
        ReceiveAccess, CheckBeforeWrite, WriteAccess, Publish, RejectIdToken,
        RejectAccessToken, RejectState, BrowserReturns, CompleteAuth,
        CheckIdentity, WriteIdentity, WriteActivatedAccess
  <2>2. H!ResultsOf(currentTask)' = H!ResultsOf(currentTask)
    BY <2>1 DEF H!ResultsOf, H!StartupResults, H!StartupVerdicts,
                H!ActivationResults, H!RefreshResults, H!TaskShouldExit
  <2>3. currentTask # "none" /\ step # "idle"
    BY <2>1 DEF BodyPlaced
  <2> USE <2>1, <2>2, <2>3
          DEF BodyPlaced, Steps, Goto, ReturnNothing, Return, RequestFailed, H!NoResult,
              H!TaskResult, H!ResultsOf, H!StartupResults, H!StartupVerdicts,
              H!ActivationResults, H!RefreshResults
  <2>4. CASE BeginStartup
    BY <2>4 DEF BeginStartup
  <2>5. CASE BeginRefresh
    BY <2>5 DEF BeginRefresh
  <2>6. CASE BeginActivation
    BY <2>6 DEF BeginActivation
  <2>7. CASE LoadAccess
    BY <2>7 DEF LoadAccess
  <2>8. CASE PublishSaved
    BY <2>8 DEF PublishSaved
  <2>9. CASE DecideRefresh
    BY <2>9 DEF DecideRefresh
  <2>10. CASE LockIsTaken
    BY <2>10 DEF LockIsTaken
  <2>11. CASE LockAcquired
    BY <2>11 DEF LockAcquired
  <2>12. CASE ReceiveAccess
    BY <2>12 DEF ReceiveAccess
  <2>13. CASE CheckBeforeWrite
    BY <2>13 DEF CheckBeforeWrite
  <2>14. CASE WriteAccess
    BY <2>14 DEF WriteAccess
  <2>15. CASE Publish
    BY <2>15 DEF Publish
  <2>16. CASE RejectIdToken
    BY <2>16 DEF RejectIdToken
  <2>17. CASE RejectAccessToken
    BY <2>17 DEF RejectAccessToken
  <2>18. CASE RejectState
    BY <2>18 DEF RejectState
  <2>19. CASE BrowserReturns
    BY <2>19 DEF BrowserReturns
  <2>20. CASE CompleteAuth
    BY <2>20 DEF CompleteAuth
  <2>21. CASE CheckIdentity
    BY <2>21 DEF CheckIdentity
  <2>22. CASE WriteIdentity
    BY <2>22 DEF WriteIdentity
  <2>23. CASE WriteActivatedAccess
    BY <2>23 DEF WriteActivatedAccess
  <2> QED
    BY <1>4, <2>4, <2>5, <2>6, <2>7, <2>8, <2>9, <2>10, <2>11, <2>12, <2>13, <2>14, <2>15, <2>16, <2>17, <2>18, <2>19, <2>20, <2>21, <2>22, <2>23 DEF TaskBody
<1> QED
  BY <1>1, <1>2, <1>3, <1>4

LEMMA PlacedInit == Init => BodyPlaced
BY DEF Init, H!Init, BodyPlaced, Steps, Starting, Refreshing, Activating, H!StartupTasks

LEMMA HandoffInit == Init => HP!IInv
BY OneHandoff, HP!InitInv DEF Init

LEMMA HandoffStep == HP!IInv /\ BodyPlaced /\ [Next]_vars => HP!IInv'
BY OneHandoff, StepIsHandoff, HP!InvStep

-----------------------------------------------------------------------------
(* The published token.                                                    *)

\* An unlocked product is worked on by a refresh only, and only the
\* destructor breaks that.
UnlockedIsLeftAlone ==
    status = "unlocked" =>
        /\ currentTask \in {"none", "refreshAccessWithDelay"}
        /\ breakCurrentTask => H!Destroying

\* Until it says otherwise a refresh has the published token it was queued
\* for, and a task that returns an unlock has published one, unless broken.
TokenIsPublished ==
    ~breakCurrentTask =>
        /\ step = "decideRefresh" => validated # NoToken
        /\ step = "finished" /\ result.newStatus = "unlocked" => validated # NoToken
        /\ /\ Refreshing
           /\ \/ step \in {"begin", "loadAccess", "publishSaved", "lock", "receive",
                           "check", "write", "publish"}
              \/ step = "finished" /\ result.newStatus = "keep"
           => validated # NoToken

\* A refresh that ends with another status has withdrawn the token.
RefreshWithdraws ==
    Refreshing /\ step = "finished" /\ result.newStatus # "keep" => validated = NoToken

TokenInv ==
    UnlockedIsLeftAlone /\ TokenIsPublished /\ RefreshWithdraws /\ UnlockedHasToken

LEMMA TokenInit == Init => TokenInv
BY DEF Init, H!Init, TokenInv, UnlockedIsLeftAlone, TokenIsPublished,
       RefreshWithdraws, UnlockedHasToken, Refreshing

\* The results of the tasks by their statuses
LEMMA ResultStatuses ==
    ASSUME BodyPlaced, step = "finished"
    PROVE  /\ Starting => result.newStatus \in {"unlocking", "activationRequired", "unlocked", "keep"}
           /\ Activating => result.newStatus \in {"activationRequired", "unlocked", "keep"}
           /\ Refreshing => result.newStatus \in {"unlocking", "activationRequired", "keep"}
BY DEF BodyPlaced, H!ResultsOf, H!StartupResults, H!StartupVerdicts,
       H!ActivationResults, H!RefreshResults, H!NoResult, H!TaskResult,
       Starting, Activating, Refreshing, H!StartupTasks

\* A request leaves an unlocked product alone, locks it, or destroys it.
LEMMA RequestsOnUnlocked ==
    ASSUME HP!IInv, [Next]_vars, ~TaskBody, ~TakeTask, ~HandleTaskResult
    PROVE  /\ H!Destroying => H!Destroying'
           /\ status = "unlocked" =>
                status' = status \/ (validated' = NoToken /\ caller' = "clearing")
           /\ \/ UNCHANGED <<status, breakCurrentTask, validated>>
              \/ H!Destroying' /\ breakCurrentTask' /\ UNCHANGED <<status, validated>>
              \/ status' # "unlocked" /\ breakCurrentTask' = (currentTask # "none")
<1> USE HandoffFacts
        DEF locals, handoffVars, H!BreakRunningTask, H!threads, H!shared, H!message,
            H!Destroying, H!DestructorPlaces
<1>1. CASE Startup
  BY <1>1 DEF Startup, H!Startup
<1>2. CASE StartActivation
  BY <1>2 DEF StartActivation, H!StartActivation
<1>3. CASE RetryUnlocking
  BY <1>3 DEF RetryUnlocking, H!RetryUnlocking
<1>4. CASE CheckActivationEvent
  BY <1>4 DEF CheckActivationEvent, H!CheckActivationEvent
<1>5. CASE Logout
  BY <1>5 DEF Logout, H!Logout
<1>6. CASE LogoutDeletes \/ Tick \/ OtherInstanceWrites
  BY <1>6 DEF LogoutDeletes, Tick, OtherInstanceWrites
<1>7. CASE CallerContinues
  BY <1>7 DEF CallerContinues, H!CallerStep, H!CallerNotify,
              H!UpdateActivationEventWatcher, H!DestructorSignals,
              H!DestructorSetsExit, H!DestructorJoins
<1>8. CASE HandleAsyncUpdate
  BY <1>8 DEF HandleAsyncUpdate, H!HandleAsyncUpdate
<1>9. CASE Destroy
  BY <1>9 DEF Destroy, H!Destroy
<1>10. CASE WorkerContinues
  BY <1>10 DEF WorkerContinues, H!RunLoop, H!WakeUp, H!CheckExit, H!WorkerNotify
<1>11. CASE UNCHANGED vars
  BY <1>11 DEF vars
<1> QED
  BY <1>1, <1>2, <1>3, <1>4, <1>5, <1>6, <1>7, <1>8, <1>9, <1>10, <1>11 DEF Next

LEMMA TokenStep == HP!IInv /\ BodyPlaced /\ TokenInv /\ [Next]_vars => TokenInv'
<1> SUFFICES ASSUME HP!IInv, BodyPlaced, TokenInv, [Next]_vars PROVE TokenInv'
  OBVIOUS
<1> USE HandoffFacts
        DEF TokenInv, UnlockedIsLeftAlone, TokenIsPublished, RefreshWithdraws,
            UnlockedHasToken, Starting, Refreshing, Activating, H!StartupTasks
<1>1. CASE ~TaskBody /\ ~TakeTask /\ ~HandleTaskResult
  <2>1. /\ UNCHANGED <<step, result, currentTask>>
        /\ breakCurrentTask => breakCurrentTask' \/ worker # "running"
        /\ status' # status => status' # "unlocked"
        /\ validated' # validated => validated' = NoToken
    BY <1>1, OutsideSteps
  <2>2. /\ H!Destroying => H!Destroying'
        /\ \/ UNCHANGED <<status, breakCurrentTask, validated>>
           \/ H!Destroying' /\ breakCurrentTask' /\ UNCHANGED <<status, validated>>
           \/ status' # "unlocked" /\ breakCurrentTask' = (currentTask # "none")
    BY <1>1, RequestsOnUnlocked
  <2>3. /\ worker = "running" <=> currentTask # "none"
        /\ worker = "running" <=> step # "idle"
        /\ {breakCurrentTask} \subseteq BOOLEAN
    BY DEF BodyPlaced
  <2>4. UnlockedIsLeftAlone'
    BY <2>1, <2>2, <2>3
  <2>5. TokenIsPublished'
    BY <2>1, <2>2, <2>3
  <2>6. RefreshWithdraws'
    BY <2>1, <2>2, <2>3
  <2>7. UnlockedHasToken'
    BY <2>1, <2>2, <2>3
  <2> QED
    BY <2>4, <2>5, <2>6, <2>7
<1>2. CASE TakeTask
  BY <1>2 DEF TakeTask, H!TakeTask, BodyPlaced, H!message, H!Destroying
<1>3. CASE HandleTaskResult
  <2>1. step = "finished" /\ step' = "idle" /\ currentTask' = "none"
    BY <1>3 DEF HandleTaskResult, H!HandleTaskResult
  <2>2. UNCHANGED <<validated, caller>>
    BY <1>3 DEF HandleTaskResult, H!HandleTaskResult, H!message
  <2>3. CASE H!DropResult
    BY <2>1, <2>2, <2>3 DEF H!DropResult, H!Destroying
  <2>4. CASE H!ApplyResult(result)
    <3>1. /\ ~breakCurrentTask /\ ~breakCurrentTask'
          /\ status' = IF result.newStatus = "keep" THEN status ELSE result.newStatus
      BY <2>4 DEF H!ApplyResult, H!StatusAfter
    <3> QED
      BY <2>1, <2>2, <3>1, ResultStatuses DEF BodyPlaced, H!Destroying
  <2> QED
    BY <1>3, <2>3, <2>4 DEF HandleTaskResult, H!HandleTaskResult
<1>4. CASE TaskBody
  <2>1. worker = "running" /\ currentTask # "none"
    BY <1>4 DEF TaskBody
  <2>2. \A t : IsValid(t) => t # NoToken
    BY TokenAssumption DEF IsValid
  <2> USE <2>1, <2>2
          DEF BodyPlaced, Goto, ReturnNothing, Return, RequestFailed, H!NoResult,
              H!TaskResult, unseen, handoffVars, H!Destroying
  <2>3. CASE BeginStartup
    BY <2>3 DEF BeginStartup
  <2>4. CASE BeginRefresh
    BY <2>4 DEF BeginRefresh
  <2>5. CASE BeginActivation
    BY <2>5 DEF BeginActivation
  <2>6. CASE LoadAccess
    BY <2>6 DEF LoadAccess
  <2>7. CASE PublishSaved
    BY <2>7 DEF PublishSaved
  <2>8. CASE DecideRefresh
    BY <2>8 DEF DecideRefresh
  <2>9. CASE LockIsTaken
    BY <2>9 DEF LockIsTaken
  <2>10. CASE LockAcquired
    BY <2>10 DEF LockAcquired
  <2>11. CASE ReceiveAccess
    BY <2>11 DEF ReceiveAccess
  <2>12. CASE CheckBeforeWrite
    BY <2>12 DEF CheckBeforeWrite
  <2>13. CASE WriteAccess
    BY <2>13 DEF WriteAccess
  <2>14. CASE Publish
    BY <2>14 DEF Publish
  <2>15. CASE RejectIdToken
    BY <2>15 DEF RejectIdToken
  <2>16. CASE RejectAccessToken
    BY <2>16 DEF RejectAccessToken
  <2>17. CASE RejectState
    BY <2>17 DEF RejectState
  <2>18. CASE BrowserReturns
    BY <2>18 DEF BrowserReturns
  <2>19. CASE CompleteAuth
    BY <2>19 DEF CompleteAuth
  <2>20. CASE CheckIdentity
    BY <2>20 DEF CheckIdentity
  <2>21. CASE WriteIdentity
    BY <2>21 DEF WriteIdentity
  <2>22. CASE WriteActivatedAccess
    BY <2>22 DEF WriteActivatedAccess
  <2> QED
    BY <1>4, <2>3, <2>4, <2>5, <2>6, <2>7, <2>8, <2>9, <2>10, <2>11, <2>12, <2>13, <2>14, <2>15, <2>16, <2>17, <2>18, <2>19, <2>20, <2>21, <2>22 DEF TaskBody
<1> QED
  BY <1>1, <1>2, <1>3, <1>4

-----------------------------------------------------------------------------
(* The identity on disk.                                                   *)

\* Files are deleted by a logout whose critical section has left nothing that
\* could publish a status.
ClearingIsQuiet ==
    /\ toDelete # {} => caller = "clearing"
    /\ caller = "clearing" =>
         /\ status = "activationRequired"
         /\ pendingTask = "none"
         /\ currentTask # "none" => breakCurrentTask

\* A task on its way to an unlock, or to keeping one, has found or written the
\* identity, unless broken.
IdentityAtHand ==
    ~others /\ ~breakCurrentTask =>
        /\ /\ Starting
           /\ step \in {"loadAccess", "publishSaved", "decideRefresh", "lock", "receive",
                        "check", "write", "publish"}
           => idTokenFile
        /\ Activating /\ step \in {"writeAccess", "publish"} => idTokenFile
        /\ step = "finished" /\ result.newStatus = "unlocked" => idTokenFile
        /\ /\ Refreshing
           /\ \/ step \in {"begin", "loadAccess", "publishSaved", "decideRefresh", "lock",
                           "receive", "check", "write", "publish"}
              \/ step = "finished" /\ result.newStatus = "keep"
           => idTokenFile

FileInv == ClearingIsQuiet /\ IdentityAtHand /\ UnlockedIsPersisted

LEMMA FileInit == Init => FileInv
BY DEF Init, H!Init, FileInv, ClearingIsQuiet, IdentityAtHand, UnlockedIsPersisted

LEMMA FileStep ==
    HP!IInv /\ BodyPlaced /\ UnlockedIsLeftAlone /\ FileInv /\ [Next]_vars => FileInv'
<1> SUFFICES ASSUME HP!IInv, BodyPlaced, UnlockedIsLeftAlone, FileInv, [Next]_vars
             PROVE  FileInv'
  OBVIOUS
<1>1. /\ worker = "running" <=> currentTask # "none"
      /\ worker = "running" <=> step # "idle"
  BY HandoffFacts DEF BodyPlaced
<1> USE <1>1, HandoffFacts
        DEF FileInv, ClearingIsQuiet, IdentityAtHand, UnlockedIsPersisted,
            UnlockedIsLeftAlone, Starting, Refreshing, Activating, H!StartupTasks,
            H!Destroying, H!DestructorPlaces, locals, files, handoffVars,
            H!BreakRunningTask, H!threads, H!shared, H!message
<1>2. CASE TakeTask
  BY <1>2 DEF TakeTask, H!TakeTask
<1>3. CASE HandleTaskResult
  <2>1. step = "finished" /\ step' = "idle" /\ currentTask' = "none"
    BY <1>3 DEF HandleTaskResult, H!HandleTaskResult
  <2>2. UNCHANGED <<idTokenFile, caller, toDelete, others>>
    BY <1>3 DEF HandleTaskResult, H!HandleTaskResult
  <2>3. CASE H!DropResult
    BY <2>1, <2>2, <2>3 DEF H!DropResult
  <2>4. CASE H!ApplyResult(result)
    <3>1. /\ ~breakCurrentTask /\ ~breakCurrentTask'
          /\ status' = IF result.newStatus = "keep" THEN status ELSE result.newStatus
      BY <2>4 DEF H!ApplyResult, H!StatusAfter
    <3>2. currentTask # "none"
      BY <2>1
    <3> QED
      BY <2>1, <2>2, <3>1, <3>2, ResultStatuses
  <2> QED
    BY <1>3, <2>3, <2>4 DEF HandleTaskResult, H!HandleTaskResult
<1>4. CASE TaskBody
  <2>1. worker = "running" /\ currentTask # "none"
    BY <1>4 DEF TaskBody
  <2> USE <2>1
          DEF BodyPlaced, Goto, ReturnNothing, Return, RequestFailed, H!NoResult,
              H!TaskResult, unseen
  <2>2. CASE BeginStartup
    BY <2>2 DEF BeginStartup
  <2>3. CASE BeginRefresh
    BY <2>3 DEF BeginRefresh
  <2>4. CASE BeginActivation
    BY <2>4 DEF BeginActivation
  <2>5. CASE LoadAccess
    BY <2>5 DEF LoadAccess
  <2>6. CASE PublishSaved
    BY <2>6 DEF PublishSaved
  <2>7. CASE DecideRefresh
    BY <2>7 DEF DecideRefresh
  <2>8. CASE LockIsTaken
    BY <2>8 DEF LockIsTaken
  <2>9. CASE LockAcquired
    BY <2>9 DEF LockAcquired
  <2>10. CASE ReceiveAccess
    BY <2>10 DEF ReceiveAccess
  <2>11. CASE CheckBeforeWrite
    BY <2>11 DEF CheckBeforeWrite
  <2>12. CASE WriteAccess
    BY <2>12 DEF WriteAccess
  <2>13. CASE Publish
    BY <2>13 DEF Publish
  <2>14. CASE RejectIdToken
    BY <2>14 DEF RejectIdToken
  <2>15. CASE RejectAccessToken
    BY <2>15 DEF RejectAccessToken
  <2>16. CASE RejectState
    BY <2>16 DEF RejectState
  <2>17. CASE BrowserReturns
    BY <2>17 DEF BrowserReturns
  <2>18. CASE CompleteAuth
    BY <2>18 DEF CompleteAuth
  <2>19. CASE CheckIdentity
    BY <2>19 DEF CheckIdentity
  <2>20. CASE WriteIdentity
    BY <2>20 DEF WriteIdentity
  <2>21. CASE WriteActivatedAccess
    BY <2>21 DEF WriteActivatedAccess
  <2> QED
    BY <1>4, <2>2, <2>3, <2>4, <2>5, <2>6, <2>7, <2>8, <2>9, <2>10, <2>11, <2>12, <2>13, <2>14, <2>15, <2>16, <2>17, <2>18, <2>19, <2>20, <2>21 DEF TaskBody
<1>5. CASE Startup
  BY <1>5 DEF Startup, H!Startup
<1>6. CASE StartActivation
  BY <1>6 DEF StartActivation, H!StartActivation
<1>7. CASE RetryUnlocking
  BY <1>7 DEF RetryUnlocking, H!RetryUnlocking
<1>8. CASE CheckActivationEvent
  BY <1>8 DEF CheckActivationEvent, H!CheckActivationEvent
<1>9. CASE Logout
  BY <1>9 DEF Logout, H!Logout
<1>10. CASE LogoutDeletes
  BY <1>10 DEF LogoutDeletes
<1>11. CASE CallerContinues
  BY <1>11 DEF CallerContinues, H!CallerStep, H!CallerNotify,
              H!UpdateActivationEventWatcher, H!DestructorSignals,
              H!DestructorSetsExit, H!DestructorJoins
<1>12. CASE HandleAsyncUpdate
  BY <1>12 DEF HandleAsyncUpdate, H!HandleAsyncUpdate
<1>13. CASE Destroy
  BY <1>13 DEF Destroy, H!Destroy
<1>14. CASE WorkerContinues
  BY <1>14 DEF WorkerContinues, H!RunLoop, H!WakeUp, H!CheckExit, H!WorkerNotify
<1>15. CASE Tick
  BY <1>15 DEF Tick
<1>16. CASE OtherInstanceWrites
  BY <1>16 DEF OtherInstanceWrites
<1>17. CASE UNCHANGED vars
  BY <1>17 DEF vars
<1> QED
  BY <1>2, <1>3, <1>4, <1>5, <1>6, <1>7, <1>8, <1>9, <1>10, <1>11, <1>12, <1>13,
     <1>14, <1>15, <1>16, <1>17 DEF Next

-----------------------------------------------------------------------------
(* Types.                                                                  *)

LEMMA ReturnTyped ==
    \A s \in H!Statuses \cup {"keep"}, e \in BOOLEAN, p \in H!WorkerTask :
        H!TaskResult(s, e, p) \in H!TaskResults
BY DEF H!TaskResult, H!TaskResults

LEMMA NoResultTyped == H!NoResult \in H!TaskResults
BY ReturnTyped DEF H!NoResult, H!Statuses, H!WorkerTask

\* What is published of the saved token is valid, or nothing.
TypeInv == TypeOK /\ (step = "publishSaved" => token # BadToken)

LEMMA TypeInit == Init => TypeInv
<1> SUFFICES ASSUME Init PROVE TypeInv
  OBVIOUS
<1>1. now \in 0..MaxTime /\ 0 \in 0..MaxTime
  BY TimeAssumption DEF Init
<1>2. result \in H!TaskResults
  BY NoResultTyped DEF Init
<1>3. {loggedOut, others} \subseteq BOOLEAN /\ idTokenFile \in BOOLEAN
  BY DEF Init
<1> QED
  BY <1>1, <1>2, <1>3 DEF Init, TypeInv, TypeOK, Steps

LEMMA TypeStep == TypeInv /\ [Next]_vars => TypeInv'
<1> SUFFICES ASSUME TypeInv, [Next]_vars PROVE TypeInv'
  OBVIOUS
<1> USE TimeAssumption DEF TypeInv, TypeOK, Steps, locals, files, handoffVars
<1>1. IsValid(token) => token \in 0..MaxTime
  BY TokenAssumption DEF IsValid
<1>2. CASE TakeTask
  BY <1>2 DEF TakeTask
<1>3. CASE HandleTaskResult
  BY NoResultTyped, <1>3 DEF HandleTaskResult
<1>4. CASE TaskBody
  <2>1. \A s \in {"unlocking", "activationRequired", "unlocked", "keep"},
            e \in BOOLEAN,
            p \in {"none", "startup", "startupWithDelay", "refreshAccessWithDelay"} :
          Return(s, e, p) => step' = "finished" /\ result' \in H!TaskResults
    BY ReturnTyped DEF Return, H!Statuses, H!WorkerTask
  <2>2. \A next \in Steps : Goto(next) => step' = next /\ result' \in H!TaskResults
    BY DEF Goto
  <2> USE <2>1, <2>2 DEF ReturnNothing, RequestFailed, unseen
  <2>3. CASE BeginStartup
    BY <2>3 DEF BeginStartup
  <2>4. CASE BeginRefresh
    BY <2>4 DEF BeginRefresh
  <2>5. CASE BeginActivation
    BY <2>5 DEF BeginActivation
  <2>6. CASE LoadAccess
    BY <2>6, TokenAssumption DEF LoadAccess, IsValid
  <2>7. CASE PublishSaved
    BY <2>7 DEF PublishSaved
  <2>8. CASE DecideRefresh
    BY <2>8 DEF DecideRefresh
  <2>9. CASE LockIsTaken
    BY <2>9 DEF LockIsTaken
  <2>10. CASE LockAcquired
    BY <2>10 DEF LockAcquired
  <2>11. CASE ReceiveAccess
    BY <2>11 DEF ReceiveAccess
  <2>12. CASE CheckBeforeWrite
    BY <2>12 DEF CheckBeforeWrite
  <2>13. CASE WriteAccess
    BY <2>13 DEF WriteAccess
  <2>14. CASE Publish
    BY <1>1, <2>14 DEF Publish
  <2>15. CASE RejectIdToken
    BY <2>15 DEF RejectIdToken
  <2>16. CASE RejectAccessToken
    BY <2>16 DEF RejectAccessToken
  <2>17. CASE RejectState
    BY <2>17 DEF RejectState
  <2>18. CASE BrowserReturns
    BY <2>18 DEF BrowserReturns
  <2>19. CASE CompleteAuth
    BY <2>19 DEF CompleteAuth
  <2>20. CASE CheckIdentity
    BY <2>20 DEF CheckIdentity
  <2>21. CASE WriteIdentity
    BY <2>21 DEF WriteIdentity
  <2>22. CASE WriteActivatedAccess
    BY <2>22 DEF WriteActivatedAccess
  <2> QED
    BY <1>4, <2>3, <2>4, <2>5, <2>6, <2>7, <2>8, <2>9, <2>10, <2>11, <2>12, <2>13, <2>14, <2>15, <2>16, <2>17, <2>18, <2>19, <2>20, <2>21, <2>22 DEF TaskBody
<1>5. CASE Startup
  BY <1>5 DEF Startup, H!Startup
<1>6. CASE StartActivation
  BY <1>6 DEF StartActivation, H!StartActivation
<1>7. CASE RetryUnlocking
  BY <1>7 DEF RetryUnlocking, H!RetryUnlocking
<1>8. CASE CheckActivationEvent
  BY <1>8 DEF CheckActivationEvent, H!CheckActivationEvent
<1>9. CASE Logout
  BY <1>9 DEF Logout, H!Logout
<1>10. CASE LogoutDeletes
  BY <1>10 DEF LogoutDeletes
<1>11. CASE CallerContinues
  BY <1>11 DEF CallerContinues, H!CallerStep, H!CallerNotify,
              H!UpdateActivationEventWatcher, H!DestructorSignals,
              H!DestructorSetsExit, H!DestructorJoins
<1>12. CASE HandleAsyncUpdate
  BY <1>12 DEF HandleAsyncUpdate, H!HandleAsyncUpdate
<1>13. CASE Destroy
  BY <1>13 DEF Destroy, H!Destroy
<1>14. CASE WorkerContinues
  BY <1>14 DEF WorkerContinues, H!RunLoop, H!WakeUp, H!CheckExit, H!WorkerNotify
<1>15. CASE Tick
  BY <1>15 DEF Tick
<1>16. CASE OtherInstanceWrites
  BY <1>16 DEF OtherInstanceWrites
<1>17. CASE UNCHANGED vars
  BY <1>17 DEF vars
<1> QED
  BY <1>2, <1>3, <1>4, <1>5, <1>6, <1>7, <1>8, <1>9, <1>10, <1>11, <1>12, <1>13,
     <1>14, <1>15, <1>16, <1>17 DEF Next

-----------------------------------------------------------------------------
(* The token on disk.                                                      *)

\* With no other instance, a refresh that is about to lock the product has
\* found no valid token on disk, or has deleted it.
SavedIsGone ==
    ~others /\ Refreshing =>
        /\ step = "publishSaved" /\ token = NoToken => ~IsValid(accessTokenFile)
        /\ step = "rejectState" => ~IsValid(accessTokenFile)
        /\ step = "finished" /\ result.newStatus # "keep" => ~IsValid(accessTokenFile)

LEMMA SavedInit == Init => SavedIsGone
BY DEF Init, SavedIsGone

\* Outside of the tasks files are deleted and time passes.
LEMMA SavedOutside ==
    ASSUME TypeInv, [Next]_vars, ~TaskBody, ~TakeTask, ~HandleTaskResult
    PROVE  /\ others' = others
           /\ ~others /\ IsValid(accessTokenFile)' => IsValid(accessTokenFile)
<1> USE TimeAssumption, TokenAssumption, LifetimeAssumption
        DEF TypeInv, TypeOK, IsValid, locals, files, handoffVars
<1>1. CASE Startup \/ StartActivation \/ RetryUnlocking \/ CheckActivationEvent \/ Logout
  BY <1>1 DEF Startup, StartActivation, RetryUnlocking, CheckActivationEvent, Logout
<1>2. CASE LogoutDeletes
  BY <1>2 DEF LogoutDeletes
<1>3. CASE CallerContinues \/ HandleAsyncUpdate \/ Destroy \/ WorkerContinues
  BY <1>3 DEF CallerContinues, HandleAsyncUpdate, Destroy, WorkerContinues
<1>4. CASE Tick
  BY <1>4 DEF Tick
<1>5. CASE OtherInstanceWrites
  BY <1>5 DEF OtherInstanceWrites
<1>6. CASE UNCHANGED vars
  BY <1>6 DEF vars
<1> QED
  BY <1>1, <1>2, <1>3, <1>4, <1>5, <1>6 DEF Next

LEMMA SavedStep ==
    HP!IInv /\ BodyPlaced /\ TypeInv /\ SavedIsGone /\ [Next]_vars => SavedIsGone'
<1> SUFFICES ASSUME HP!IInv, BodyPlaced, TypeInv, SavedIsGone, [Next]_vars
             PROVE  SavedIsGone'
  OBVIOUS
<1>1. CASE ~TaskBody /\ ~TakeTask /\ ~HandleTaskResult
  <2>1. UNCHANGED <<step, token, result, currentTask>>
    BY <1>1, OutsideSteps
  <2>2. /\ others' = others
        /\ ~others /\ IsValid(accessTokenFile)' => IsValid(accessTokenFile)
    BY <1>1, SavedOutside
  <2> QED
    BY <2>1, <2>2 DEF SavedIsGone, Refreshing
<1>2. CASE TakeTask
  <2>1. step' \in {"begin", "idle"}
    BY <1>2 DEF TakeTask, H!TakeTask, BodyPlaced
  <2> QED
    BY <2>1 DEF SavedIsGone
<1>3. CASE HandleTaskResult
  BY <1>3 DEF HandleTaskResult, SavedIsGone
<1>4. CASE TaskBody
  <2>1. UNCHANGED <<currentTask, others, now>>
    BY <1>4
    DEF TaskBody, unseen, handoffVars, BeginStartup, BeginRefresh, BeginActivation,
        LoadAccess, PublishSaved, DecideRefresh, LockIsTaken, LockAcquired,
        ReceiveAccess, CheckBeforeWrite, WriteAccess, Publish, RejectIdToken,
        RejectAccessToken, RejectState, BrowserReturns, CompleteAuth,
        CheckIdentity, WriteIdentity, WriteActivatedAccess
  <2>2. Refreshing => ~Starting /\ ~Activating
    BY DEF Refreshing, Starting, Activating, H!StartupTasks
  <2> USE <2>1, <2>2, TokenAssumption
          DEF SavedIsGone, Refreshing, Goto, ReturnNothing, Return, RequestFailed,
              H!NoResult, H!TaskResult, files
  <2>3. CASE BeginStartup
    BY <2>3 DEF BeginStartup, BodyPlaced
  <2>4. CASE BeginRefresh
    BY <2>4 DEF BeginRefresh
  <2>5. CASE BeginActivation
    BY <2>5 DEF BeginActivation, BodyPlaced
  <2>6. CASE LoadAccess
    BY <2>6 DEF LoadAccess, IsValid
  <2>7. CASE PublishSaved
    <3>1. /\ step = "publishSaved"
          /\ IsValid(accessTokenFile)' <=> IsValid(accessTokenFile)
      BY <2>7 DEF PublishSaved, IsValid
    <3>2. CASE token # NoToken \/ Starting
      BY <2>7, <3>2 DEF PublishSaved
    <3>3. CASE token = NoToken /\ ~Starting
      <4>1. step' = "finished"
        BY <2>7, <3>3 DEF PublishSaved
      <4> QED
        BY <3>1, <3>3, <4>1
    <3> QED
      BY <3>2, <3>3
  <2>8. CASE DecideRefresh
    BY <2>8 DEF DecideRefresh
  <2>9. CASE LockIsTaken
    BY <2>9 DEF LockIsTaken
  <2>10. CASE LockAcquired
    BY <2>10 DEF LockAcquired
  <2>11. CASE ReceiveAccess
    BY <2>11 DEF ReceiveAccess
  <2>12. CASE CheckBeforeWrite
    BY <2>12 DEF CheckBeforeWrite
  <2>13. CASE WriteAccess
    BY <2>13 DEF WriteAccess
  <2>14. CASE Publish
    BY <2>14 DEF Publish
  <2>15. CASE RejectIdToken
    BY <2>15 DEF RejectIdToken
  <2>16. CASE RejectAccessToken
    BY <2>16 DEF RejectAccessToken, IsValid
  <2>17. CASE RejectState
    <3>1. /\ step = "rejectState"
          /\ step' = "finished"
          /\ IsValid(accessTokenFile)' <=> IsValid(accessTokenFile)
      BY <2>17 DEF RejectState, IsValid
    <3> QED
      BY <3>1
  <2>18. CASE BrowserReturns
    BY <2>18 DEF BrowserReturns, BodyPlaced
  <2>19. CASE CompleteAuth
    BY <2>19 DEF CompleteAuth, BodyPlaced
  <2>20. CASE CheckIdentity
    BY <2>20 DEF CheckIdentity, BodyPlaced
  <2>21. CASE WriteIdentity
    BY <2>21 DEF WriteIdentity, BodyPlaced
  <2>22. CASE WriteActivatedAccess
    BY <2>22 DEF WriteActivatedAccess, BodyPlaced
  <2> QED
    BY <1>4, <2>3, <2>4, <2>5, <2>6, <2>7, <2>8, <2>9, <2>10, <2>11, <2>12, <2>13, <2>14, <2>15, <2>16, <2>17, <2>18, <2>19, <2>20, <2>21, <2>22 DEF TaskBody
<1> QED
  BY <1>1, <1>2, <1>3, <1>4

-----------------------------------------------------------------------------
IInv == HP!IInv /\ BodyPlaced /\ TokenInv /\ FileInv /\ TypeInv /\ SavedIsGone

LEMMA Invariant == Spec => []IInv
<1>1. Init => IInv
  BY HandoffInit, PlacedInit, TokenInit, FileInit, TypeInit, SavedInit DEF IInv
<1>2. IInv /\ [Next]_vars => IInv'
  BY HandoffStep, PlacedStep, TokenStep, FileStep, TypeStep, SavedStep DEF IInv, TokenInv
<1> QED
  BY <1>1, <1>2, PTL DEF Spec

\* Files, clock and the running task keep their types: a result is never
\* taken for another kind of value.
THEOREM UnlockerTypeCorrect == Spec => []TypeOK
<1>1. IInv => TypeOK
  BY DEF IInv, TypeInv
<1> QED
  BY <1>1, Invariant, PTL

\* The bodies of the tasks return only what WorkerHandoff assumes, at every
\* early return: all that is proved of the two threads holds of them.
THEOREM BodiesImplementHandoff == Spec => ImplementsHandoff
<1>1. Init => H!Init
  BY DEF Init
<1>2. IInv /\ [Next]_vars => [H!Next]_(H!vars)
  BY StepIsHandoff DEF IInv
<1> QED
  BY <1>1, <1>2, Invariant, PTL DEF Spec, ImplementsHandoff, H!Spec

\* Seen by an owner, the unlocker with its files, requests and failures is the
\* status machine: what BodiesImplementHandoff and the refinement proved in
\* WorkerHandoffProofs make together (handleTaskResult(), the requests).
THEOREM BodiesImplementStatus == Spec => HP!ImplementsLicenseStatus
<1>1. Init => HP!Init
  BY OneHandoff DEF Init
<1>2. IInv /\ [Next]_vars => [HP!Next]_(HP!vars)
  BY StepIsHandoff, OneHandoff DEF IInv
<1>3. Spec => HP!Spec
  BY <1>1, <1>2, Invariant, PTL DEF Spec, HP!Spec
<1> QED
  BY <1>3, HP!Refinement

\* An unlocked product has a validated token, however requests, logouts and
\* refreshes overlap.
THEOREM UnlockedKeepsToken == Spec => []UnlockedHasToken
<1>1. IInv => UnlockedHasToken
  BY DEF IInv, TokenInv
<1> QED
  BY <1>1, Invariant, PTL

\* A product that nobody else works with is unlocked only with its identity
\* on disk.
THEOREM UnlockedKeepsIdentity == Spec => []UnlockedIsPersisted
<1>1. IInv => UnlockedIsPersisted
  BY DEF IInv, FileInv
<1> QED
  BY <1>1, Invariant, PTL

\* Neither a failed request nor a failed write locks an unlocked product.
LEMMA LockingStep ==
    IInv /\ [Next]_vars =>
        (status = "unlocked" /\ status' # "unlocked" =>
            /\ validated' = NoToken
            /\ caller' = "clearing" \/ others \/ ~IsValid(accessTokenFile))
<1> SUFFICES ASSUME IInv, [Next]_vars, status = "unlocked", status' # "unlocked"
             PROVE  /\ validated' = NoToken
                    /\ caller' = "clearing" \/ others \/ ~IsValid(accessTokenFile)
  OBVIOUS
<1>1. HP!IInv /\ BodyPlaced /\ UnlockedIsLeftAlone /\ RefreshWithdraws /\ SavedIsGone
  BY DEF IInv, TokenInv
<1>2. CASE ~TaskBody /\ ~TakeTask /\ ~HandleTaskResult
  BY <1>1, <1>2, RequestsOnUnlocked
<1>3. CASE TakeTask
  BY <1>3 DEF TakeTask, H!TakeTask
<1>4. CASE HandleTaskResult
  <2>1. step = "finished" /\ worker = "running" /\ validated' = validated
    BY <1>4 DEF HandleTaskResult, H!HandleTaskResult
  <2>2. H!ApplyResult(result)
    BY <1>4 DEF HandleTaskResult, H!HandleTaskResult, H!DropResult
  <2>3. result.newStatus # "keep"
    BY <2>2 DEF H!ApplyResult, H!StatusAfter
  <2>4. Refreshing
    BY <1>1, <2>1, HandoffFacts DEF UnlockedIsLeftAlone, Refreshing
  <2> QED
    BY <1>1, <2>1, <2>3, <2>4 DEF RefreshWithdraws, SavedIsGone
<1>5. CASE TaskBody
  <2>1. UNCHANGED status
    BY <1>5
    DEF TaskBody, unseen, handoffVars, BeginStartup, BeginRefresh, BeginActivation,
        LoadAccess, PublishSaved, DecideRefresh, LockIsTaken, LockAcquired,
        ReceiveAccess, CheckBeforeWrite, WriteAccess, Publish, RejectIdToken,
        RejectAccessToken, RejectState, BrowserReturns, CompleteAuth,
        CheckIdentity, WriteIdentity, WriteActivatedAccess
  <2> QED
    BY <2>1
<1> QED
  BY <1>2, <1>3, <1>4, <1>5

\* An unlocked product locks only when its published token was withdrawn, by a
\* logout or because the saved one is not valid any more: no failure does it.
THEOREM WithdrawalLocks == Spec => OnlyWithdrawalLocks
<1>1. IInv /\ [Next]_vars =>
          [status = "unlocked" /\ status' # "unlocked" =>
             /\ validated' = NoToken
             /\ caller' = "clearing" \/ others \/ ~IsValid(accessTokenFile)]_vars
  BY LockingStep
<1> QED
  BY <1>1, Invariant, PTL DEF Spec, OnlyWithdrawalLocks
=============================================================================
