------------------------------ MODULE Unlocker ------------------------------
(***************************************************************************)
(* One UnlockerImpl with the bodies of its tasks: the token files it reads *)
(* and writes, the requests it sends, the access token it has validated.   *)
(* The threads and the hand-over of tasks are those of WorkerHandoff.      *)
(*                                                                         *)
(* An access token is the time the server issued it; NoToken stands for no *)
(* token, BadToken for one that validateAccessToken() refuses whatever the *)
(* time (signature, product, device, user, a server clock ahead of ours).  *)
(* Time is counted in units of which a token lives Lifetime.               *)
(***************************************************************************)
EXTENDS Integers

CONSTANTS
    Lifetime,       \* how long an access token is valid
    RefreshAfter,   \* the age beyond which shouldRefresh() holds
    MaxTime,        \* bound of the clock
    NoToken, BadToken

ASSUME LifetimeAssumption == Lifetime \in Nat \ {0}
ASSUME RefreshAssumption == RefreshAfter \in Nat
ASSUME TimeAssumption == MaxTime \in Nat
ASSUME TokenAssumption ==
    /\ NoToken \notin Int
    /\ BadToken \notin Int
    /\ NoToken # BadToken

VARIABLES
    status, hasError, pendingTask, currentTask, breakCurrentTask,
    wakeEvent, threadShouldExit, worker, workerOwes, caller, asyncUpdate,
    watching, seenStatus,
    now,                \* juce::Time::currentTimeMillis()
    idTokenFile,        \* whether the identity token file has a token
    accessTokenFile,    \* the token in the access token file
    validated,          \* _state.validatedAccessToken
    step,               \* where the running task is
    token,              \* the access token the task holds
    result,             \* the TaskResult it returns
    toDelete,           \* files a logout has still to delete
    loggedOut,          \* history: logout() was the last request
    others              \* whether other instances work in the same directory

handoffVars == <<status, hasError, pendingTask, currentTask, breakCurrentTask,
                 wakeEvent, threadShouldExit, worker, workerOwes, caller,
                 asyncUpdate, watching, seenStatus>>
files == <<idTokenFile, accessTokenFile>>
locals == <<step, token, result>>
vars == <<handoffVars, now, files, validated, locals, toDelete, loggedOut, others>>

H == INSTANCE WorkerHandoff
A == INSTANCE Api

Tokens == Nat \cup {NoToken, BadToken}

\* validateAccessToken()
IsValid(t) == t \in Nat /\ now < t + Lifetime

\* AccessToken::shouldRefresh()
ShouldRefresh(t) == now - t > RefreshAfter

Steps == {"idle", "begin", "loadAccess", "publishSaved", "decideRefresh",
          "lock", "receive", "check", "write", "publish", "rejectId",
          "rejectAccess", "rejectState", "browser", "complete",
          "checkIdentity", "writeId", "writeAccess", "finished"}

TypeOK ==
    /\ now \in 0..MaxTime
    /\ idTokenFile \in BOOLEAN
    /\ accessTokenFile \in 0..MaxTime \cup {NoToken, BadToken}
    /\ validated \in 0..MaxTime \cup {NoToken}
    /\ step \in Steps
    /\ token \in 0..MaxTime \cup {NoToken, BadToken}
    /\ result \in H!TaskResults
    /\ toDelete \subseteq {"idToken", "accessToken"}
    /\ {loggedOut, others} \subseteq BOOLEAN

\* Whatever an earlier run or another instance left in the directory, also
\* when it was interrupted between two writes.
Init ==
    /\ H!Init
    /\ now = 0
    /\ idTokenFile \in BOOLEAN
    /\ accessTokenFile \in {0, NoToken, BadToken}
    /\ validated = NoToken
    /\ step = "idle"
    /\ token = NoToken
    /\ result = H!NoResult
    /\ toDelete = {}
    /\ loggedOut = FALSE
    /\ others \in BOOLEAN

-----------------------------------------------------------------------------
(* The message thread.                                                     *)

Startup == H!Startup /\ UNCHANGED <<now, files, validated, locals, toDelete, loggedOut, others>>

StartActivation ==
    /\ H!StartActivation
    /\ loggedOut' = FALSE
    /\ UNCHANGED <<now, files, validated, locals, toDelete, others>>

RetryUnlocking ==
    /\ H!RetryUnlocking
    /\ UNCHANGED <<now, files, validated, locals, toDelete, loggedOut, others>>

CheckActivationEvent ==
    /\ others
    /\ H!CheckActivationEvent
    /\ loggedOut' = FALSE
    /\ UNCHANGED <<now, files, validated, locals, toDelete, others>>

\* The critical section of applyLogoutState() ...
Logout ==
    /\ H!Logout
    /\ validated' = NoToken
    /\ toDelete' = {"idToken", "accessToken"}
    /\ loggedOut' = TRUE
    /\ UNCHANGED <<now, files, locals, others>>

\* ... and, with the lock released, its two calls of deleteFile().
LogoutDeletes ==
    /\ caller = "clearing"
    /\ \/ /\ "idToken" \in toDelete
          /\ idTokenFile' = FALSE
          /\ toDelete' = toDelete \ {"idToken"}
          /\ UNCHANGED accessTokenFile
       \/ /\ toDelete = {"accessToken"}
          /\ accessTokenFile' = NoToken
          /\ toDelete' = {}
          /\ UNCHANGED idTokenFile
    /\ UNCHANGED <<handoffVars, now, validated, locals, loggedOut, others>>

CallerContinues ==
    /\ toDelete = {}
    /\ H!CallerStep
    /\ UNCHANGED <<now, files, validated, locals, toDelete, loggedOut, others>>

HandleAsyncUpdate ==
    /\ H!HandleAsyncUpdate
    /\ UNCHANGED <<now, files, validated, locals, toDelete, loggedOut, others>>

Destroy ==
    /\ H!Destroy
    /\ UNCHANGED <<now, files, validated, locals, toDelete, loggedOut, others>>

-----------------------------------------------------------------------------
(* The worker between two tasks.                                           *)

WorkerContinues ==
    /\ H!RunLoop \/ H!WakeUp \/ H!CheckExit \/ H!WorkerNotify
    /\ UNCHANGED <<now, files, validated, locals, toDelete, loggedOut, others>>

TakeTask ==
    /\ H!TakeTask
    /\ step' = IF pendingTask = "none" THEN step ELSE "begin"
    /\ UNCHANGED <<now, files, validated, token, result, toDelete, loggedOut, others>>

HandleTaskResult ==
    /\ step = "finished"
    /\ H!HandleTaskResult(result)
    /\ step' = "idle"
    /\ token' = NoToken
    /\ result' = H!NoResult
    /\ UNCHANGED <<now, files, validated, toDelete, loggedOut, others>>

-----------------------------------------------------------------------------
(* The bodies of the tasks.                                                *)

unseen == <<handoffVars, now, toDelete, loggedOut, others>>

Goto(next) == step' = next /\ UNCHANGED result

Return(newStatus, newError, newPendingTask) ==
    /\ step' = "finished"
    /\ result' = H!TaskResult(newStatus, newError, newPendingTask)

ReturnNothing == Return("keep", FALSE, "none")

Starting == currentTask \in H!StartupTasks
Refreshing == currentTask = "refreshAccessWithDelay"
Activating == currentTask = "startActivation"

\* The delay, if any, and the first taskShouldExit() are over; local storage
\* may not be available.  A startup looks for the identity token.
BeginStartup ==
    /\ step = "begin"
    /\ Starting
    /\ IF H!TaskShouldExit THEN ReturnNothing
       ELSE \/ Return("unlocking", TRUE, "none")
            \/ idTokenFile /\ Goto("loadAccess")
            \/ ~idTokenFile /\ Return("activationRequired", FALSE, "none")
    /\ UNCHANGED <<unseen, files, validated, token>>

BeginRefresh ==
    /\ step = "begin"
    /\ Refreshing
    /\ IF H!TaskShouldExit THEN ReturnNothing
       ELSE Return("keep", TRUE, "none") \/ Goto("loadAccess")
    /\ UNCHANGED <<unseen, files, validated, token>>

\* Reads and verifies the saved access token.
LoadAccess ==
    /\ step = "loadAccess"
    /\ token' = IF IsValid(accessTokenFile) THEN accessTokenFile ELSE NoToken
    /\ Goto(IF Starting /\ accessTokenFile = NoToken THEN "lock"
            ELSE "publishSaved")
    /\ UNCHANGED <<unseen, files, validated>>

PublishSaved ==
    /\ step = "publishSaved"
    /\ validated' = token
    /\ CASE token # NoToken -> Goto("decideRefresh")
         [] token = NoToken /\ Starting -> Goto("lock")
         [] OTHER -> Return("unlocking", FALSE, "startup")
    /\ UNCHANGED <<unseen, files, token>>

\* A startup asks _state.validatedAccessToken, without the lock: a logout may
\* have emptied it since, and then either answer may come out.
SeemsDue == {due \in BOOLEAN : validated = NoToken \/ due = ShouldRefresh(token)}

DecideRefresh ==
    /\ step = "decideRefresh"
    /\ IF Starting
       THEN \E due \in SeemsDue :
              Return("unlocked", FALSE,
                     IF due THEN "refreshAccessWithDelay" ELSE "none")
       ELSE IF ShouldRefresh(token) THEN Goto("lock") ELSE ReturnNothing
    /\ UNCHANGED <<unseen, files, validated, token>>

\* Mutant: who does not get the lock leaves the work to the one who has it.
LeaveItToTheOther ==
    /\ step = "lock"
    /\ ReturnNothing
    /\ UNCHANGED <<unseen, files, validated, token>>

\* acquireInstanceLock() fails while another instance holds the lock.
LockIsTaken ==
    /\ step = "lock"
    /\ IF H!TaskShouldExit THEN ReturnNothing
       ELSE Return("keep", FALSE, IF Starting THEN "startupWithDelay"
                                  ELSE "refreshAccessWithDelay")
    /\ UNCHANGED <<unseen, files, validated, token>>

LockAcquired ==
    /\ step = "lock"
    /\ ~H!TaskShouldExit
    /\ Goto("receive")
    /\ UNCHANGED <<unseen, files, validated, token>>

\* Mutant: a refresh that fails locks the product.
RequestFailedLocks ==
    IF Starting THEN Return("keep", TRUE, "none")
    ELSE Return("activationRequired", FALSE, "none")

\* Mutant: a startup keeps quiet about it as well.
RequestFailedSilently == ReturnNothing

\* A startup reports that the request failed, a refresh keeps quiet about it.
RequestFailed ==
    IF Starting THEN Return("keep", TRUE, "none") ELSE ReturnNothing

\* The result of requestAccess().  A startup takes a 201 as well.
ReceiveAccess ==
    /\ step = "receive"
    /\ \E answer \in A!RequestAccess :
         CASE answer.statusCode = 422 -> Goto("rejectId") /\ UNCHANGED token
           [] A!Accepted(answer, IF Starting THEN {200, 201} ELSE {200}) ->
                Goto("check") /\ token' \in {now, BadToken}
           [] OTHER -> RequestFailed /\ UNCHANGED token
    /\ UNCHANGED <<unseen, files, validated>>

CheckBeforeWrite ==
    /\ step = "check"
    /\ IF H!TaskShouldExit THEN ReturnNothing
       ELSE RequestFailed \/ Goto("write")
    /\ UNCHANGED <<unseen, files, validated, token>>

\* The outcome of this write is not looked at.
WriteAccess ==
    /\ step = "write"
    /\ accessTokenFile' \in {accessTokenFile, token}
    /\ Goto("publish")
    /\ UNCHANGED <<unseen, idTokenFile, validated, token>>

\* Mutant: a refresh that got an unusable token ends like a failed one.
PublishWithoutRevoking ==
    /\ step = "publish"
    /\ validated' = IF IsValid(token) THEN token ELSE NoToken
    /\ IF Refreshing THEN ReturnNothing
       ELSE IF IsValid(token) THEN Return("unlocked", FALSE, "none")
       ELSE Return("keep", TRUE, "none")
    /\ UNCHANGED <<unseen, files, token>>

Publish ==
    /\ step = "publish"
    /\ validated' = IF IsValid(token) THEN token ELSE NoToken
    /\ CASE IsValid(token) /\ Refreshing -> ReturnNothing
         [] IsValid(token) /\ ~Refreshing -> Return("unlocked", FALSE, "none")
         [] ~IsValid(token) /\ Refreshing -> Goto("rejectId")
         [] OTHER -> Return("keep", TRUE, "none")
    /\ UNCHANGED <<unseen, files, token>>

RejectIdToken ==
    /\ step = "rejectId"
    /\ idTokenFile' = FALSE
    /\ Goto("rejectAccess")
    /\ UNCHANGED <<unseen, accessTokenFile, validated, token>>

RejectAccessToken ==
    /\ step = "rejectAccess"
    /\ accessTokenFile' = NoToken
    /\ Goto("rejectState")
    /\ UNCHANGED <<unseen, idTokenFile, validated, token>>

RejectState ==
    /\ step = "rejectState"
    /\ validated' = NoToken
    /\ Return("activationRequired", FALSE, "none")
    /\ UNCHANGED <<unseen, files, token>>

-----------------------------------------------------------------------------
(* runStartActivationTask().                                               *)

\* startAuth() and createListenerOnRandomPort(); then the browser is opened.
BeginActivation ==
    /\ step = "begin"
    /\ Activating
    /\ IF H!TaskShouldExit THEN ReturnNothing
       ELSE \/ Return("activationRequired", TRUE, "none")
            \/ (\E answer \in A!StartAuth : A!Accepted(answer, {200})) /\ Goto("browser")
    /\ UNCHANGED <<unseen, files, validated, token>>

\* waitForRequest() ends with the redirect of the browser, which it may
\* refuse, or because the task was broken.
BrowserReturns ==
    /\ step = "browser"
    /\ \/ ReturnNothing
       \/ ~H!TaskShouldExit /\ Goto("complete")
    /\ UNCHANGED <<unseen, files, validated, token>>

CompleteAuth ==
    /\ step = "complete"
    /\ \E answer \in A!CompleteAuth :
         IF A!Accepted(answer, {200})
         THEN Goto("checkIdentity") /\ token' \in {now, BadToken}
         ELSE Return("activationRequired", TRUE, "none") /\ UNCHANGED token
    /\ UNCHANGED <<unseen, files, validated>>

CheckIdentity ==
    /\ step = "checkIdentity"
    /\ IF H!TaskShouldExit THEN ReturnNothing
       ELSE Return("activationRequired", TRUE, "none") \/ Goto("writeId")
    /\ UNCHANGED <<unseen, files, validated, token>>

\* Mutant: the outcome of this write is not looked at either.
WriteIdentityAnyway ==
    /\ step = "writeId"
    /\ idTokenFile' \in {idTokenFile, TRUE}
    /\ Goto("writeAccess")
    /\ UNCHANGED <<unseen, accessTokenFile, validated, token>>

WriteIdentity ==
    /\ step = "writeId"
    /\ \/ Return("keep", TRUE, "none") /\ UNCHANGED idTokenFile
       \/ Goto("writeAccess") /\ idTokenFile' = TRUE
    /\ UNCHANGED <<unseen, accessTokenFile, validated, token>>

WriteActivatedAccess ==
    /\ step = "writeAccess"
    /\ \/ Return("keep", TRUE, "none") /\ UNCHANGED accessTokenFile
       \/ Goto("publish") /\ accessTokenFile' = token
    /\ UNCHANGED <<unseen, idTokenFile, validated, token>>

TaskBody ==
    /\ worker = "running"
    /\ \/ BeginStartup
       \/ BeginRefresh
       \/ BeginActivation
       \/ LoadAccess
       \/ PublishSaved
       \/ DecideRefresh
       \/ LockIsTaken
       \/ LockAcquired
       \/ ReceiveAccess
       \/ CheckBeforeWrite
       \/ WriteAccess
       \/ Publish
       \/ RejectIdToken
       \/ RejectAccessToken
       \/ RejectState
       \/ BrowserReturns
       \/ CompleteAuth
       \/ CheckIdentity
       \/ WriteIdentity
       \/ WriteActivatedAccess

-----------------------------------------------------------------------------
(* The environment.                                                        *)

Tick ==
    /\ now < MaxTime
    /\ now' = now + 1
    /\ UNCHANGED <<handoffVars, files, validated, locals, toDelete, loggedOut, others>>

\* Another instance activates, refreshes or logs out, one file at a time.
OtherInstanceWrites ==
    /\ others
    /\ \/ idTokenFile' \in BOOLEAN /\ UNCHANGED accessTokenFile
       \/ accessTokenFile' \in {now, NoToken} /\ UNCHANGED idTokenFile
    /\ UNCHANGED <<handoffVars, now, validated, locals, toDelete, loggedOut, others>>

-----------------------------------------------------------------------------
Next ==
    \/ Startup
    \/ StartActivation
    \/ RetryUnlocking
    \/ CheckActivationEvent
    \/ Logout
    \/ LogoutDeletes
    \/ CallerContinues
    \/ HandleAsyncUpdate
    \/ Destroy
    \/ WorkerContinues
    \/ TakeTask
    \/ TaskBody
    \/ HandleTaskResult
    \/ Tick
    \/ OtherInstanceWrites

Spec == Init /\ [][Next]_vars

(* The fairness of WorkerHandoff, spelled out for the body of a task: it   *)
(* goes on, except that it may wait for the user in the browser for ever.  *)
(* A task that keeps trying gets the instance lock in the end: a lock      *)
(* expires after five seconds and the attempts are randomly spread.        *)
Fairness ==
    /\ WF_vars(LogoutDeletes \/ CallerContinues)
    /\ WF_vars(WorkerContinues \/ TakeTask \/ HandleTaskResult)
    /\ WF_vars(TaskBody /\ (step # "browser" \/ breakCurrentTask))
    /\ SF_vars(LockAcquired)
    /\ SF_vars(HandleAsyncUpdate)

FairSpec == Spec /\ Fairness

-----------------------------------------------------------------------------
(* Properties.                                                             *)

\* The bodies of the four tasks return what WorkerHandoff assumes of them:
\* in particular a startup returns no result only when it was broken or the
\* thread must exit, at every early return.
ImplementsHandoff == H!Spec

\* docs/inlay_product_unlocking.md:25: a temporary network failure does not
\* lock an otherwise valid token.  Whatever happens to requests and files, an
\* unlocked product locks only when its published token has been withdrawn, by
\* a logout, or, where no other instance interferes, because the token on disk
\* is no longer valid or was deleted upon a rejection.
OnlyWithdrawalLocks ==
    [][status = "unlocked" /\ status' # "unlocked" =>
         /\ validated' = NoToken
         /\ caller' = "clearing" \/ others \/ ~IsValid(accessTokenFile)]_vars

\* An unlocked product has a validated token to show for it (getCurrentUser()
\* names a user), except within a refresh that found otherwise and is about
\* to report it, and in a destructor that no longer lets it.
UnlockedHasToken ==
    status = "unlocked" /\ ~Refreshing /\ ~H!Destroying => validated # NoToken

\* A product unlocked on its own (no other instance touching the directory)
\* still has its identity on disk, so that it can renew access after a
\* restart: no order of activation, logout and rejected requests unlocks a
\* product whose identity was deleted.
UnlockedIsPersisted ==
    ~others /\ status = "unlocked" /\ ~Refreshing /\ ~H!Destroying
        => idTokenFile

\* An unlock that was started comes to an end: unlocked, locked or reporting
\* an error; lock contention, breaks and follow-up tasks do not go on for ever.
UnlockResolves ==
    status = "unlocking" /\ ~hasError
        ~> status # "unlocking" \/ hasError \/ H!Destroying

\* docs/inlay_product_unlocking.md:347: "Calling `logout()` clears the saved
\* identity/access state and moves the unlocker back to
\* `Status::activationRequired`."  With nothing requested since, and the
\* unlocker at rest, neither token file is there.
LogoutClears ==
    ~others /\ loggedOut /\ caller = "idle" /\ currentTask = "none" =>
        /\ ~idTokenFile
        /\ accessTokenFile = NoToken
=============================================================================
