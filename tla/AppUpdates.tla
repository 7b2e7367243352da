----------------------------- MODULE AppUpdates -----------------------------
(***************************************************************************)
(* The app update notice: the worker publishes it from update.json and     *)
(* skipped-update.json at a startup and replaces it after every access     *)
(* response; DefaultUI, on the message thread, prompts for it, and its     *)
(* dialog may make the unlocker skip it.  Of the status only "unlocked"    *)
(* matters here: WorkerHandoff and Unlocker model the rest.                *)
(***************************************************************************)
CONSTANTS
    Versions,
    None,           \* no version
    Running,        \* getProductVersionString(), None if never reported
    WritesFail      \* whether a file may fail to be written

ASSUME VersionsAssumption == None \notin Versions
ASSUME WritesAssumption == WritesFail \in BOOLEAN

VARIABLES
    updateFile, skippedFile,
    appUpdate, skippedVersion,  \* the members of _state
    unlocked,       \* whether the status is Status::unlocked
    changed,        \* a change message is on its way
    refreshDue,     \* pendingTask is refreshAccessWithDelay
    broken,         \* breakCurrentTask
    worker,         \* where the task is
    task,
    readUpdate, readSkipped,    \* what the startup task read
    caller,         \* where the message thread is
    callerVersion,  \* the version that getAppUpdate() gave it
    shown,          \* _shownAppUpdateVersion
    dialogs,        \* the versions named by open dialogs
    published,      \* history: a startup of this session has published
    fresh,          \* history: until a refresh task begins, or update.json
                    \* cannot be written
    decided,        \* history: the version of the last skip that was written
    promised        \* history: decided by an earlier session, unless this
                    \* one skipped a version too

files == <<updateFile, skippedFile>>
state == <<appUpdate, skippedVersion>>
work == <<worker, task, readUpdate, readSkipped>>
flags == <<unlocked, refreshDue, broken>>
ui == <<caller, callerVersion, shown, dialogs>>
history == <<published, fresh, decided, promised>>
vars == <<files, state, flags, changed, work, ui, history>>

Optional == Versions \cup {None}

TypeOK ==
    /\ {updateFile, skippedFile, appUpdate, skippedVersion} \subseteq Optional
    /\ {readUpdate, readSkipped, callerVersion, shown} \subseteq Optional
    /\ {unlocked, refreshDue, broken, changed, published, fresh} \subseteq BOOLEAN
    /\ worker \in {"idle", "readSkipped", "publish", "request", "save",
                   "write", "saved", "finish"}
    /\ task \in {"none", "startup", "activation", "refresh"}
    /\ caller \in {"idle", "skip", "persist", "content"}
    /\ dialogs \subseteq Versions
    /\ {decided, promised} \subseteq Optional

\* getVisibleAppUpdate()
Visible ==
    IF appUpdate \in {None, skippedVersion, Running} THEN None ELSE appUpdate

Init ==
    /\ updateFile \in Optional
    /\ skippedFile = None
    /\ appUpdate = None /\ skippedVersion = None
    /\ unlocked = FALSE /\ changed = FALSE
    /\ refreshDue = FALSE /\ broken = FALSE
    /\ worker = "idle" /\ task = "none"
    /\ readUpdate = None /\ readSkipped = None
    /\ caller = "idle" /\ callerVersion = None
    /\ shown = None /\ dialogs = {}
    /\ published = FALSE /\ fresh = TRUE
    /\ decided = None /\ promised = None

-----------------------------------------------------------------------------
(* The worker.                                                             *)

\* The first startup, a retry, one for an activation event, or one that
\* follows a failed refresh.  Broken before it begins, or without a directory,
\* it ends at once and has read nothing.
BeginStartup ==
    /\ worker = "idle"
    /\ ~unlocked
    /\ changed' \in {changed, TRUE}
    /\ \/ /\ task' = "startup"
          /\ readUpdate' = updateFile
          /\ worker' = "readSkipped"
       \/ UNCHANGED <<task, readUpdate, worker>>
    /\ UNCHANGED <<files, state, flags, readSkipped, ui, history>>

ReadSkipped ==
    /\ worker = "readSkipped"
    /\ readSkipped' = skippedFile
    /\ worker' = "publish"
    /\ UNCHANGED <<files, state, flags, changed, task, readUpdate, ui, history>>

\* Mutant: the skipped version is forgotten.
PublishUpdateOnly ==
    /\ worker = "publish"
    /\ appUpdate' = readUpdate
    /\ worker' = "request"
    /\ readUpdate' = None /\ readSkipped' = None
    /\ published' = TRUE
    /\ UNCHANGED <<files, skippedVersion, flags, changed, task, ui, fresh,
                   decided, promised>>

\* What was read with the lock released is published under it.
PublishFiles ==
    /\ worker = "publish"
    /\ appUpdate' = readUpdate
    /\ skippedVersion' = readSkipped
    /\ worker' = "request"
    /\ readUpdate' = None /\ readSkipped' = None
    /\ published' = TRUE
    /\ UNCHANGED <<files, flags, changed, task, ui, fresh, decided, promised>>

\* Of a product that requires activation: a logout brings a session there also
\* before a startup has read the files.
BeginActivation ==
    /\ worker = "idle"
    /\ ~unlocked
    /\ task' = "activation"
    /\ worker' = "request"
    /\ UNCHANGED <<files, state, flags, changed, readUpdate, readSkipped, ui,
                   history>>

BeginRefresh ==
    /\ worker = "idle"
    /\ refreshDue
    /\ refreshDue' = FALSE
    /\ task' = "refresh"
    /\ worker' = "request"
    /\ fresh' = FALSE
    /\ UNCHANGED <<files, state, unlocked, broken, changed, readUpdate,
                   readSkipped, ui, published, decided, promised>>

\* No request was needed, or it brought an access token, or nothing.
RequestEnds ==
    /\ worker = "request"
    /\ worker' \in {"finish", "save"}
    /\ UNCHANGED <<files, state, flags, changed, task, readUpdate, readSkipped,
                   ui, history>>

\* saveAppUpdateFromResponse(), under the lock and then without it.
SaveAppUpdate ==
    /\ worker = "save"
    /\ appUpdate' \in Optional
    /\ worker' = "write"
    /\ UNCHANGED <<files, skippedVersion, flags, changed, task, readUpdate,
                   readSkipped, ui, history>>

WriteAppUpdate ==
    /\ worker = "write"
    /\ \/ updateFile' = appUpdate /\ UNCHANGED fresh
       \/ WritesFail /\ fresh' = FALSE /\ UNCHANGED updateFile
    /\ worker' = "saved"
    /\ UNCHANGED <<skippedFile, state, flags, changed, task, readUpdate,
                   readSkipped, ui, published, decided, promised>>

\* A valid token that a startup found may be due for a refresh, one that a
\* startup or an activation has just saved is not.
Unlock ==
    /\ task # "refresh"
    /\ worker = "saved" \/ task = "startup"
    /\ unlocked' = TRUE
    /\ refreshDue' \in {FALSE, worker = "finish"}
    /\ changed' = TRUE

\* An error, a rejection, or a token that has expired.
Relock ==
    /\ worker = "finish"
    /\ unlocked' = FALSE
    /\ refreshDue' = FALSE
    /\ changed' = TRUE

\* The instance lock is taken, or no callback came, or no refresh is needed,
\* or it failed; "Change is not triggered" when it saved an update.
Stay ==
    /\ worker = "finish" \/ task = "refresh"
    /\ refreshDue' \in {FALSE, worker = "finish" /\ task = "refresh"}
    /\ changed' \in {changed, changed \/ worker = "finish"}
    /\ UNCHANGED unlocked

\* Mutant: the end of a task is announced only when there is no update.
FinishQuietly ==
    /\ worker \in {"saved", "finish"}
    /\ worker' = "idle"
    /\ task' = "none"
    /\ broken' = FALSE
    /\ unlocked' \in (IF broken THEN {unlocked} ELSE BOOLEAN)
    /\ refreshDue' = FALSE
    /\ changed' = (changed \/ Visible = None)
    /\ UNCHANGED <<files, state, readUpdate, readSkipped, ui, history>>

\* handleTaskResult(): of a broken task "any state updates are ignored".
Finish ==
    /\ worker \in {"saved", "finish"}
    /\ IF broken
       THEN UNCHANGED <<unlocked, refreshDue, changed>>
       ELSE Unlock \/ Relock \/ Stay
    /\ worker' = "idle"
    /\ task' = "none"
    /\ broken' = FALSE
    /\ UNCHANGED <<files, state, readUpdate, readSkipped, ui, history>>

WorkerStep ==
    \/ ReadSkipped
    \/ PublishFiles
    \/ RequestEnds
    \/ SaveAppUpdate
    \/ WriteAppUpdate
    \/ Finish

-----------------------------------------------------------------------------
(* The message thread.                                                     *)

\* logout(), whatever the status and the task; a start of an activation, a
\* retry or an event breaks the task of a locked product just so.
Logout ==
    /\ caller = "idle"
    /\ unlocked' = FALSE
    /\ refreshDue' = FALSE
    /\ broken' = (worker # "idle")
    /\ changed' = TRUE
    /\ UNCHANGED <<files, state, work, ui, history>>

\* DefaultUI::updateContent() asks for the update and then for the status.
UpdateContent ==
    /\ caller = "idle"
    /\ changed
    /\ changed' = FALSE
    /\ callerVersion' = Visible
    /\ caller' = "content"
    /\ UNCHANGED <<files, state, flags, work, shown, dialogs, history>>

\* Unlocked with an update, notifyAppUpdate() asks once more.
ShowContent ==
    /\ caller = "content"
    /\ caller' = "idle"
    /\ callerVersion' = None
    /\ IF ~unlocked \/ callerVersion = None
       THEN shown' = None /\ UNCHANGED dialogs
       ELSE IF Visible \in {None, shown} THEN UNCHANGED <<shown, dialogs>>
       ELSE shown' = Visible /\ dialogs' = dialogs \cup {Visible}
    /\ UNCHANGED <<files, state, flags, changed, work, history>>

\* "Later", or "Go to Update".
CloseDialog(v) ==
    /\ caller = "idle"
    /\ v \in dialogs
    /\ dialogs' = dialogs \ {v}
    /\ UNCHANGED <<files, state, flags, changed, work, caller, callerVersion,
                   shown, history>>

\* "Skip" is skipCurrentAppUpdateVersion(): the version now visible, if any.
PressSkip(v) ==
    /\ caller = "idle"
    /\ v \in dialogs
    /\ dialogs' = dialogs \ {v}
    /\ callerVersion' = Visible
    /\ caller' = IF Visible = None THEN "idle" ELSE "skip"
    /\ UNCHANGED <<files, state, flags, changed, work, shown, published,
                   fresh, decided, promised>>

SetSkipped ==
    /\ caller = "skip"
    /\ skippedVersion' = callerVersion
    /\ promised' = None
    /\ caller' = "persist"
    /\ UNCHANGED <<files, appUpdate, flags, changed, work, callerVersion,
                   shown, dialogs, published, fresh, decided>>

PersistSkipped ==
    /\ caller = "persist"
    /\ \/ skippedFile' = callerVersion /\ decided' = callerVersion
       \/ WritesFail /\ UNCHANGED <<skippedFile, decided>>
    /\ caller' = "idle"
    /\ callerVersion' = None
    /\ changed' = TRUE
    /\ UNCHANGED <<updateFile, state, flags, work, shown, dialogs, published,
                   fresh, promised>>

\* The editor is closed and opened again: its dialogs come to nothing, and a
\* new DefaultUI begins with updateContent().
ReopenEditor ==
    /\ caller = "idle"
    /\ shown' = None
    /\ dialogs' = {}
    /\ changed' = TRUE
    /\ UNCHANGED <<files, state, flags, work, caller, callerVersion, history>>

MessageThreadStep == UpdateContent \/ ShowContent \/ SetSkipped \/ PersistSkipped

-----------------------------------------------------------------------------
\* The process ends anywhere, and a new one starts from the files.
Restart ==
    /\ appUpdate' = None /\ skippedVersion' = None
    /\ unlocked' = FALSE /\ changed' = FALSE
    /\ refreshDue' = FALSE /\ broken' = FALSE
    /\ worker' = "idle" /\ task' = "none"
    /\ readUpdate' = None /\ readSkipped' = None
    /\ caller' = "idle" /\ callerVersion' = None
    /\ shown' = None /\ dialogs' = {}
    /\ published' = FALSE /\ fresh' = TRUE
    /\ promised' = decided
    /\ UNCHANGED <<files, decided>>

Next ==
    \/ BeginStartup
    \/ BeginActivation
    \/ BeginRefresh
    \/ Logout
    \/ WorkerStep
    \/ MessageThreadStep
    \/ \E v \in Versions : CloseDialog(v) \/ PressSkip(v)
    \/ ReopenEditor
    \/ Restart

Spec == Init /\ [][Next]_vars

\* Neither thread stops in the middle of what it does; change messages are
\* delivered.
FairSpec == Spec /\ WF_vars(WorkerStep) /\ WF_vars(MessageThreadStep)

-----------------------------------------------------------------------------
(* Properties.                                                             *)

\* A skip that was written holds in every later session that skips nothing
\* else, whatever was interrupted and whatever versions the server reports
\* before and after, from the first startup that read the files on.  A session
\* logged out before that, and then activated, offers the version again.
SkipSurvivesRestart ==
    promised # None /\ published => Visible # promised

Offered(v) ==
    updateFile = v /\ v # Running /\ v \notin {skippedFile, skippedVersion}

\* UnlockerImpl.cpp:850: "just saving the update (if any). Change is not
\* triggered, assuming the notification will be delivered on next startup":
\* if the file holds an offer, a session that unlocks prompts it.
SavedUpdateIsPrompted ==
    \A v \in Versions :
        unlocked /\ fresh /\ Offered(v)
            ~> shown = v \/ ~unlocked \/ ~fresh \/ ~Offered(v)
=============================================================================
