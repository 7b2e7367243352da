------------------------ MODULE HandoffUsersProofs ------------------------
(***************************************************************************)
(* What runs on top of the two threads of WorkerHandoff: the overlay of an *)
(* editor (DefaultUI) and the listener of an activation (AuthCallback).    *)
(* Each implements WorkerHandoff, and so everything proved there holds of  *)
(* it; the inductive invariants add what is theirs.                        *)
(***************************************************************************)
EXTENDS DefaultUI, AuthCallback, WorkerHandoffProofs, SequenceTheorems, TLAPS

-----------------------------------------------------------------------------
(* The overlay.                                                            *)

UITyped ==
    /\ editor \in {"closed", "built", "open"}
    /\ embedding \in Embeddings
    /\ {changeMessage, updating, seenError} \subseteq BOOLEAN
    /\ shown \in Screens

\* While an editor is being built or updateContent() runs, the message thread
\* does nothing else; the destructor of the unlocker finds no editor.
OneThingAtATime ==
    /\ updating \/ editor = "built" => caller = "idle"
    /\ updating => editor # "closed"
    /\ Destroying => editor = "closed"

\* Something is on its way that ends in a change message.
Pending ==
    \/ asyncUpdate
    \/ changeMessage
    \/ "update" \in workerOwes
    \/ caller \in {"starting", "clearing", "watcher"}

UpToDate ==
    CASE updating -> seenError = hasError
      [] ~updating /\ editor = "built" -> shown = ScreenFor(status, hasError, shown)
      [] ~updating /\ editor # "built" -> Shows(ScreenFor(status, hasError, shown))

Informed == editor # "closed" /\ status # "undefined" => Pending \/ UpToDate

UIInv == IInv /\ UITyped /\ OneThingAtATime /\ Informed

-----------------------------------------------------------------------------
\* Whatever the message thread does with an editor, underneath it is a step of
\* the two threads, or none.
LEMMA HandoffUnderneath == [UINext]_uiVars => [Next]_vars
BY DEF UINext, uiVars, Request, DestroyUnlocker, UpdateWatcherAndBroadcast, CallerContinues,
       Worker, OpenEditor, EmbedOverlay, CloseEditor, ChangeListenerCallback, UpdateContent,
       Next, CallerStep

\* updateContent() leaves a screen.
LEMMA ScreensTyped ==
    ASSUME NEW st \in Statuses, NEW error \in BOOLEAN, NEW old \in Screens
    PROVE  ScreenFor(st, error, old) \in Screens
BY DEF ScreenFor, Screen, Screens, Statuses

\* Only Status::undefined leaves the overlay as it was.
LEMMA OldScreenIsReplaced ==
    ASSUME NEW st \in Statuses \ {"undefined"}, NEW error \in BOOLEAN, NEW old, NEW other
    PROVE  /\ ScreenFor(st, error, old) = ScreenFor(st, error, other)
           /\ ScreenFor(st, error, old).visible = (st # "unlocked")
           /\ ScreenFor(st, error, old) \in Screens
<1>1. CASE st = "activationRequired"
  BY <1>1 DEF ScreenFor, Screen, Screens
<1>2. CASE st = "unlocking" /\ error
  BY <1>2 DEF ScreenFor, Screen, Screens
<1>3. CASE st = "unlocking" /\ ~error
  BY <1>3 DEF ScreenFor, Screen, Screens
<1>4. CASE st = "unlocked"
  BY <1>4 DEF ScreenFor, Screen, Screens
<1> QED
  BY <1>1, <1>2, <1>3, <1>4 DEF Statuses

\* The variables of the overlay keep their types.
LEMMA UITypedStep == IInv /\ UITyped /\ [UINext]_uiVars => UITyped'
<1> SUFFICES ASSUME IInv, UITyped, [UINext]_uiVars PROVE UITyped'
  OBVIOUS
<1>1. status \in Statuses /\ hasError \in BOOLEAN
  BY DEF IInv, TypeOK
<1> USE DEF UITyped
<1>2. CASE OpenEditor
  BY <1>1, <1>2 DEF OpenEditor, NewOverlay, Screen, Screens
<1>3. CASE EmbedOverlay
  <2>1. \A b \in BOOLEAN : [shown EXCEPT !.visible = b] \in Screens
    BY DEF Screens
  <2>2. shown.visible \in BOOLEAN
    BY DEF Screens
  <2>3. embedding \in {"child", "matched", "visible"}
    BY EmbeddingsAssumption
  <2>4. PICK b \in BOOLEAN : shown' = [shown EXCEPT !.visible = b]
    BY <1>3, <2>2, <2>3 DEF EmbedOverlay
  <2> QED
    BY <1>3, <2>1, <2>4 DEF EmbedOverlay
<1>4. CASE CloseEditor
  BY <1>4 DEF CloseEditor, NewOverlay, Screen, Screens
<1>5. CASE ChangeListenerCallback
  BY <1>1, <1>5 DEF ChangeListenerCallback
<1>6. CASE UpdateContent
  <2>1. shown' = ScreenFor(status, seenError, shown) /\ updating' = FALSE /\ seenError' = FALSE
        /\ UNCHANGED <<editor, embedding, changeMessage>>
    BY <1>6 DEF UpdateContent
  <2>2. ScreenFor(status, seenError, shown) \in Screens
    BY <1>1, ScreensTyped
  <2> QED
    BY <2>1, <2>2
<1>7. CASE UpdateWatcherAndBroadcast
  BY <1>7 DEF UpdateWatcherAndBroadcast
<1>8. CASE Request \/ DestroyUnlocker \/ CallerContinues \/ Worker \/ UNCHANGED uiVars
  BY <1>8 DEF Request, DestroyUnlocker, CallerContinues, Worker, uiVars, ui
<1> QED
  BY <1>2, <1>3, <1>4, <1>5, <1>6, <1>7, <1>8 DEF UINext

\* An editor cannot come in between, nor outlive the processor.
LEMMA OneThingStep == IInv /\ OneThingAtATime /\ [UINext]_uiVars => OneThingAtATime'
<1> SUFFICES ASSUME IInv, OneThingAtATime, [UINext]_uiVars PROVE OneThingAtATime'
  OBVIOUS
<1> USE DEF OneThingAtATime, Destroying, DestructorPlaces, uiIdle, ui
<1>1. CASE Request
  BY <1>1 DEF Request, Startup, StartActivation, RetryUnlocking, CheckActivationEvent, Logout,
     HandleAsyncUpdate
<1>2. CASE DestroyUnlocker
  BY <1>2 DEF DestroyUnlocker, Destroy
<1>3. CASE UpdateWatcherAndBroadcast
  BY <1>3 DEF UpdateWatcherAndBroadcast, UpdateActivationEventWatcher
<1>4. CASE CallerContinues
  BY <1>4 DEF CallerContinues, CallerNotify, DestructorSignals, DestructorSetsExit,
     DestructorJoins
<1>5. CASE Worker
  BY <1>5 DEF Worker, WorkerStep, RunLoop, WakeUp, CheckExit, TakeTask, WorkerNotify, TaskEnds,
     HandleTaskResult, message
<1>6. CASE OpenEditor \/ ChangeListenerCallback
  BY <1>6 DEF OpenEditor, ChangeListenerCallback, vars
<1>8. CASE EmbedOverlay \/ CloseEditor \/ UpdateContent
  <2>1. caller' = caller /\ (editor' # "closed" => editor # "closed")
    BY <1>8 DEF EmbedOverlay, CloseEditor, UpdateContent, vars
  <2>2. /\ updating' => updating
        /\ editor' = "built" => editor = "built"
        /\ updating' => editor' = editor
        /\ editor = "closed" => editor' = "closed"
    <3>1. CASE EmbedOverlay
      BY <3>1 DEF EmbedOverlay
    <3>2. CASE CloseEditor
      BY <3>2 DEF CloseEditor
    <3>3. CASE UpdateContent
      BY <3>3 DEF UpdateContent
    <3> QED
      BY <1>8, <3>1, <3>2, <3>3
  <2> QED
    BY <2>1, <2>2
<1>7. CASE UNCHANGED uiVars
  BY <1>7 DEF uiVars, vars
<1> QED
  BY <1>1, <1>2, <1>3, <1>4, <1>5, <1>6, <1>7, <1>8 DEF UINext

\* A step that publishes nothing new, or announces what it publishes, and
\* leaves the overlay alone.
LEMMA Announced ==
    ASSUME Informed, UNCHANGED ui,
           Pending' \/ (UNCHANGED <<status, hasError>> /\ (Pending => Pending'))
    PROVE  Informed'
BY DEF Informed, UpToDate, Shows, ui

\* Each step that makes the screen outdated puts a notification on its way, and
\* one that takes the last of these away leaves the screen right.
LEMMA InformedStep ==
    IInv /\ UITyped /\ OneThingAtATime /\ Informed /\ [UINext]_uiVars => Informed'
<1> SUFFICES ASSUME IInv, UITyped, OneThingAtATime, Informed, [UINext]_uiVars PROVE Informed'
  OBVIOUS
<1>0. status \in Statuses /\ hasError \in BOOLEAN /\ seenError \in BOOLEAN
  BY DEF IInv, TypeOK, UITyped
<1>1. CASE Request
  <2>1. Pending' /\ UNCHANGED ui
    BY <1>1 DEF Request, Pending, Startup, StartActivation, RetryUnlocking, CheckActivationEvent,
                Logout, HandleAsyncUpdate
  <2> QED
    BY <2>1, Announced
<1>2. CASE DestroyUnlocker
  BY <1>2 DEF DestroyUnlocker, Informed, ui
<1>3. CASE UpdateWatcherAndBroadcast
  BY <1>3 DEF UpdateWatcherAndBroadcast, UpdateActivationEventWatcher, Informed, Pending
<1>4. CASE CallerContinues
  <2>1. CASE CallerNotify
    <3>1. Pending' /\ UNCHANGED ui
      BY <1>4, <2>1 DEF CallerContinues, CallerNotify, Pending
    <3> QED
      BY <3>1, Announced
  <2>2. CASE DestructorSignals \/ DestructorSetsExit \/ DestructorJoins
    <3>1. editor' = "closed"
      BY <1>4, <2>2 DEF CallerContinues, DestructorSignals, DestructorSetsExit, DestructorJoins,
         OneThingAtATime,
         Destroying, DestructorPlaces, ui
    <3> QED
      BY <3>1 DEF Informed
  <2> QED
    BY <1>4, <2>1, <2>2 DEF CallerContinues
<1>5. CASE Worker
  <2>1. CASE RunLoop \/ WakeUp \/ CheckExit \/ TakeTask
    <3>1. /\ UNCHANGED <<status, hasError, workerOwes, asyncUpdate, caller>> /\ UNCHANGED ui
      BY <1>5, <2>1 DEF Worker, RunLoop, WakeUp, CheckExit, TakeTask, shared, message
    <3> QED
      BY <3>1, Announced DEF Pending, ui
  <2>2. CASE WorkerNotify
    <3>1. /\ UNCHANGED <<status, hasError, caller>> /\ UNCHANGED ui
          /\ asyncUpdate' = (asyncUpdate \/ "update" \in workerOwes)
      BY <1>5, <2>2 DEF Worker, WorkerNotify, shared, message
    <3> QED
      BY <3>1, Announced DEF Pending, ui
  <2>3. CASE TaskEnds
    <3>1. UNCHANGED ui /\ workerOwes = {}
      BY <1>5, <2>3 DEF Worker, TaskEnds, HandleTaskResult, IInv, WorkerPlaced
    <3>2. PICK res \in ResultsOf(currentTask) : HandleTaskResult(res)
      BY <2>3 DEF TaskEnds
    <3>3. UNCHANGED <<asyncUpdate, caller, changeMessage>>
      BY <3>1, <3>2 DEF HandleTaskResult, message, ui
    <3>4. \/ UNCHANGED <<status, hasError, workerOwes>>
          \/ "update" \in workerOwes'
          \/ UNCHANGED <<status, hasError>>
      BY <1>0, <3>2 DEF HandleTaskResult, DropResult, ApplyResult, Owed, StatusAfter
    <3> QED
      BY <3>1, <3>3, <3>4, Announced DEF Pending
  <2> QED
    BY <1>5, <2>1, <2>2, <2>3 DEF Worker, WorkerStep
<1>6. CASE OpenEditor
  <2>1. updating' = TRUE /\ seenError' = hasError /\ UNCHANGED hasError
    BY <1>6 DEF OpenEditor, vars
  <2> QED
    BY <2>1 DEF Informed, UpToDate
<1>7. CASE EmbedOverlay
  <2>1. /\ editor = "built" /\ ~updating /\ editor' = "open"
        /\ UNCHANGED <<status, hasError, asyncUpdate, workerOwes, caller, embedding, changeMessage, updating>>
        /\ shown' = [shown EXCEPT !.visible = CASE embedding = "child" -> shown.visible
                                               [] embedding = "visible" -> TRUE
                                               [] embedding = "matched" -> status # "unlocked"]
    BY <1>7 DEF EmbedOverlay, vars
  <2> SUFFICES ASSUME status # "undefined", ~Pending PROVE Shows(ScreenFor(status, hasError, shown))'
    BY <2>1 DEF Informed, Pending, UpToDate
  <2> DEFINE screen == ScreenFor(status, hasError, shown)
  <2>2. shown = screen
    BY <2>1 DEF Informed, UpToDate
  <2>3. /\ screen' = screen
        /\ screen.visible = (status # "unlocked")
        /\ screen \in Screens
    BY <1>0, <2>1, OldScreenIsReplaced
  <2> HIDE DEF screen
  <2>4. embedding \in {"child", "matched", "visible"}
    BY EmbeddingsAssumption DEF UITyped
  <2>5. Shows(screen)'
    BY <2>1, <2>2, <2>3, <2>4 DEF Shows, Screens
  <2> QED
    BY <2>5 DEF screen
<1>8. CASE CloseEditor
  BY <1>8 DEF CloseEditor, Informed
<1>9. CASE ChangeListenerCallback
  <2>1. /\ updating' = (editor = "open") /\ seenError' = (editor = "open" /\ hasError)
        /\ UNCHANGED <<hasError, editor>> /\ editor # "built"
    BY <1>9 DEF ChangeListenerCallback, vars, uiIdle
  <2> QED
    BY <1>0, <2>1 DEF Informed, UpToDate, UITyped
<1>10. CASE UpdateContent
  <2>1. /\ updating /\ ~updating' /\ shown' = ScreenFor(status, seenError, shown)
        /\ UNCHANGED <<status, hasError, asyncUpdate, workerOwes, caller, editor, embedding, changeMessage>>
    BY <1>10 DEF UpdateContent, vars
  <2> SUFFICES ASSUME editor # "closed", status # "undefined", ~Pending PROVE UpToDate'
    BY <2>1 DEF Informed, Pending
  <2>2. seenError = hasError
    BY <2>1 DEF Informed, UpToDate
  <2>3. shown' = ScreenFor(status, hasError, shown)
        /\ ScreenFor(status, hasError, shown) = ScreenFor(status, hasError, shown')
    BY <1>0, <2>1, <2>2, OldScreenIsReplaced
  <2>4. shown' = ScreenFor(status', hasError', shown')
    BY <2>1, <2>3
  <2> QED
    BY <2>1, <2>4 DEF UpToDate, Shows
<1>11. CASE UNCHANGED uiVars
  <2>1. UNCHANGED ui /\ UNCHANGED <<status, hasError, asyncUpdate, workerOwes, caller>>
    BY <1>11 DEF uiVars, vars
  <2> QED
    BY <2>1, Announced DEF Pending, ui
<1> QED
  BY <1>1, <1>2, <1>3, <1>4, <1>5, <1>6, <1>7, <1>8, <1>9, <1>10, <1>11 DEF UINext

\* UIInv is inductive.
LEMMA UIInvariant == UISpec => []UIInv
<1>1. UIInit => UIInv
  <2> SUFFICES ASSUME UIInit PROVE UIInv
    OBVIOUS
  <2>1. IInv
    BY InitInv DEF UIInit
  <2>2. UITyped
    BY DEF UIInit, UITyped, NewOverlay, Screen, Screens
  <2>3. OneThingAtATime
    BY DEF UIInit, Init, OneThingAtATime, Destroying, DestructorPlaces
  <2>4. Informed
    BY DEF UIInit, Informed
  <2> QED
    BY <2>1, <2>2, <2>3, <2>4 DEF UIInv
<1>2. UIInv /\ [UINext]_uiVars => UIInv'
  BY HandoffUnderneath, InvStep, UITypedStep, OneThingStep, InformedStep DEF UIInv
<1> QED
  BY <1>1, <1>2, PTL DEF UISpec

\* What is shown once all is delivered.
LEMMA SettledShows ==
    UIInv /\ Settled /\ status # "undefined" => Shows(ScreenFor(status, hasError, shown))
<1> SUFFICES ASSUME UIInv, Settled, status # "undefined"
             PROVE  Shows(ScreenFor(status, hasError, shown))
  OBVIOUS
<1>1. ~Pending /\ editor = "open" /\ ~updating
  BY DEF Settled, Pending, uiIdle
<1> QED
  BY <1>1 DEF UIInv, Informed, UpToDate

\* An editor makes the message thread do nothing to the unlocker that
\* WorkerHandoff does not have (DefaultUI.cpp calls it through its public
\* operations).
THEOREM ThreadsUnderneath == UISpec => Spec
<1>1. UIInit => Init
  BY DEF UIInit
<1> QED
  BY <1>1, HandoffUnderneath, PTL DEF UISpec, Spec

\* With editors coming and going, what is proved of the two threads holds, and
\* an owner sees the status machine (UnlockerImpl, DefaultUI).
THEOREM ThreadsStayRight ==
    UISpec => /\ ImplementsLicenseStatus
              /\ []TaskMatchesStatus
              /\ []UnlockingHasWork
              /\ []NoLostWakeup
              /\ []WatcherSettled
              /\ []QuietAfterDestructor
BY ThreadsUnderneath, Refinement, LateResultsAreHarmless, NeverStuckUnlocking, WakeupsAreNotLost,
   WatcherIsRight, NothingIsLeft

\* With every notification delivered the overlay shows the error and the status
\* that are there: they were read one after the other, notifications coalesce,
\* and editors open at any time (updateContent()).
THEOREM ShownIsTrue == UISpec => []ContentSettled
<1>1. UIInv => ContentSettled
  BY SettledShows DEF ContentSettled
<1> QED
  BY <1>1, UIInvariant, PTL

\* With every notification delivered the user of a locked product sees buttons
\* that work, or a startup is under way whose result counts (updateContent(),
\* prepareStartActivation(), prepareRetryUnlocking()).
THEOREM NobodyIsStranded == UISpec => []NoDeadEnd
<1>1. UIInv => NoDeadEnd
  <2> SUFFICES ASSUME UIInv, Settled, status \in {"activationRequired", "unlocking"}
               PROVE  /\ shown.visible
                      /\ \A request \in Buttons(shown) : Accepted(request)
                      /\ Buttons(shown) # {} \/ Operation = "unlock"
    BY DEF NoDeadEnd
  <2> DEFINE screen == ScreenFor(status, hasError, shown)
  <2>1. /\ status \in Statuses \ {"undefined"} /\ hasError \in BOOLEAN
        /\ ~Destroying
    BY DEF UIInv, IInv, TypeOK, OneThingAtATime, Settled
  <2>2. Shows(screen)
    BY SettledShows
  <2>3. CASE status = "activationRequired"
    <3>1. screen = Screen("activate", hasError, TRUE)
      BY <2>3 DEF ScreenFor
    <3>2. shown.message = "activate" /\ shown.visible
      BY <2>2, <3>1 DEF Shows, Screen
    <3> QED
      BY <2>3, <3>2 DEF Buttons, Accepted
  <2>4. CASE status = "unlocking" /\ hasError
    <3>1. screen = Screen("failed", TRUE, TRUE)
      BY <2>4 DEF ScreenFor
    <3>2. shown.message = "failed" /\ shown.visible
      BY <2>2, <3>1 DEF Shows, Screen
    <3> QED
      BY <2>4, <3>2 DEF Buttons, Accepted
  <2>5. CASE status = "unlocking" /\ ~hasError
    <3>1. screen = Screen("unlocking", FALSE, TRUE)
      BY <2>5 DEF ScreenFor
    <3>2. shown.message = "unlocking" /\ shown.visible
      BY <2>2, <3>1 DEF Shows, Screen
    <3>3. Buttons(shown) = {}
      BY <3>2 DEF Buttons
    <3>4. Operation = "unlock"
      BY <2>1, <2>5 DEF UIInv, IInv, UnlockingHasWork, QueuedBreaksRunning, Operation,
         OperationOf, StartupTasks
    <3> QED
      BY <3>2, <3>3, <3>4
  <2> QED
    BY <2>1, <2>3, <2>4, <2>5
<1> QED
  BY <1>1, UIInvariant, PTL

-----------------------------------------------------------------------------
(* The listener.                                                           *)

\* The port that an activation waits on was opened by it, with no connection
\* from before.
BacklogIsOwn == Waiting => \A i \in DOMAIN backlog : backlog[i].own

CallbackInv ==
    /\ backlog \in Seq(Connections)
    /\ client \in Connections
    /\ BacklogIsOwn
    /\ place = "reading" => client.own
    /\ OnlyOwnCallbackCompletes

\* No listener, no connection.
LEMMA CallbackInit == ListenerInit => CallbackInv
BY DEF ListenerInit, CallbackInv, BacklogIsOwn, OnlyOwnCallbackCompletes, Waiting, NoClient,
       Connection, Connections

\* Of the unlocker's own steps, WorkerTakesTask places the activation anew.
LEMMA CallbackOutside ==
    ASSUME CallbackInv, UNCHANGED <<bound, backlog, client, made>>,
           place' = place \/ place' \in {"off", "begin"}
    PROVE  CallbackInv'
BY DEF CallbackInv, BacklogIsOwn, OnlyOwnCallbackCompletes, Waiting

\* createListener() begins with an empty queue, and what connects while it is
\* waited on is its own.
LEMMA CallbackStep == CallbackInv /\ [ListenerNext]_listenerVars => CallbackInv'
<1> SUFFICES ASSUME CallbackInv, [ListenerNext]_listenerVars PROVE CallbackInv'
  OBVIOUS
<1>1. CASE MessageThread \/ MessageThreadContinues \/ WorkerContinues \/ OtherTaskEnds
  BY <1>1, CallbackOutside
  DEF MessageThread, MessageThreadContinues, WorkerContinues, OtherTaskEnds, listener
<1>2. CASE WorkerTakesTask
  BY <1>2, CallbackOutside DEF WorkerTakesTask
<1>3. CASE BeginActivation
  BY <1>3 DEF BeginActivation, CallbackInv, BacklogIsOwn, OnlyOwnCallbackCompletes, Waiting
<1>4. CASE CreateListener
  <2>1. backlog' = <<>> /\ place' \in {"polling", "failed"} /\ client' = client
    BY <1>4 DEF CreateListener, CreateListenerPort
  <2> QED
    BY <2>1 DEF CallbackInv, BacklogIsOwn, OnlyOwnCallbackCompletes
<1>5. CASE Poll
  BY <1>5 DEF Poll, CallbackInv, BacklogIsOwn, OnlyOwnCallbackCompletes, Waiting
<1>6. CASE Accept
  <2>1. CASE backlog = <<>>
    BY <1>6, <2>1 DEF Accept, CallbackInv, BacklogIsOwn, OnlyOwnCallbackCompletes, Waiting
  <2>2. CASE backlog # <<>>
    <3>1. /\ place = "accepting"
          /\ backlog' = Tail(backlog)
          /\ \/ client' = Head(backlog) /\ place' = "reading"
             \/ client' = client /\ place' = "polling"
      BY <1>6, <2>2 DEF Accept
    <3>2. backlog \in Seq(Connections) /\ \A i \in DOMAIN backlog : backlog[i].own
      BY <3>1 DEF CallbackInv, BacklogIsOwn, Waiting
    <3>3. Head(backlog) \in Connections /\ Head(backlog).own
      BY <2>2, <3>2
    <3>4. /\ Tail(backlog) \in Seq(Connections)
          /\ \A i \in DOMAIN Tail(backlog) : Tail(backlog)[i].own
      BY <2>2, <3>2
    <3> QED
      BY <3>1, <3>3, <3>4 DEF CallbackInv, BacklogIsOwn, OnlyOwnCallbackCompletes
  <2> QED
    BY <2>1, <2>2
<1>7. CASE ReadHttpRequest
  <2>1. /\ place = "reading" /\ place' = Answer(client)
        /\ UNCHANGED <<backlog, client>>
    BY <1>7 DEF ReadHttpRequest
  <2>2. Answer(client) \in {"polling", "complete", "nothing"}
    BY DEF Answer
  <2>3. Answer(client) = "complete" => client.asks = "ok" /\ client.sends = "line"
    BY DEF Answer
  <2> QED
    BY <2>1, <2>2, <2>3 DEF CallbackInv, BacklogIsOwn, OnlyOwnCallbackCompletes, Waiting
<1>8. CASE ActivationEnds
  <2>1. place' = "off" /\ client' = NoClient /\ backlog' = Disown
    BY <1>8 DEF ActivationEnds
  <2>2. Disown \in Seq(Connections)
    <3>1. backlog \in Seq(Connections)
      BY DEF CallbackInv
    <3>2. \A c \in Connections : [c EXCEPT !.own = FALSE] \in Connections
      BY DEF Connections
    <3>3. DOMAIN backlog = 1..Len(backlog) /\ Len(backlog) \in Nat
      BY <3>1
    <3>4. \A i \in DOMAIN backlog : backlog[i] \in Connections
      BY <3>1
    <3>5. Disown \in [1..Len(backlog) -> Connections]
      BY <3>2, <3>3, <3>4 DEF Disown
    <3> QED
      BY <3>3, <3>5, IsASeq
  <2>3. NoClient \in Connections
    BY DEF NoClient, Connection, Connections
  <2> QED
    BY <2>1, <2>2, <2>3 DEF CallbackInv, BacklogIsOwn, OnlyOwnCallbackCompletes, Waiting
<1>9. CASE Connect
  <2>1. PICK c \in Connections : c.own = Waiting /\ backlog' = Append(backlog, c)
    BY <1>9 DEF Connect
  <2>2. UNCHANGED <<place, client>>
    BY <1>9 DEF Connect
  <2>3. Append(backlog, c) \in Seq(Connections)
    BY <2>1 DEF CallbackInv
  <2>4. BacklogIsOwn'
    <3> SUFFICES ASSUME Waiting', NEW i \in DOMAIN Append(backlog, c)
                 PROVE  Append(backlog, c)[i].own
      BY <2>1 DEF BacklogIsOwn
    <3>1. Waiting
      BY <2>2 DEF Waiting
    <3>2. CASE i = Len(backlog) + 1
      <4>1. Append(backlog, c)[i] = c
        BY <3>2 DEF CallbackInv
      <4> QED
        BY <2>1, <3>1, <4>1
    <3>3. CASE i # Len(backlog) + 1
      <4>1. i \in DOMAIN backlog /\ Append(backlog, c)[i] = backlog[i]
        BY <3>3 DEF CallbackInv
      <4> QED
        BY <3>1, <4>1 DEF CallbackInv, BacklogIsOwn
    <3> QED
      BY <3>2, <3>3
  <2> QED
    BY <2>1, <2>2, <2>3, <2>4 DEF CallbackInv, OnlyOwnCallbackCompletes
<1>10. CASE UNCHANGED listenerVars
  BY <1>10, CallbackOutside DEF listenerVars, listener
<1> QED
  BY <1>1, <1>2, <1>3, <1>4, <1>5, <1>6, <1>7, <1>8, <1>9, <1>10 DEF ListenerNext, Activation

\* The listener is in use only while the worker runs an activation.
ActivationPlaced ==
    place # "off" => worker = "running" /\ currentTask = "startActivation"

\* handleTaskResult() ends the task and leaves the listener.
LEMMA PlacedStep == ActivationPlaced /\ [ListenerNext]_listenerVars => ActivationPlaced'
<1> SUFFICES ASSUME ActivationPlaced, [ListenerNext]_listenerVars PROVE ActivationPlaced'
  OBVIOUS
<1> USE DEF ActivationPlaced, listener
<1>1. CASE MessageThread
  BY <1>1 DEF MessageThread, Startup, StartActivation, RetryUnlocking, CheckActivationEvent,
              Logout, Destroy, HandleAsyncUpdate, threads, shared
<1>2. CASE MessageThreadContinues
  BY <1>2 DEF MessageThreadContinues, CallerStep, CallerNotify, UpdateActivationEventWatcher,
              DestructorSignals, DestructorSetsExit, DestructorJoins, shared
<1>3. CASE WorkerContinues
  BY <1>3 DEF WorkerContinues, RunLoop, WakeUp, CheckExit, WorkerNotify, shared
<1>4. CASE WorkerTakesTask
  BY <1>4 DEF WorkerTakesTask, TakeTask
<1>5. CASE OtherTaskEnds
  BY <1>5 DEF OtherTaskEnds
<1>6. CASE ActivationEnds
  BY <1>6 DEF ActivationEnds
<1>7. CASE BeginActivation \/ CreateListener \/ Poll \/ Accept \/ ReadHttpRequest \/ Connect
  <2>1. UNCHANGED <<worker, currentTask>> /\ (place = "off" => place' = "off")
    BY <1>7 DEF BeginActivation, CreateListener, Poll, Accept, ReadHttpRequest, Connect, vars
  <2> QED
    BY <2>1
<1>8. CASE UNCHANGED listenerVars
  BY <1>8 DEF listenerVars, vars
<1> QED
  BY <1>1, <1>2, <1>3, <1>4, <1>5, <1>6, <1>7, <1>8 DEF ListenerNext, Activation

\* An activation ends with one of the results that WorkerHandoff lets it
\* return, and while it waits the two threads do not move.
LEMMA HandoffUnderListener ==
    ActivationPlaced /\ [ListenerNext]_listenerVars => [Next]_vars
<1> SUFFICES ASSUME ActivationPlaced, [ListenerNext]_listenerVars PROVE [Next]_vars
  OBVIOUS
<1>1. CASE ActivationEnds
  <2>1. PICK res \in Results : HandleTaskResult(res)
    BY <1>1 DEF ActivationEnds
  <2>2. place \in {"failed", "nothing", "complete"}
    BY <2>1 DEF Results
  <2>3. currentTask = "startActivation"
    BY <2>2 DEF ActivationPlaced
  <2>4. Results \subseteq ActivationResults
    BY <2>2 DEF Results, ActivationResults
  <2>5. ResultsOf(currentTask) = ActivationResults
    BY <2>3 DEF ResultsOf, StartupTasks
  <2> QED
    BY <2>1, <2>4, <2>5 DEF TaskEnds, Next
<1>2. CASE BeginActivation \/ CreateListener \/ Poll \/ Accept \/ ReadHttpRequest \/ Connect
  BY <1>2 DEF BeginActivation, CreateListener, Poll, Accept, ReadHttpRequest, Connect
<1>3. CASE MessageThread \/ MessageThreadContinues \/ WorkerContinues \/ WorkerTakesTask
             \/ OtherTaskEnds
  BY <1>3 DEF MessageThread, MessageThreadContinues, WorkerContinues, WorkerTakesTask,
     OtherTaskEnds,
              Next, WorkerStep
<1> QED
  BY <1>1, <1>2, <1>3 DEF ListenerNext, Activation, listenerVars

\* The queue and the connection keep their types by CallbackInv, the port is open
\* while it is waited on.
LEMMA ListenerTypeStep ==
    CallbackInv /\ ListenerTypeOK /\ [ListenerNext]_listenerVars => ListenerTypeOK'
<1> SUFFICES ASSUME CallbackInv, ListenerTypeOK, [ListenerNext]_listenerVars
             PROVE  ListenerTypeOK'
  OBVIOUS
<1>1. backlog' \in Seq(Connections) /\ client' \in Connections
  BY CallbackStep DEF CallbackInv
<1> USE <1>1, ConnectionsAssumption DEF ListenerTypeOK, Waiting, listener
<1>2. CASE MessageThread \/ MessageThreadContinues \/ WorkerContinues \/ OtherTaskEnds
  BY <1>2 DEF MessageThread, MessageThreadContinues, WorkerContinues, OtherTaskEnds
<1>3. CASE WorkerTakesTask
  BY <1>3 DEF WorkerTakesTask
<1>4. CASE BeginActivation
  BY <1>4 DEF BeginActivation
<1>5. CASE CreateListener
  BY <1>5 DEF CreateListener, CreateListenerPort
<1>6. CASE Poll
  BY <1>6 DEF Poll
<1>7. CASE Accept
  BY <1>7 DEF Accept
<1>8. CASE ReadHttpRequest
  <2>1. Answer(client) \in {"polling", "complete", "nothing"}
    BY DEF Answer
  <2> QED
    BY <1>8, <2>1 DEF ReadHttpRequest
<1>9. CASE ActivationEnds
  <2>1. backlog = <<>> => Disown = <<>>
    BY DEF Disown
  <2> QED
    BY <1>9, <2>1 DEF ActivationEnds
<1>10. CASE Connect
  BY <1>10 DEF Connect
<1>11. CASE UNCHANGED listenerVars
  BY <1>11 DEF listenerVars
<1> QED
  BY <1>2, <1>3, <1>4, <1>5, <1>6, <1>7, <1>8, <1>9, <1>10, <1>11 DEF ListenerNext, Activation

\* The port, its connections and the place of the activation keep their types;
\* nobody waits on a port that is not open.
THEOREM ListenerTypeCorrect == ListenerSpec => []ListenerTypeOK
<1>1. ListenerInit => CallbackInv /\ ListenerTypeOK
  <2> SUFFICES ASSUME ListenerInit PROVE CallbackInv /\ ListenerTypeOK
    OBVIOUS
  <2>1. CallbackInv
    BY CallbackInit
  <2>2. backlog \in Seq(Connections) /\ client \in Connections
    BY <2>1 DEF CallbackInv
  <2>3. place = "off" /\ bound = FALSE /\ backlog = <<>> /\ made \in 0..MaxConnections
    BY ConnectionsAssumption DEF ListenerInit
  <2> QED
    BY <2>1, <2>2, <2>3 DEF ListenerTypeOK, Waiting
<1>2. CallbackInv /\ ListenerTypeOK /\ [ListenerNext]_listenerVars
        => (CallbackInv /\ ListenerTypeOK)'
  BY CallbackStep, ListenerTypeStep
<1> QED
  BY <1>1, <1>2, PTL DEF ListenerSpec

\* An activation with its listener does to the unlocker's threads only what
\* WorkerHandoff says of a task that ends, whatever connects
\* (runStartActivationTask(), waitForRequest()).
THEOREM ListenerOnThreads == ListenerSpec => KeepsToHandoff
<1>1. ListenerInit => Init /\ ActivationPlaced
  BY DEF ListenerInit, ActivationPlaced
<1> QED
  BY <1>1, PlacedStep, HandoffUnderListener, PTL DEF ListenerSpec, KeepsToHandoff, Spec

\* An owner sees the status machine whatever connects to the port of an
\* activation.
THEOREM ListenerKeepsPromise == ListenerSpec => ImplementsLicenseStatus
BY ListenerOnThreads, Refinement DEF KeepsToHandoff

\* What lets an activation go on is a complete callback made while it waits,
\* although the port of an earlier activation stays open.
THEOREM CallbackIsOwn == ListenerSpec => []OnlyOwnCallbackCompletes
<1>1. ListenerInit => CallbackInv
  BY CallbackInit
<1>2. CallbackInv /\ [ListenerNext]_listenerVars => CallbackInv'
  BY CallbackStep
<1>3. CallbackInv => OnlyOwnCallbackCompletes
  BY DEF CallbackInv
<1> QED
  BY <1>1, <1>2, <1>3, PTL DEF ListenerSpec

=============================================================================
