------------------------------ MODULE DefaultUI ------------------------------
(***************************************************************************)
(* The overlay that an editor puts over a locked product, on top of the    *)
(* two threads of WorkerHandoff.  handleAsyncUpdate() ends by sending a    *)
(* change message; on its delivery DefaultUI::updateContent() reads the    *)
(* error and then the status, each in a critical section of its own, and   *)
(* replaces message, buttons and visibility.  Editors come and go while    *)
(* the unlocker lives.  The update prompt is in the module AppUpdates.     *)
(***************************************************************************)
EXTENDS WorkerHandoff

CONSTANT Embeddings     \* how editors add the overlay to themselves

ASSUME EmbeddingsAssumption == Embeddings \subseteq {"child", "matched", "visible"}

VARIABLES
    editor,         \* "closed", being "built", or "open"
    embedding,      \* how this editor adds the overlay
    changeMessage,  \* a change message is on its way
    updating,       \* updateContent() has read the error, not the status
    seenError,      \* whether there was one
    shown           \* what the overlay shows

ui == <<editor, embedding, changeMessage, updating, seenError, shown>>
uiVars == <<vars, ui>>

\* A screen: its message, whether it names an error, whether it is visible.
\* The buttons go with the message.
Screen(text, error, visible) ==
    [message |-> text, error |-> error, visible |-> visible]

NewOverlay == Screen("blank", FALSE, FALSE)

Screens == [message : {"blank", "activate", "unlocking", "failed"},
            error : BOOLEAN, visible : BOOLEAN]

\* Mutant: a failed unlock is shown like one in progress.
ScreenWithoutFailure(st, error, old) ==
    CASE st = "activationRequired" -> Screen("activate", error, TRUE)
      [] st = "unlocking" -> Screen("unlocking", error, TRUE)
      [] st = "unlocked" -> Screen("blank", FALSE, FALSE)
      [] OTHER -> old

\* The switch of updateContent(); it has no case for Status::undefined.
ScreenFor(st, error, old) ==
    CASE st = "activationRequired" -> Screen("activate", error, TRUE)
      [] st = "unlocking" /\ ~error -> Screen("unlocking", FALSE, TRUE)
      [] st = "unlocking" /\ error -> Screen("failed", TRUE, TRUE)
      [] st = "unlocked" -> Screen("blank", FALSE, FALSE)
      [] OTHER -> old

\* What the buttons of a screen ask for when they are clicked.
Buttons(screen) ==
    CASE screen.message = "activate" -> {"startActivation"}
      [] screen.message = "failed" -> {"retryUnlocking", "logout"}
      [] OTHER -> {}

UIInit ==
    /\ Init
    /\ editor = "closed"
    /\ embedding \in Embeddings
    /\ changeMessage = FALSE
    /\ updating = FALSE
    /\ seenError = FALSE
    /\ shown = NewOverlay

-----------------------------------------------------------------------------
(* The unlocker underneath.  The message thread does one thing at a time.  *)

uiIdle == caller = "idle" /\ ~updating /\ editor # "built"

Request ==
    /\ uiIdle
    /\ \/ Startup
       \/ StartActivation
       \/ RetryUnlocking
       \/ CheckActivationEvent
       \/ Logout
       \/ HandleAsyncUpdate
    /\ UNCHANGED ui

\* An owner keeps the unlocker alive as long as the overlay.
DestroyUnlocker == uiIdle /\ editor = "closed" /\ Destroy /\ UNCHANGED ui

\* Mutant: listeners hear of a change only if the timer was touched.
BroadcastIfWatcherChanged ==
    /\ UpdateActivationEventWatcher
    /\ changeMessage' = (changeMessage \/ (editor # "closed" /\ watching' # watching))
    /\ UNCHANGED <<editor, embedding, updating, seenError, shown>>

\* The rest of handleAsyncUpdate().  sendChangeMessage() posts a message,
\* unless one is on its way, if there is a listener at all.
UpdateWatcherAndBroadcast ==
    /\ UpdateActivationEventWatcher
    /\ changeMessage' = (changeMessage \/ editor # "closed")
    /\ UNCHANGED <<editor, embedding, updating, seenError, shown>>

CallerContinues ==
    /\ \/ CallerNotify
       \/ DestructorSignals
       \/ DestructorSetsExit
       \/ DestructorJoins
    /\ UNCHANGED ui

Worker == (WorkerStep \/ TaskEnds) /\ UNCHANGED ui

-----------------------------------------------------------------------------
(* The overlay.                                                            *)

\* The constructor becomes a listener and begins updateContent().
OpenEditor ==
    /\ uiIdle
    /\ ~Destroying
    /\ editor = "closed"
    /\ editor' = "built"
    /\ embedding' \in Embeddings
    /\ updating' = TRUE
    /\ seenError' = hasError
    /\ shown' = NewOverlay
    /\ UNCHANGED <<vars, changeMessage>>

\* The editor adds the finished overlay: as a child that keeps its own
\* visibility, with addAndMakeVisible(), or so and then matched with
\* isLocked().
EmbedOverlay ==
    /\ editor = "built"
    /\ ~updating
    /\ editor' = "open"
    /\ shown' = [shown EXCEPT !.visible =
                   CASE embedding = "child" -> @
                     [] embedding = "visible" -> TRUE
                     [] embedding = "matched" -> status # "unlocked"]
    /\ UNCHANGED <<vars, embedding, changeMessage, updating, seenError>>

\* The destructor of the overlay; a message on its way finds no listener.
CloseEditor ==
    /\ uiIdle
    /\ editor = "open"
    /\ editor' = "closed"
    /\ shown' = NewOverlay
    /\ seenError' = FALSE
    /\ UNCHANGED <<vars, embedding, changeMessage, updating>>

\* A change message arrives: updateContent() begins with getError().
ChangeListenerCallback ==
    /\ uiIdle
    /\ changeMessage
    /\ changeMessage' = FALSE
    /\ updating' = (editor = "open")
    /\ seenError' = (editor = "open" /\ hasError)
    /\ UNCHANGED <<vars, editor, embedding, shown>>

\* It goes on with getStatus() and shows what belongs to the two.
UpdateContent ==
    /\ updating
    /\ shown' = ScreenFor(status, seenError, shown)
    /\ updating' = FALSE
    /\ seenError' = FALSE
    /\ UNCHANGED <<vars, editor, embedding, changeMessage>>

-----------------------------------------------------------------------------
UINext ==
    \/ Request
    \/ DestroyUnlocker
    \/ UpdateWatcherAndBroadcast
    \/ CallerContinues
    \/ Worker
    \/ OpenEditor
    \/ EmbedOverlay
    \/ CloseEditor
    \/ ChangeListenerCallback
    \/ UpdateContent

UISpec == UIInit /\ [][UINext]_uiVars

(* As in WorkerHandoff; what the message thread has begun it finishes, and *)
(* the message queue delivers the change message too.                      *)
UIFairness ==
    /\ WF_uiVars(CallerContinues \/ UpdateWatcherAndBroadcast)
    /\ WF_uiVars(UpdateContent \/ EmbedOverlay)
    /\ WF_uiVars(WorkerStep /\ UNCHANGED ui)
    /\ WF_uiVars(/\ TaskEnds
                 /\ currentTask # "startActivation" \/ breakCurrentTask
                 /\ UNCHANGED ui)
    /\ SF_uiVars(uiIdle /\ HandleAsyncUpdate /\ UNCHANGED ui)
    /\ SF_uiVars(ChangeListenerCallback)

FairUISpec == UISpec /\ UIFairness

-----------------------------------------------------------------------------
(* Properties.                                                             *)

\* Every change was notified and every notification delivered.
Settled ==
    /\ editor = "open"
    /\ uiIdle
    /\ ~asyncUpdate
    /\ ~changeMessage
    /\ "update" \notin workerOwes

\* The overlay shows this screen.  An editor that adds it with nothing but
\* addAndMakeVisible(), as in docs/inlay_product_unlocking.md:215, undoes the
\* setVisible(false) of an unlocked product until the next change message.
Shows(screen) ==
    \/ shown = screen
    \/ embedding = "visible" /\ shown = [screen EXCEPT !.visible = TRUE]

\* With every notification delivered the overlay shows the error and the
\* status that are there, although it read them one after the other and the
\* worker may have changed both in between; an editor opened at any moment is
\* no exception (updateContent(), DefaultUI::DefaultUI()).
ContentSettled ==
    Settled /\ status # "undefined" => Shows(ScreenFor(status, hasError, shown))

Accepted(request) ==
    CASE request = "startActivation" -> status = "activationRequired"
      [] request = "retryUnlocking" -> status = "unlocking" /\ hasError
      [] request = "logout" -> TRUE

\* The user of a locked product is never stranded: with every notification
\* delivered the overlay is visible and has a button, all buttons work, or
\* a startup is queued or running whose result will count.
NoDeadEnd ==
    Settled /\ status \in {"activationRequired", "unlocking"} =>
        /\ shown.visible
        /\ \A request \in Buttons(shown) : Accepted(request)
        /\ Buttons(shown) # {} \/ Operation = "unlock"

\* What is right to show is shown in the end, unless it stops being right:
\* coalesced updates and messages do not leave an open overlay behind.
ScreenFollows ==
    \A screen \in {ScreenFor(st, error, NewOverlay) :
                     st \in Statuses \ {"undefined"}, error \in BOOLEAN} :
        editor = "open" /\ status # "undefined"
          /\ ScreenFor(status, hasError, shown) = screen
            ~> \/ Shows(screen)
               \/ ScreenFor(status, hasError, shown) # screen
               \/ editor # "open"
=============================================================================
