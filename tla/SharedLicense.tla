--------------------------- MODULE SharedLicense ---------------------------
(***************************************************************************)
(* Several unlockers that share one licence directory, each as coarse as   *)
(* LicenseStatus allows: who activates wakes the others by means of        *)
(* activation-event.json, which the others look at with a timer while they *)
(* need activation.  Nobody deletes the event; it stops counting once it   *)
(* is older than activationEventFreshnessMs, by the wall clock.            *)
(*                                                                         *)
(* Time is counted in ticks.  Requests, the user and delays take any time; *)
(* the rest takes none, except that a message thread may be late with its  *)
(* timer callback, by up to MaxLate.                                       *)
(***************************************************************************)
EXTENDS Integers

CONSTANTS
    Instances,
    Nobody,         \* the writer of an event file that is not there
    Poll,           \* activationEventPollMs
    Freshness,      \* activationEventFreshnessMs
    MaxLate,        \* how late a timer callback comes
    MaxSetBack,     \* how far the wall clock is set back
    MaxRequests     \* bound of the requests users make

ASSUME NobodyAssumption == Nobody \notin Instances
ASSUME TimesAssumption ==
    /\ Poll \in Nat \ {0}
    /\ {Freshness, MaxLate, MaxSetBack} \subseteq Nat
    /\ Poll + MaxLate <= Freshness
ASSUME RequestsAssumption == MaxRequests \in Nat

VARIABLES
    idFile,             \* whether the identity file has a token
    accessFile,         \* whether the access token file has a valid one
    writer, age,        \* who wrote the event, and how long ago
    status,             \* of each instance; "failed" is unlocking with an error
    queued,             \* its pendingTask
    step,               \* where its running task is
    broken,             \* breakCurrentTask
    update,             \* an asynchronous update is outstanding
    timer,              \* ticks until its timer callback is due; Off
    requests,           \* how many requests users made
    removed,            \* history: the identity file was deleted
    setBack,            \* history: the clock was set back
    reactions           \* history: of each instance to the current event

files == <<idFile, accessFile>>
event == <<writer, age>>
threads == <<status, queued, step, broken, update, timer>>
history == <<requests, removed, setBack, reactions>>
vars == <<files, event, threads, history>>

Off == Poll + 1

\* Steps that wait for the browser, a server or a delay
Slow == {"browser", "request", "delay", "retry"}

Steps == Slow \cup {"idle", "read", "delete", "write", "announce"}

TypeOK ==
    /\ {idFile, accessFile, removed, setBack} \subseteq BOOLEAN
    /\ writer \in Instances \cup {Nobody}
    /\ age \in (-MaxSetBack)..(Freshness + 1)
    /\ status \in [Instances -> {"undefined", "activationRequired",
                                 "unlocking", "failed", "unlocked"}]
    /\ queued \in [Instances -> {"none", "startup", "activation", "refresh"}]
    /\ step \in [Instances -> Steps]
    /\ broken \in [Instances -> BOOLEAN]
    /\ update \in [Instances -> BOOLEAN]
    /\ timer \in [Instances -> (-MaxLate)..Off]
    /\ requests \in 0..MaxRequests
    /\ reactions \in [Instances -> Nat]

Init ==
    /\ idFile \in BOOLEAN
    /\ accessFile \in BOOLEAN
    /\ writer = Nobody
    /\ age = Freshness + 1
    /\ status = [i \in Instances |-> "undefined"]
    /\ queued = [i \in Instances |-> "none"]
    /\ step = [i \in Instances |-> "idle"]
    /\ broken = [i \in Instances |-> FALSE]
    /\ update = [i \in Instances |-> FALSE]
    /\ timer = [i \in Instances |-> Off]
    /\ requests = 0
    /\ removed = FALSE
    /\ setBack = FALSE
    /\ reactions = [i \in Instances |-> 0]

-----------------------------------------------------------------------------
(* The message thread of an instance.                                      *)

\* A request publishes its status, breaks what runs, and queues a task.
Prepare(i, newStatus, task) ==
    /\ status' = [status EXCEPT ![i] = newStatus]
    /\ queued' = [queued EXCEPT ![i] = task]
    /\ broken' = [broken EXCEPT ![i] = step[i] \notin {"idle", "announce"}]
    /\ update' = [update EXCEPT ![i] = TRUE]

Startup(i) ==
    /\ status[i] = "undefined"
    /\ Prepare(i, "unlocking", "startup")
    /\ UNCHANGED <<files, event, step, timer, history>>

UserRequest(i) ==
    /\ requests < MaxRequests
    /\ requests' = requests + 1
    /\ \/ /\ status[i] = "activationRequired"
          /\ Prepare(i, "activationRequired", "activation")
          /\ UNCHANGED <<files, removed>>
       \/ /\ status[i] = "failed"
          /\ Prepare(i, "unlocking", "startup")
          /\ UNCHANGED <<files, removed>>
       \/ /\ Prepare(i, "activationRequired", "none")
          /\ idFile' = FALSE
          /\ accessFile' = FALSE
          /\ removed' = TRUE
    /\ UNCHANGED <<event, step, timer, setBack, reactions>>

\* handleAsyncUpdate() starts the timer, unless it runs, or stops it.
HandleAsyncUpdate(i) ==
    /\ update[i]
    /\ update' = [update EXCEPT ![i] = FALSE]
    /\ timer' = [timer EXCEPT ![i] =
                   IF status[i] # "activationRequired" THEN Off
                   ELSE IF timer[i] = Off THEN Poll ELSE timer[i]]
    /\ UNCHANGED <<files, event, status, queued, step, broken, history>>

\* Mutant: an event stops counting when it reaches the limit.
IsYoung(i) == writer \notin {i, Nobody} /\ age < Freshness

\* Mutant: an event counts as long as it is there.
IsThere(i) == writer \notin {i, Nobody}

ShouldReactToActivationEvent(i) ==
    writer \notin {i, Nobody} /\ age <= Freshness

CheckActivationEvent(i) ==
    /\ timer[i] <= 0
    /\ timer' = [timer EXCEPT ![i] = Poll]
    /\ IF ShouldReactToActivationEvent(i) /\ status[i] = "activationRequired"
       THEN /\ Prepare(i, "unlocking", "startup")
            /\ reactions' = [reactions EXCEPT ![i] = @ + 1]
       ELSE UNCHANGED <<status, queued, broken, update, reactions>>
    /\ UNCHANGED <<files, event, step, requests, removed, setBack>>

MessageThread(i) == HandleAsyncUpdate(i) \/ CheckActivationEvent(i)

-----------------------------------------------------------------------------
(* The worker of an instance.                                              *)

TakeTask(i) ==
    /\ step[i] = "idle"
    /\ queued[i] # "none"
    /\ queued' = [queued EXCEPT ![i] = "none"]
    /\ broken' = [broken EXCEPT ![i] = FALSE]
    /\ step' = [step EXCEPT ![i] = CASE queued[i] = "startup" -> "read"
                                     [] queued[i] = "activation" -> "browser"
                                     [] queued[i] = "refresh" -> "delay"]
    /\ UNCHANGED <<files, event, status, update, timer, history>>

unseen == <<event, status, queued, broken, update, timer, requests, setBack, reactions>>

Goto(i, next) == step' = [step EXCEPT ![i] = next] /\ UNCHANGED unseen

\* Mutant: every result of a task is announced.
ReturnAndAnnounce(i, newStatus, task) ==
    /\ broken' = [broken EXCEPT ![i] = FALSE]
    /\ IF broken[i] THEN UNCHANGED <<status, queued, update>>
       ELSE /\ status' = [status EXCEPT ![i] = newStatus]
            /\ queued' = [queued EXCEPT ![i] = IF task = "none" THEN @ ELSE task]
            /\ update' = [update EXCEPT ![i] = TRUE]
    /\ step' = [step EXCEPT ![i] = "announce"]
    /\ UNCHANGED <<event, timer, requests, setBack, reactions>>

\* handleTaskResult(); triggerActivationEvent() follows an unlock.
Return(i, newStatus, task) ==
    /\ broken' = [broken EXCEPT ![i] = FALSE]
    /\ IF broken[i] THEN UNCHANGED <<status, queued, update>>
       ELSE /\ status' = [status EXCEPT ![i] = newStatus]
            /\ queued' = [queued EXCEPT ![i] = IF task = "none" THEN @ ELSE task]
            /\ update' = [update EXCEPT ![i] = @ \/ newStatus # status[i]]
    /\ step' = [step EXCEPT ![i] =
                  IF ~broken[i] /\ status[i] # "unlocked" /\ newStatus = "unlocked"
                  THEN "announce" ELSE "idle"]
    /\ UNCHANGED <<event, timer, requests, setBack, reactions>>

Reading(i) == step[i] \in {"read", "retry"}

\* A startup has no directory, needs an activation, or unlocks at once, and then
\* a refresh may be due.  What it returns when it is broken does not matter.
ReadTokens(i) ==
    /\ Reading(i)
    /\ \/ Return(i, "failed", "none")
       \/ ~idFile /\ Return(i, "activationRequired", "none")
       \/ /\ idFile /\ accessFile
          /\ \E task \in {"none", "refresh"} : Return(i, "unlocked", task)
    /\ UNCHANGED <<files, removed>>

\* Else it needs a request, and the lock for it, which InstanceLock models.
AcquireLock(i) ==
    /\ Reading(i)
    /\ idFile /\ ~accessFile /\ ~broken[i]
    /\ Goto(i, "request")
    /\ UNCHANGED <<files, removed>>

\* Another instance has it: the startup is queued again, with a delay after
\* which it reads the files once more.  Queued or running, a request of the
\* message thread puts an end to it, so that the two are one here.
LockIsTaken(i) ==
    /\ step[i] = "read"
    /\ idFile /\ ~accessFile /\ ~broken[i]
    /\ Goto(i, "retry")
    /\ UNCHANGED <<files, removed>>

\* A refresh finds no valid token, or ends with or without a new one, or with
\* a 422.  When the lock is taken it stays, delayed again.
RefreshAccess(i) ==
    /\ step[i] = "delay"
    /\ \/ ~accessFile /\ Return(i, "unlocking", "startup") /\ UNCHANGED accessFile
       \/ Return(i, status[i], "none") /\ accessFile' \in {accessFile, TRUE}
       \/ accessFile /\ Goto(i, "delete") /\ UNCHANGED accessFile
    /\ UNCHANGED <<idFile, removed>>

\* The answer to requestAccess() in a startup: 422, a token - which may fail
\* to be saved, or be invalid -, or a failure.
RequestAccess(i) ==
    /\ step[i] = "request"
    /\ \/ Goto(i, "delete") /\ UNCHANGED accessFile
       \/ ~broken[i] /\ Return(i, "unlocked", "none") /\ accessFile' \in {accessFile, TRUE}
       \/ Return(i, "failed", "none") /\ accessFile' \in {accessFile, FALSE}
    /\ UNCHANGED <<idFile, removed>>

DeleteTokens(i) ==
    /\ step[i] = "delete"
    /\ idFile' = FALSE
    /\ accessFile' = FALSE
    /\ removed' = TRUE
    /\ Return(i, "activationRequired", "none")

\* An activation fails, is broken, or completes.
CompleteActivation(i) ==
    /\ step[i] = "browser"
    /\ \/ Return(i, status[i], "none")
       \/ ~broken[i] /\ Goto(i, "write")
    /\ UNCHANGED <<files, removed>>

\* Mutant: nobody looks whether the identity could be saved.
WriteTokensAnyway(i) ==
    /\ step[i] = "write"
    /\ idFile' \in {idFile, TRUE}
    /\ accessFile' = TRUE
    /\ Return(i, "unlocked", "none")
    /\ UNCHANGED removed

\* Either write may fail, and a token that is not valid is written as well.
WriteTokens(i) ==
    /\ step[i] = "write"
    /\ \/ Return(i, status[i], "none") /\ idFile' \in {idFile, TRUE} /\ UNCHANGED accessFile
       \/ Return(i, status[i], "none") /\ idFile' = TRUE /\ accessFile' = FALSE
       \/ Return(i, "unlocked", "none") /\ idFile' = TRUE /\ accessFile' = TRUE
    /\ UNCHANGED removed

\* Whether the event could be written is not looked at.
TriggerActivationEvent(i) ==
    /\ step[i] = "announce"
    /\ \/ writer' = i /\ age' = 0 /\ reactions' = [j \in Instances |-> 0]
       \/ UNCHANGED <<event, reactions>>
    /\ step' = [step EXCEPT ![i] = "idle"]
    /\ UNCHANGED <<files, status, queued, broken, update, timer, requests, removed, setBack>>

Worker(i) ==
    \/ TakeTask(i)
    \/ ReadTokens(i)
    \/ AcquireLock(i)
    \/ LockIsTaken(i)
    \/ RefreshAccess(i)
    \/ RequestAccess(i)
    \/ DeleteTokens(i)
    \/ CompleteActivation(i)
    \/ WriteTokens(i)
    \/ TriggerActivationEvent(i)

-----------------------------------------------------------------------------
(* Time.                                                                   *)

\* Nothing that takes no time is left to do, and no timer is overdue.
MayPass(i) ==
    /\ step[i] \in Slow \cup {"idle"}
    /\ step[i] = "idle" => queued[i] = "none"
    /\ ~update[i]
    /\ timer[i] > -MaxLate

Tick ==
    /\ \A i \in Instances : MayPass(i)
    /\ age' = IF age <= Freshness THEN age + 1 ELSE age
    /\ timer' = [i \in Instances |-> IF timer[i] = Off THEN Off ELSE timer[i] - 1]
    /\ UNCHANGED <<files, writer, status, queued, step, broken, update, history>>

\* The token on disk is no longer valid.
Expire ==
    /\ accessFile
    /\ accessFile' = FALSE
    /\ UNCHANGED <<idFile, event, threads, history>>

\* The event is now dated in the future, unless it is older than that.
SetClockBack ==
    /\ ~setBack
    /\ MaxSetBack > 0
    /\ setBack' = TRUE
    /\ age' = age - MaxSetBack
    /\ age' >= -MaxSetBack
    /\ UNCHANGED <<files, writer, threads, requests, removed, reactions>>

Next ==
    \/ \E i \in Instances :
         \/ Startup(i)
         \/ UserRequest(i)
         \/ MessageThread(i)
         \/ Worker(i)
    \/ Tick
    \/ Expire
    \/ SetClockBack

Spec == Init /\ [][Next]_vars

(* Time passes, timers and updates are delivered, and tasks go on, those   *)
(* that want the lock get it in the end; only a user in the browser may    *)
(* keep an activation waiting that is not broken.                          *)
Fairness ==
    /\ WF_vars(Tick)
    /\ \A i \in Instances :
         /\ WF_vars(MessageThread(i))
         /\ WF_vars(Worker(i) /\ (step[i] # "browser" \/ broken[i]))

FairSpec == Spec /\ Fairness

-----------------------------------------------------------------------------
(* Properties.                                                             *)

\* docs/inlay_product_unlocking.md:343: the event is "used to wake other
\* plugin instances after activation": an instance that needs activation when
\* another announces one does not miss it, wherever its own task, timer and
\* pending updates are, and late as its timer may be by MaxLate.  The one exception: it
\* has itself just unlocked and been logged out, and its own announcement of
\* that, still to be written, replaces the other's.
PeersFollow ==
    \A i \in Instances :
        status[i] = "activationRequired" /\ writer \notin {i, Nobody} /\ age = 0
            ~> status[i] # "activationRequired" \/ writer = i

\* One event takes an instance out of activationRequired - and with it breaks
\* an activation the user may have begun - only so often as callbacks fit
\* into its freshness.  With the clock set back they go on for as much longer.
BoundedReactions ==
    ~setBack => \A i \in Instances :
        reactions[i] > 0 => (reactions[i] - 1) * Poll <= Freshness

\* Instances do not keep waking each other, also when the tokens are gone and
\* the clock was set back: once the users are done, every unlock ends.
FlappingEnds == <>[](\A i \in Instances : status[i] # "unlocking")

\* Nobody announces an identity that could not be saved: whoever is woken finds
\* it on disk, unless it was removed by a logout or a rejection, which may also
\* come between the result and its announcement (then others react in vain, as
\* often as BoundedReactions allows).
AnnouncedIsOnDisk == writer # Nobody /\ ~removed => idFile
=============================================================================
