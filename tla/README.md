# Verification of the Inlay JUCE module

This directory holds TLA+ models of the Inlay licensing module for JUCE and of
the headless emulator that its tests drive, the TLC configurations that check
them, and proofs checked by TLAPS. `U` below stands for
`src/modules/inlay_product_unlocking/internal/UnlockerImpl.cpp`.

Run a check with `tlc -workers 2 -config X.cfg M` and a proof with
`tlapm M.tla`. `PROJECT.json` says which configuration belongs to which module,
which lines each definition stands for, and which mutated definition shows that
a property can fail.

## 1. Inventory

### Parts, state, operations

| Part | State | Operations | Module |
| --- | --- | --- | --- |
| `UnlockerImpl`, hand-over of work | `_state.status`, `errorMessage`, `pendingTask`, `currentTask`, `breakCurrentTask` (guarded by `_stateCriticalSection`), `_wakeEvent`, the exit flag, the pending async update, the timer | `startup`, `startActivation`, `retryUnlocking`, `logout`, destructor, `handleAsyncUpdate`, `timerCallback`, `run`, `handleTaskResult` | `WorkerHandoff` |
| `UnlockerImpl`, task bodies | `id-token`, `access-token`, `_state.validatedAccessToken`, `_idToken` | startup (with and without delay), activation, refresh | `Unlocker` |
| Instance lock | `lock.json` | `acquireInstanceLock` | `InstanceLock` |
| App update notice | `update.json`, `skipped-update.json`, `_state.appUpdate`, `skippedAppUpdateVersion` | `saveAppUpdateFromResponse`, `skipCurrentAppUpdateVersion`, `getAppUpdate` | `AppUpdates` |
| Activation event | `activation-event.json`, the timers of all instances | `triggerActivationEvent`, `shouldReactToActivationEvent`, `checkActivationEvent` | `SharedLicense` |
| `DefaultUI`, the overlay | message, error, buttons, visibility, the change message on its way | constructor, `updateContent`, `changeListenerCallback`, the buttons, destructor | `DefaultUI` |
| `DefaultUI`, the update prompt | `_shownAppUpdateVersion`, open dialogs | `notifyAppUpdate` and its dialog | `AppUpdates` |
| `AuthCallbackListener` | the listening socket and the connections that wait there | `createListenerOnRandomPort`, `waitForRequest`, `readHttpRequest`, `close` | `AuthCallback` |
| `TokenValidator`, `SignatureVerification` | none | `validateAccessToken`, `shouldRefresh`, `verifyRSASHA256Signature` | `TokenCheck` (and two operators of `Unlocker`) |
| `Api` | none | `startAuth`, `completeAuth`, `requestAccess` | `Api`, used by `Unlocker` |
| `Unlocker` (facade) | none | forwards to `UnlockerImpl` | the requests of `DefaultUI` |
| `Browser` | none | opening a page | not modelled |
| Emulator `CommandProcessor` | `commands/`, `state/cursor.json`, `nextSequence` | `preflight`, `start`, `stop`, `processSequence` | `CommandProcessor` |
| Emulator `EventWriter`, `CommandStateStore` | `events/`, `state/commands/`, `nextId` | `emit`, `markProcessing`, `markCompleted`, `setCompletionEmitted`, `load` | `CommandProcessor` (per command), `Emulator` (IDs) |
| Emulator lifecycle (`Emulator`, `main.cpp`) | `started`, `stopped`, `fatalHandled`, the two event mutexes, `nextRequestId` | `initialise`, `start`, `invoke`, `changeListenerCallback`, `openURL`, `handleFatal`, `stop`, `shutdown` | `Emulator` |
| Emulator `Protocol` | none | parsing, redaction, formatting | not modelled |
| Examples | audio and drawing | | not modelled |

### Interactions

The owner calls `Unlocker` on the message thread. A request changes `_state` in
one critical section and signals `_wakeEvent`; the worker thread takes the
queued task in a second critical section, runs it without the lock (it takes
the lock only to publish a token or an update and to look at the break flag)
and publishes its result in a third. Results reach the user interface by a
coalescing asynchronous update, then a change message. Instances in other
processes share the licence directory: they write the token files, take the
lock file in turns and announce activations by an event file. The emulator is a
process of its own that talks with its client through directories of files
only: numbered commands in, numbered events out.

### What is hard

- Two threads: requests of the message thread arrive while a task runs; its
  result must be dropped, its writes cannot be. Wake-ups may be signalled early,
  late or twice. The destructor runs against a sleeping or a waking worker.
- Several processes: the files are read and written one at a time, the lock
  file is read, replaced and read again, and any process may end in between.
- Time: tokens expire, locks expire, activation events grow stale.
- Failure: each request and each write may fail, and each failure has an early
  return of its own.
- Crash recovery in the emulator: five files are written for one command.
- The user interface: dialogs stay open while the state behind them changes;
  the overlay reads error and status one after the other, and hears of a change
  by two notifications that coalesce and are lost while no editor is open.
- The local port for the browser: anybody may connect, stall, or come late, and
  the break flag is looked at only between two connections.
- Arithmetic of claims in 64 bits, and a signature check byte by byte.

### What makes each part correct

- Hand-over: late results change nothing; no queued task is forgotten; the
  status never says "unlocking" with nobody at work; nothing runs after the
  destructor, which returns; seen from outside it is a small status machine.
- Task bodies: they return only what the hand-over assumes of them; nothing but a
  logout or a saved token that is no longer valid locks a product; unlocked means a valid token and an identity on
  disk; logout clears both files; unlocks end.
- Instance lock: one holder at a time; a crashed holder delays but does not
  block; file and holder agree on the lease.
- Update notice: a skip that was written holds in later sessions, from their
  first startup on; a saved update is shown in the end.
- Activation event: an announced activation is on disk; who waits for one does
  not miss it; one event does not wake an instance for ever, nor do instances
  each other.
- Overlay: with all notifications delivered it shows what is the case, and
  leaves the user of a locked product a way on.
- Callback: the one that is waited for is heard, none of an earlier activation
  is taken for it, and a broken activation ends, unless a client holds it up.
- Tokens: a digest has one encoding that verifies; refreshing is due exactly
  when unbounded integers say so.
- Emulator: each command invoked at most once and in order, one answer that
  never changes, an answer for every command; events that begin with `ready`, end
  with `stopped`, never share a number, and report one fatal error.

The hazards behind these, each at its line, are listed in `PROJECT.json`.

## 2. Modules

```
LicenseStatus  <-- refined by --  WorkerHandoff  <-- refined by --  Unlocker     -- uses --> Api
                                                 <-- extended by -- AuthCallback
                                                 <-- extended by -- DefaultUI
InstanceLock
SharedLicense
AppUpdates
TokenCheck
CommandService <-- refined by --  CommandProcessor
Emulator
```

The proofs about a module `M` are in `MProofs`, with two exceptions:
`HandoffUsersProofs` has those about `DefaultUI` and `AuthCallback`, which both
extend `WorkerHandoff` and share its invariant, and `DirectoryFilesProofs` those
about `InstanceLock` and `AppUpdates`. A definition whose comment
begins with `Mutant:` is not part of the model: `PROJECT.json` names it as the
faulty form of the definition after it, with which a property must fail.

**LicenseStatus** is what an owner may rely on: the status, whether there is an
error, the operation in progress, and that a closed unlocker changes nothing.

**WorkerHandoff** models the two threads. An action is one critical section, or
a step between two of them that the other thread can observe. `caller` and
`worker` are the program counters: a request (`Startup`, `StartActivation`,
`RetryUnlocking`, `CheckActivationEvent`, `Logout`) is its critical section,
`CallerNotify` the calls that follow it; `HandleAsyncUpdate` reads the status,
`UpdateActivationEventWatcher` starts or stops the timer; the destructor is four
steps (`Destroy`, `DestructorSignals`, `DestructorSetsExit`, `DestructorJoins`),
because the order of the signal and the exit flag matters. The worker goes
`RunLoop`, `WakeUp`, `CheckExit`, `TakeTask`, `HandleTaskResult`,
`WorkerNotify`. A task ends with any of the results its body can return
(`StartupResults`, `ActivationResults`, `RefreshResults`). The abstract
`Operation` is the queued task, or the running one unless it was superseded.

**Unlocker** puts the bodies of the tasks in. It has the variables of
`WorkerHandoff`, whose actions it uses through `H == INSTANCE WorkerHandoff`,
and adds the token files, the published token, the clock and `step`, the place
in the running task. Every read, write, request and critical section of
`runStartupTask`, `runStartActivationTask` and `runRefreshAccessWithDelayTask`
is an action, and every early return an outcome of one. Where the tasks share
their steps, the actions are shared and named once (`LoadAccess`,
`PublishSaved`, `ReceiveAccess`, `Publish`...). An access token is the time it
was issued. `ImplementsHandoff` says that the bodies return only the results
`WorkerHandoff` offers. The update notice and the lock file do not occur in it:
`LockIsTaken` and `LockAcquired` are both possible at any time, as other
instances decide.

**Api** says what a request hands to a task for every status code and every
combination of members a body may have (`postJSON`, the parsers). `Unlocker`
takes the outcomes of its requests from there, so that the tests of the tasks
(which codes they accept, what a missing member does) are part of the model. It
assumes of the server, and the code does not check, that an answer that
completes an activation contains both tokens.

**DefaultUI** extends `WorkerHandoff` by the overlay of an editor. The message
thread now does what an editor makes it do: `OpenEditor`, the two reads of
`updateContent()` (`OpenEditor` or `ChangeListenerCallback` for the error,
`UpdateContent` for the status), `EmbedOverlay` in the three ways the examples
and documents add the overlay, `CloseEditor`. `UpdateWatcherAndBroadcast` is the
rest of `handleAsyncUpdate()` and posts the change message. The properties of
`WorkerHandoff` are checked in this composition.

**AuthCallback** extends `WorkerHandoff` too, and puts the waiting for the browser
into the activation task. A connection is
what it asks for, how much of it it sends, and whether it was made for the
activation that waits: the last is unknown to the program, and
`OnlyOwnCallbackCompletes` says that it need not know. A client may also send for
ever and never a blank line (`sends = "endless"`): `readHttpRequest()` gives a
client a second for each read, has no bound for all of them and does not look at
the break flag, so that `ReadHttpRequest` is not enabled then. `KeepsToHandoff`
says that the task does only what `WorkerHandoff` takes from it.
`BrokenActivationEnds` is what `WorkerHandoff` assumes besides: here it follows
from the polling loop, except while such a client is read (`HeldByClient`).

**SharedLicense** models several instances, each with the shortest form of
`Unlocker` that still has every step another instance can see: the two token
files, the activation event with its age, the timer and the late asynchronous
update, the break of a running task. Waiting for users, servers and delays takes
any time; between those, time does not pass (`MayPass`), except that timers may
be late. The instance lock is taken or not at any time; a task that did not get it
waits (`LockIsTaken`), reads the files again and tries again (`AcquireLock`), which
stands for the task that is queued for that. The clock may be set back once.

**TokenCheck** follows one token through `validateAccessToken()`: its text, the
number RSA yields for its signature, the padding, the claims, and then
`shouldRefresh()` as time goes by, with the overflow of `juce::int64` (`Wrap`).
`IsSeparator` and `Verifies` are the loops of the code, by their indices;
`Encoding`, the reference, is the one byte sequence PKCS #1 allows.

**InstanceLock** models the three steps of `acquireInstanceLock()` for a set of
instances. Only time differences matter, so the file keeps the ticks its lock is
still good for, and an instance how long ago it read the clock.

**AppUpdates** models the worker and the message thread as far as the update
notice goes, one access of a file or of `_state` at a time. Of the hand-over it
keeps what decides whether the product is unlocked: that flag, the refresh that is
queued (`refreshDue`) and the break flag. A logout comes at any time, also before a
startup has read the files, and an activation may follow it. `dialogs` are the open dialogs by the version they name.
`Restart` ends the process between any two steps.

**CommandService** is the client's view of the emulator: which commands are
there, how often each was invoked, and its answer.

**CommandProcessor** models `processSequence()` one write at a time. `states`,
`completions`, `cursor` are the files; `pc`, `nextSequence` and `result` are the
process and are lost with it. `Interrupt` is a crash, and also a failed write,
because `reportFatal()` ends the process. The client writes commands in any
order, with reused IDs and invalid contents, and may delete the event files of
all IDs but those in `Kept`. Where the code has one line of recovery
(`ResumeInterrupted`, `ResumeCompleted`) the model has one operator.

**Emulator** models the process around it from `initialise()` to `shutdown()`,
as its events show it. The message thread (`place`) and the unlocker's worker
each keep a list `todo` of what they still have to emit: a command becomes the
events it causes, an opened browser is `open`, `browser`, `close`, because the
`EventBrowser` numbers its request and emits under one mutex. `Reserve` and
`Write` are the two halves of `emit()` under `eventWriteMutex`, and the second
may fail: `Report` and `HandleFatal` then put a `fatal` event before what the
message thread goes on with, or the worker posts one. `Join` is the return of
`unlocker.reset()` in `stop()`, and it need not come: `~UnlockerImpl` may wait for
ever (run `destructor_hang`). `Emulator` and
`CommandProcessor` describe the same commands from two sides and are not
composed: what happens to a command between its state writes has no effect on
the order of events. Of the files in `events/` only the largest ID matters to
the code, and only that is kept (`largest`).

## 3. Runs

| Run | Module | Distinct states | What it shows |
| --- | --- | --- | --- |
| `handoff` | DefaultUI | 82,797 | invariants of the hand-over, refinement of LicenseStatus, queued tasks are taken; an overlay, whenever opened, shows what is the case and has no dead end |
| `unlocker` | Unlocker | 758,457 | task bodies implement the hand-over; tokens, identity and status agree; only a logout or a saved token that is not valid any more locks; unlocks end |
| `auth_callback` | AuthCallback | 390,657 | the activation task keeps to the hand-over; unless a client sends for ever, a broken activation ends and the browser's callback is heard; no other completes an activation |
| `shared_license` | SharedLicense | 1,137,757 | an announced activation is on disk, reaches the instances that wait for one, wakes each boundedly often, and unlocks stop following each other |
| `instance_lock` | InstanceLock | 1,344 | file and owner agree on the lease; a survivor acquires the lock |
| `app_updates` | AppUpdates | 711,243 | written skips survive restarts, from the first startup on; saved updates are prompted for |
| `token_check` | TokenCheck | 207,588 | one encoding verifies; refreshing as in unbounded integers |
| `command_processor` | CommandProcessor | 195,321 | refinement of CommandService with crashes; answers backed, final, single, and given |
| `emulator` | Emulator | 797,728 | events are numbered without collision or reuse, framed by `ready` and `stopped` with at most one `fatal`, browser requests in order; a process that must end does, or waits for its unlocker's destructor alone |
| `destructor_hang`, `logout_race`, `instance_lock_race` | WorkerHandoff, Unlocker, InstanceLock | | counterexamples, see section 5 |

### Bounds, and why they are enough

- `WorkerHandoff` has no bound: its state is finite as it is.
- `Unlocker`: a clock up to 2 and a token lifetime of 2 let a token be fresh, be
  due for refresh (`RefreshAfter = 0`: older than none), and expire; the tokens
  of two different times and a bad one tell apart everything the code compares.
  Whether other instances share the directory is chosen in the initial state;
  some properties hold only without them. The initial files are any
  combination, as an earlier run may have left them.
- `InstanceLock`: two instances are the pair every property speaks of; a lease
  of three ticks has room for a slow step at each place. The invariants are
  proved for any number of instances and any lease.
- `CommandProcessor`: three commands under three IDs allow reuse of an ID by an
  earlier and a later command; two interruptions include a crash during
  recovery. `Kept = {a, b}` has events that stay and events that vanish.
- `AppUpdates`: three versions: the skipped one, another, and the one that runs
  and is never offered. Files may fail to be written.
- `DefaultUI`: none but the three ways to add the overlay; one editor at a time.
- `AuthCallback`: two connections, of any of the allowed kinds: one before or
  beside the right one, or one left over from an earlier activation. Each sends all
  of its request, a part of it, or without end.
- `SharedLicense`: two instances are a writer and a reader, or two that wake each
  other. A tick stands for 2 to 2.5 seconds: a poll every 2000 ms is 1 tick, 5000 ms
  of freshness are 2, and `MaxLate = 1` is as late as a timer may be for the event
  to be still fresh (`Poll + MaxLate <= Freshness`; beyond it `PeersFollow` cannot
  hold). Two requests of users: an activation, and a logout that interferes.
- `TokenCheck`: widths are scaled down so that every value is tried. `MaxInt64 = 9`
  with two milliseconds to a second and three to a day overflows in each product
  the code computes; a key of eight bytes with a digest of one has paddings of
  every length around `MinSeparator = 4` (the code's is 10), digests that contain
  00, 01 or FF, and trailing bytes. The proofs hold for the real widths.
- `Emulator`: two processes, so that one begins where the other's files end; two
  commands or changes in each, the fewest with which both threads open the
  browser; two writes that fail, the second while the first is being reported;
  one deletion of any number of events. The ID the fatal event's writer reads
  when it is made is taken as equal to the one it reads when it emits.

Deadlock is checked for `CommandProcessor` and `AppUpdates`. The others may
stop: an unlocker that was destroyed, instances that all crashed or whose users
are done, an emulator whose last process ended, a token that was refused.

### Fairness

- Both threads keep running (`WF` of the steps between critical sections). A
  task ends, since requests have timeouts and delays are bounded; the wait for
  the browser is the exception, it ends only by a break (`waitForRequest` polls
  the flag). That it ends then is assumed here and in `Unlocker` and `DefaultUI`;
  it does unless a client of the local port keeps sending (see `AuthCallback`). A posted asynchronous update is delivered however often the message
  thread does something else (`SF` of `HandleAsyncUpdate`).
- In `Unlocker` a task that keeps trying gets the lock in the end
  (`SF_vars(LockAcquired)`): retries are spread over one to three or one to ten
  seconds, a lock lasts five, and `InstanceLock` shows that a crashed holder
  does not keep it.
- In `InstanceLock` time passes, a refused instance tries again, and neither its
  write fails nor is it suspended for a whole lease every time.
- In `CommandProcessor` a process that ended is started again, and one that runs
  goes on. Interruptions are finitely many: with one in every attempt no command
  would be answered.
- In `Emulator` a thread that emits goes on when the mutex it needs is free, the
  message loop delivers posted messages and heeds `quit()`, and the worker's web
  request ends, at the latest by its timeout. The destructor of the unlocker
  (`Join`) is not assumed to return: `FailureEnds` says that nothing else holds
  the process up. What a client may still send before
  the process quits is bounded by `MaxWork`.
- In `DefaultUI` the same holds, and a posted change message is delivered too
  (`SF` of `ChangeListenerCallback`, as editors are opened and closed); what the
  message thread began it finishes.
- In `AuthCallback` nothing is assumed of the end of an activation as a whole: each
  of its steps that can be done is (`WF_vars(Activation)`), and a client that
  stalls is given up after a second. Clients owe nothing: no browser has to come,
  and one that keeps sending may never stop.
- In `SharedLicense` time passes, timers and updates are delivered, a task that
  wants the instance lock gets it in the end (as in `Unlocker`), and tasks go on, except one that waits for the user in the browser and is not broken.
- In `AppUpdates` the worker and the message thread finish what they began and
  change messages are delivered; neither the user nor the server owes anything.

## 4. Proofs

All theorems hold for every value of the constants that the `ASSUME`s allow.

**WorkerHandoffProofs.** `Invariant` proves `IInv`: the type invariant and the
checked invariants, strengthened by five facts they need from each other.
`WorkerPlaced` ties `currentTask` and `workerOwes` to where the worker is.
`QueuedBreaksRunning` says that a task queued while another runs has broken it,
so that one operation at a time counts: without it a second request could meet
the late result of the first. `UndefinedIsQuiet` says that nothing has happened
before `startup()`. `DestructorWithdraws` says that a destructor leaves no task
queued and the running one broken. `WatcherInformed` carries the status read by
`updateActivationEventWatcher()`: if it is outdated, an update is on its way.
The theorems follow: `TypeCorrect`, `LateResultsAreHarmless`,
`NeverStuckUnlocking`, `WakeupsAreNotLost`, `WatcherIsRight`, `NothingIsLeft`, and
`Refinement`: every step is a step of `LicenseStatus` or invisible.

**UnlockerProofs.** The invariant is built in layers. `BodyPlaced` says which task
may be at which step and that a returned result is one of the task's; with it each
step is a step of the hand-over or invisible (`StepIsHandoff`), so that the
invariant of `WorkerHandoffProofs` holds here too, and is used by instance
(`HP!IInv`). That is `BodiesImplementHandoff`. `TokenInv` follows the published
token: an unlocked product is worked on by a refresh only (`UnlockedIsLeftAlone`),
which has the token until it returns another status (`TokenIsPublished`,
`RefreshWithdraws`). `FileInv` follows the identity file: a logout deletes it only
when nothing is left that could publish a status (`ClearingIsQuiet`), and a task on
its way to an unlock has it (`IdentityAtHand`). `SavedIsGone` follows the saved token:
a refresh about to lock has found it invalid or deleted it, and only other instances
write one behind its back. Results: `UnlockerTypeCorrect`,
`UnlockedKeepsToken`, `UnlockedKeepsIdentity`, `WithdrawalLocks`.

By `BodiesImplementStatus` the bodies of the tasks keep the promise of
`LicenseStatus`, too: the refinements compose.

**HandoffUsersProofs.** What extends `WorkerHandoff` takes only its steps. For the
overlay that is `ThreadsUnderneath`, with which everything proved of the two threads
holds while editors come and go (`ThreadsStayRight`). On top of `IInv` the invariant
`UIInv` has `Informed`: whenever an editor is open, its overlay shows the status and
error that are there (`UpToDate`; in the middle of `updateContent()`: the error it
has read), or a notification is on its way that will make it look again
(`Pending`: a queued change message, the asynchronous update, the worker or a caller
about to trigger it). It is the reason why two reads in two critical sections do no
harm, and gives `ShownIsTrue`; with `UnlockingHasWork` and `QueuedBreaksRunning` of
the hand-over it gives `NobodyIsStranded`. `OneThingAtATime` keeps the message thread
from a request in the middle of `updateContent()`.

For the listener, `ActivationPlaced` says that its steps are taken only by a worker
that runs an activation, so that `ListenerOnThreads` follows, the theorem of
`KeepsToHandoff`. `ListenerKeepsPromise` is
what an owner sees of it. `CallbackIsOwn` rests on `BacklogIsOwn`: all connections of a
port that is waited on were made since, because `createListener()` closes the port
of the activation before. `ListenerTypeCorrect` includes that nobody waits on a port
that is not open.

**DirectoryFilesProofs.** Of the lock: `LockTypeCorrect` and `LeaseAgreement`. The
agreement is inductive together with the type invariant; the crucial step is
`WriteLock`, which computes the lease from the time of the read. Of the update notice:
a promise (a skip written by an earlier session) is what the file says as long as this
session skips nothing (`PromiseOnDisk`); a startup that read the file has it, and
`_state` does once a startup of the session was published (`PromiseIsRead`). Before
that nothing can be said: section 5 has an activation that shows why. Results:
`UpdatesTypeCorrect`, `SkipsSurvive`.

**EmulatorProofs.** None of the properties of the events is inductive: each needs to
know what the two threads have yet to emit. `IInv` has five parts. `TypeOK`.
`Threading`: which lists of things to do there are (`TodoShape`; the lemmas
`MainTable` and `WorkerTable` say how each goes on), that a reserved ID is held under
`eventWriteMutex` (`LockHeld`) and an open browser under the `EventBrowser`'s mutex
(`BrowserHeld`). `Numbering`: a reserved ID lies beyond the files and, but for the
`fatal` event, beyond what this process used (`ReservedFresh`); `nextId` lies beyond
the log (`NextIdAhead`), which is what holds when the reader deletes the files.
`Requesting`: whoever is about to report a request has numbered it after those
reported (`RequestsAhead`), which holds because numbering and emitting are under one
mutex. `Framing`: a process that has not started has nothing to say but why
(`Unstarted`), nothing is emitted before `ready` (`Starting`), `stopped` is emitted by
a process with nothing left to do (`Ending`), and `fatalHandled` keeps the second
fatal error out (`FatalOnce`). `WriteStep` proves the write of an event, `Moves` the
steps that write none; the steps that fail or end something follow one by one. Results:
`TypeCorrect`, `IdsGrow`, `EventsFramed`, `BrowserOrdered`, `NothingReplaced`.

**SharedLicenseProofs.** `SharedTypeCorrect`; `AnnouncementsHold`;
`ReactionsAreBounded`: between two reactions lies a whole poll interval, so that
the age of the event pays for them (`AllPaced`), for any lateness and freshness.

**TokenCheckProofs.** `RefreshExact`: with the claims of an accepted token, neither
difference nor product leaves the width (`GuardIsExact`). `OneEncoding`: by
`VerifiesOneEncoding` the byte loops hold of the one encoding and of nothing else,
for every size of key and digest. `TokenTypeCorrect`: whatever is claimed, the
wrapped values have the width of `juce::int64`.

**CommandProcessorProofs.** `Invariant` proves `IInv == TypeOK /\ DurableInv /\
AtHand`. `DurableInv` is about files and history alone and so survives every
crash: each state file belongs to a command not beyond the cursor, commands
without one are untouched, those before the cursor are completed and sealed,
stored outcomes are honest, completions on disk are backed by a state, and
emissions are counted. `AtHand` says what the running process knows at each
place; a crash empties it. The theorems `AnswersStayBacked`,
`CursorStaysBehind`, `AnsweredOnce`, `SealedStaysSealed` and `Refinement` follow.

**Model-checked only.** All liveness properties (`PendingIsTaken`, `ScreenFollows`,
`UnlockResolves`, `CallbackIsHeard`, `PeersFollow`, `FlappingEnds`,
`SurvivorAcquires`, `AnswersArrive`, `SavedUpdateIsPrompted`, `FailureEnds`,
`BrokenActivationEnds`), since the prover does not reason about
fairness and `ENABLED`. Every other property of a passing run is a theorem.

## 5. Where the code and its documentation disagree

| Run | What happens |
| --- | --- |
| `destructor_hang` | The destructor signals `_wakeEvent` and then sets the exit flag. A worker that consumes the signal in between goes back to wait on `_wakeEvent`, which `stopThread(-1)` does not signal: the destructor does not return. |
| `logout_race` | A task checks `taskShouldExit()` and then writes a token file; a logout in between deletes the files before the write. The next start finds a token again. |
| `instance_lock_race` | Two instances read the expired lock; each writes and verifies before the other writes, or after: both hold it. |

What else was met while modelling shows in single lines, and was given no run:

- A product stays `unlocked` beyond the end of its token until a task looks at it
  (`U:612`), although the documents call the status "Local access is valid"
  (`src/docs/inlay_product_unlocking.md:36`). `Unlocker` has `Tick` at any time.
- A startup reads `skipped-update.json` and publishes it later (`U:596`): a version
  skipped in between is visible again until the next start, although
  `Unlocker.h:123` says that skipping "Hides the current app update version".
- The Skip button skips the version that is current when it is pressed, not the one
  its dialog named (`DefaultUI.cpp:360`). `PressSkip` does that.
- An editor that adds the overlay with `addAndMakeVisible()`, as in
  `src/docs/inlay_product_unlocking.md:215`, makes visible what the constructor
  had hidden for an unlocked product, blank, until the next change message.
  `Shows` names the exception.
- While an activation runs the status is `activationRequired` (`U:881`), although
  `Unlocker.h:36` names activations among the operations of `unlocking`.
- An answer without an `idToken` completes an activation (`U:738`): the identity
  written is empty. `Api!CompleteAuth` assumes both tokens; `UnlockedIsPersisted`
  does not hold without that.
- A startup accepts a 201 (`U:644`), a refresh only a 200.
- A product that is logged out before its startup has read the files (`U:583`) and
  is then activated has never read `skipped-update.json`, and offers a version that
  was skipped in an earlier session (`U:763`), although a prompt is promised only if
  "the user has not skipped that version"
  (`src/docs/inlay_product_unlocking.md:355`). `SkipSurvivesRestart` speaks of
  sessions whose startup has `published`; without that conjunct TLC finds this trace.
- A client of the local port that keeps sending and never ends its header holds
  `readHttpRequest()` (`AuthCallbackListener.cpp:137`), with it a broken activation,
  and with that the destructor. `HeldByClient` names the exception; without it TLC
  refutes `BrokenActivationEnds` and `CallbackIsHeard`.
- The emulator's `stop()` ends the unlocker (`Emulator.cpp:195`), and so inherits
  what keeps `~UnlockerImpl` from returning, the run `destructor_hang` among it.

## 6. Not modelled

- `Browser`: one call into the operating system. Headers, bodies and URLs of the
  requests of `Api`, whose answers are arbitrary.
- The loops of juce and of the operating system: RSA and SHA-256, JSON, sockets
  below accepting and reading, the message queue beyond its delivery.
- Undefined behaviour: the read of `_state.validatedAccessToken` without the
  lock (`U:615`) gets either answer in the model; the race on `_idToken` has no
  effect on anything modelled.
- Presentation: labels, layout, the backdrop, logging, the wording of errors (an
  error is there or not).
- A 422 for an old identity that deletes newer files of another instance is a step
  of `SharedLicense`; nothing promises that it cannot happen, and no property
  excludes it.
- The emulator's parsing, redaction and formatting (`Protocol`), and the payloads
  of its events: no property tells texts apart. The validation of state files that
  something else wrote is an outcome of the start.
- The examples: audio, notes and drawing, without a protocol with the unlocker. How
  their editors add the overlay is in `DefaultUI`.

## 7. What remains

Every safety property that is checked is proved. What would add to that: the event
stream of the emulator as an abstract specification that `Emulator` implements
(`Framed`, `BrowserInOrder` and `Appends` in one), a safety theorem behind
`UnlockResolves` (a task that keeps trying is never out of reach of the lock), and
`PeersFollow` from its safety part, that a fresh event and an instance that waits
always have a poll between them.
