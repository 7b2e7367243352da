------------------------------ MODULE Emulator ------------------------------
(***************************************************************************)
(* The emulator process from initialise() to shutdown(), as its events     *)
(* show it: two threads, the message thread and the unlocker's worker,     *)
(* append numbered files to events/ under eventWriteMutex.  A write that   *)
(* fails ends the process with a fatal event of its own writer.  Commands  *)
(* are those of CommandProcessor, here reduced to the events they cause.   *)
(* A thread keeps a list of what it has yet to do: "open" and "close" take *)
(* and return the EventBrowser's mutex, the others are events to emit.     *)
(***************************************************************************)
EXTENDS Naturals, Sequences

CONSTANTS
    MaxWork,        \* bound of the commands and changes of a process
    MaxFailures,    \* bound of the writes that fail, over all processes
    MaxProcesses,   \* bound of the processes of one run directory
    MaxDeletions    \* how often the reader deletes events

ASSUME BoundsAssumption ==
    /\ MaxWork \in Nat
    /\ MaxFailures \in Nat
    /\ MaxProcesses \in Nat
    /\ MaxDeletions \in Nat

VARIABLES
    largest,        \* the largest event ID in events/; 0 when it is empty
    deletions,      \* how often the reader has deleted events
    nextId,         \* of the Emulator's EventWriter
    lock,           \* who holds eventWriteMutex
    browserLock,    \* who holds the EventBrowser's eventMutex
    nextRequestId,
    todo,           \* what each thread has yet to do
    reserved,       \* the event ID each thread writes under
    request,        \* the browser request each thread numbered
    place,          \* where the message thread is
    started,
    commandsOn,     \* the CommandProcessor's timer runs
    fatalHandled,
    quitting,       \* quit() was called
    activating,     \* the worker is on its way to open the browser
    posted,         \* a fatal error is posted to the message thread
    log,            \* history: the events this process wrote
    failed,         \* history: one of its writes failed
    work, failures, processes

memory == <<nextId, lock, browserLock, nextRequestId, todo, reserved, request,
            place, started, commandsOn, fatalHandled, quitting, activating,
            posted, log, failed, work>>
vars == <<largest, deletions, memory, failures, processes>>

Threads == {"main", "worker"}
Events == {"ready", "changed", "error", "browser", "completed", "fatal", "stopped"}
Places == {"down", "load", "start", "loop", "refused", "joining", "last"}

Steps == Events \cup {"open", "close"}
Entries == [id : Nat, type : Events, request : Nat]

NumbersTyped ==
    /\ largest \in Nat
    /\ {nextId, nextRequestId} \subseteq Nat \ {0}
    /\ deletions \in 0..MaxDeletions
    /\ work \in 0..MaxWork
    /\ failures \in 0..MaxFailures
    /\ processes \in 0..MaxProcesses

ThreadsTyped ==
    /\ {lock, browserLock} \subseteq Threads \cup {"none"}
    /\ todo \in [Threads -> Seq(Steps)]
    /\ reserved \in [Threads -> Nat]
    /\ request \in [Threads -> Nat]
    /\ place \in Places

FlagsTyped ==
    {started, commandsOn, fatalHandled, quitting, activating, posted, failed}
        \subseteq BOOLEAN

TypeOK == NumbersTyped /\ ThreadsTyped /\ FlagsTyped /\ log \in Seq(Entries)

\* The memory of a process that has not begun, or is no more.
NoProcess(where) ==
    /\ lock' = "none" /\ browserLock' = "none"
    /\ nextRequestId' = 1
    /\ todo' = [t \in Threads |-> <<>>]
    /\ reserved' = [t \in Threads |-> 0]
    /\ request' = [t \in Threads |-> 0]
    /\ place' = where
    /\ started' = FALSE /\ commandsOn' = FALSE
    /\ fatalHandled' = FALSE /\ quitting' = FALSE
    /\ activating' = FALSE /\ posted' = FALSE
    /\ log' = <<>>
    /\ failed' = FALSE
    /\ work' = 0

Init ==
    /\ largest = 0
    /\ deletions = 0
    /\ nextId = 1
    /\ lock = "none" /\ browserLock = "none"
    /\ nextRequestId = 1
    /\ todo = [t \in Threads |-> <<>>]
    /\ reserved = [t \in Threads |-> 0]
    /\ request = [t \in Threads |-> 0]
    /\ place = "down"
    /\ started = FALSE /\ commandsOn = FALSE
    /\ fatalHandled = FALSE /\ quitting = FALSE
    /\ activating = FALSE /\ posted = FALSE
    /\ log = <<>>
    /\ failed = FALSE
    /\ work = 0 /\ failures = 0 /\ processes = 0

-----------------------------------------------------------------------------
(* The world outside.                                                      *)

\* The EventWriter begins where the files leave off.
Launch ==
    /\ place = "down"
    /\ processes < MaxProcesses
    /\ processes' = processes + 1
    /\ nextId' = largest + 1
    /\ NoProcess("load")
    /\ UNCHANGED <<largest, deletions, failures>>

Crash ==
    /\ place # "down"
    /\ nextId' = 1
    /\ NoProcess("down")
    /\ UNCHANGED <<largest, deletions, failures, processes>>

\* The reader deletes events, the newest among them.
Delete ==
    /\ deletions < MaxDeletions
    /\ deletions' = deletions + 1
    /\ \E n \in 0..(largest - 1) : largest' = n
    /\ UNCHANGED <<memory, failures, processes>>

-----------------------------------------------------------------------------
(* Emitting an event, and what follows when that fails.                    *)

outside == <<largest, deletions, failures, processes>>
writers == <<nextId, lock, browserLock, nextRequestId, reserved, request>>
history == <<log, failed, work>>

HasTodo(t, what) == todo[t] # <<>> /\ Head(todo[t]) \in what

Done(t) == todo' = [todo EXCEPT ![t] = Tail(@)]

\* handleFatal() on the message thread, which then goes on with the rest.
HandleFatal(rest) ==
    /\ todo' = [todo EXCEPT !["main"] =
                    IF fatalHandled THEN rest ELSE <<"fatal">> \o rest]
    /\ fatalHandled' = TRUE
    /\ quitting' = TRUE

\* Mutant: a request is numbered before the mutex is taken.
OpenUnlocked(t) ==
    /\ HasTodo(t, {"open"})
    /\ request' = [request EXCEPT ![t] = nextRequestId]
    /\ nextRequestId' = nextRequestId + 1
    /\ Done(t)
    /\ UNCHANGED <<outside, nextId, lock, browserLock, reserved, place, started,
                   commandsOn, fatalHandled, quitting, activating, posted, history>>

Open(t) ==
    /\ HasTodo(t, {"open"})
    /\ browserLock = "none"
    /\ browserLock' = t
    /\ request' = [request EXCEPT ![t] = nextRequestId]
    /\ nextRequestId' = nextRequestId + 1
    /\ Done(t)
    /\ UNCHANGED <<outside, nextId, lock, reserved, place, started, commandsOn,
                   fatalHandled, quitting, activating, posted, history>>

Close(t) ==
    /\ HasTodo(t, {"close"})
    /\ browserLock' = "none"
    /\ request' = [request EXCEPT ![t] = 0]
    /\ Done(t)
    /\ UNCHANGED <<outside, nextId, lock, nextRequestId, reserved, place, started,
                   commandsOn, fatalHandled, quitting, activating, posted, history>>

Larger(m, n) == IF m > n THEN m ELSE n

\* Mutant: only the files count for the next ID.
IdFromFiles(event) == largest + 1

\* The fatal event has a writer of its own, made from the files on the spot.
EventId(event) ==
    IF event = "fatal" THEN largest + 1 ELSE Larger(nextId, largest + 1)

\* Mutant: the ID is chosen before the mutex is taken.
ReserveUnlocked(t) ==
    /\ HasTodo(t, Events)
    /\ reserved[t] = 0
    /\ reserved' = [reserved EXCEPT ![t] = EventId(Head(todo[t]))]
    /\ UNCHANGED <<outside, nextId, lock, browserLock, nextRequestId, request,
                   todo, place, started, commandsOn, fatalHandled, quitting,
                   activating, posted, history>>

Reserve(t) ==
    /\ HasTodo(t, Events)
    /\ reserved[t] = 0
    /\ lock = "none"
    /\ lock' = t
    /\ reserved' = [reserved EXCEPT ![t] = EventId(Head(todo[t]))]
    /\ UNCHANGED <<outside, nextId, browserLock, nextRequestId, request, todo,
                   place, started, commandsOn, fatalHandled, quitting,
                   activating, posted, history>>

\* writeJsonAtomically() succeeds, and emit() returns.
Write(t) ==
    /\ reserved[t] # 0
    /\ LET event == Head(todo[t]) IN
       /\ largest' = Larger(largest, reserved[t])
       /\ nextId' = IF event = "fatal" THEN nextId ELSE reserved[t] + 1
       /\ log' = Append(log, [id |-> reserved[t], type |-> event,
                              request |-> request[t]])
    /\ reserved' = [reserved EXCEPT ![t] = 0]
    /\ lock' = "none"
    /\ Done(t)
    /\ UNCHANGED <<deletions, browserLock, nextRequestId, request, place, started,
                   commandsOn, fatalHandled, quitting, activating, posted,
                   failed, work, failures, processes>>

\* What the message thread still does after an event it could not write: the
\* change callback returns, the command that opened the browser completes.
AfterFailureOf(event) ==
    IF event = "changed" THEN <<>> ELSE Tail(todo["main"])

\* A fatal event that cannot be written is given up.
Report(event) ==
    IF event = "fatal"
    THEN Done("main") /\ UNCHANGED <<fatalHandled, quitting>>
    ELSE HandleFatal(AfterFailureOf(event))

Failing(t) ==
    /\ reserved[t] # 0
    /\ failures < MaxFailures
    /\ failures' = failures + 1
    /\ failed' = TRUE
    /\ reserved' = [reserved EXCEPT ![t] = 0]
    /\ UNCHANGED <<largest, deletions, nextId, browserLock, nextRequestId, request,
                   place, activating, log, work, processes>>

\* Mutant: the error is reported while eventWriteMutex is still held.
FailInsideLock ==
    /\ Failing("main")
    /\ LET event == Head(todo["main"]) IN
       /\ Report(event)
       /\ started' = (started /\ event # "ready")
       /\ commandsOn' = (commandsOn /\ event # "completed")
    /\ UNCHANGED <<lock, posted>>

\* A write of the message thread fails.  Without "ready" the emulator has not
\* started; without "command_completed" the CommandProcessor stops.
FailOnMain ==
    /\ Failing("main")
    /\ LET event == Head(todo["main"]) IN
       /\ Report(event)
       /\ started' = (started /\ event # "ready")
       /\ commandsOn' = (commandsOn /\ event # "completed")
    /\ lock' = "none"
    /\ UNCHANGED posted

FailOnWorker ==
    /\ Failing("worker")
    /\ Done("worker")
    /\ lock' = "none"
    /\ posted' = TRUE
    /\ UNCHANGED <<started, commandsOn, fatalHandled, quitting>>

Emission(t) == Open(t) \/ Close(t) \/ Reserve(t) \/ Write(t)

-----------------------------------------------------------------------------
(* The message thread.                                                     *)

Idle == todo["main"] = <<>>

\* The configuration is invalid, with or without a run ID to report it under.
RefuseConfig ==
    /\ place = "load"
    /\ \E known \in BOOLEAN :
         todo' = [todo EXCEPT !["main"] = IF known THEN <<"fatal">> ELSE <<>>]
    /\ place' = "refused"
    /\ fatalHandled' = TRUE
    /\ quitting' = TRUE
    /\ UNCHANGED <<outside, writers, started, commandsOn, activating, posted, history>>

\* start() finds the directory not writable or the stored state invalid.
FailPreflight ==
    /\ place = "load"
    /\ HandleFatal(<<>>)
    /\ place' = "loop"
    /\ UNCHANGED <<outside, writers, started, commandsOn, activating, posted, history>>

Start ==
    /\ place = "load"
    /\ started' = TRUE
    /\ todo' = [todo EXCEPT !["main"] = <<"ready">>]
    /\ place' = "start"
    /\ UNCHANGED <<outside, writers, commandsOn, fatalHandled, quitting,
                   activating, posted, history>>

EnterLoop ==
    /\ place = "start"
    /\ Idle
    /\ place' = "loop"
    /\ commandsOn' = started
    /\ UNCHANGED <<outside, writers, todo, started, fatalHandled, quitting,
                   activating, posted, history>>

Commands == {"other", "website", "activation"}

Caused(command) ==
    IF command = "website" THEN <<"open", "browser", "close", "completed">>
                           ELSE <<"completed">>

\* invoke() between its state writes; the browser of an activation is opened by
\* the worker, later.
RunCommand ==
    /\ place = "loop" /\ Idle /\ commandsOn
    /\ work < MaxWork
    /\ work' = work + 1
    /\ \E command \in Commands :
         /\ todo' = [todo EXCEPT !["main"] = Caused(command)]
         /\ activating' = (activating \/ command = "activation")
    /\ UNCHANGED <<outside, writers, place, started, commandsOn, fatalHandled,
                   quitting, posted, log, failed>>

\* A state file or the cursor cannot be read or written: reportFatal().
FailCommand ==
    /\ place = "loop" /\ Idle /\ commandsOn
    /\ failures < MaxFailures
    /\ failures' = failures + 1
    /\ failed' = TRUE
    /\ commandsOn' = FALSE
    /\ HandleFatal(<<>>)
    /\ UNCHANGED <<largest, deletions, writers, place, started, activating, posted,
                   log, work, processes>>

ChangeListenerCallback ==
    /\ place = "loop" /\ Idle /\ started
    /\ work < MaxWork
    /\ work' = work + 1
    /\ \E caused \in {<<"changed">>, <<"changed", "error">>} :
         todo' = [todo EXCEPT !["main"] = caused]
    /\ UNCHANGED <<outside, writers, place, started, commandsOn, fatalHandled,
                   quitting, activating, posted, log, failed>>

DeliverFatal ==
    /\ place = "loop" /\ Idle
    /\ posted
    /\ posted' = FALSE
    /\ HandleFatal(<<>>)
    /\ UNCHANGED <<outside, writers, place, started, commandsOn, activating, history>>

\* The timer finds that a signal came, or the system asks the process to quit.
Terminate ==
    /\ place = "loop" /\ Idle
    /\ quitting' = TRUE
    /\ UNCHANGED <<outside, writers, todo, place, started, commandsOn,
                   fatalHandled, activating, posted, history>>

\* The message loop ends; stop() begins with the commands and the listener.
Stop ==
    /\ place = "loop" /\ Idle
    /\ quitting
    /\ place' = "joining"
    /\ commandsOn' = FALSE
    /\ UNCHANGED <<outside, writers, todo, started, fatalHandled, quitting,
                   activating, posted, history>>

WorkerIdle == ~activating /\ todo["worker"] = <<>>

\* Mutant: the last event is written before the worker is joined.
JoinLater ==
    /\ place = "joining"
    /\ place' = "last"
    /\ todo' = [todo EXCEPT !["main"] = IF started THEN <<"stopped">> ELSE <<>>]
    /\ UNCHANGED <<outside, writers, started, commandsOn, fatalHandled, quitting,
                   activating, posted, history>>

\* unlocker.reset() has joined the worker.  It need not return: the worker may
\* wait where nothing wakes it (run destructor_hang), or read from a client that
\* keeps sending (AuthCallback).
Join ==
    /\ place = "joining"
    /\ WorkerIdle
    /\ place' = "last"
    /\ todo' = [todo EXCEPT !["main"] = IF started THEN <<"stopped">> ELSE <<>>]
    /\ UNCHANGED <<outside, writers, started, commandsOn, fatalHandled, quitting,
                   activating, posted, history>>

\* The process is over; what was posted to its message thread is lost.
Exit ==
    /\ place \in {"last", "refused"} /\ Idle
    /\ nextId' = 1
    /\ NoProcess("down")
    /\ UNCHANGED <<largest, deletions, failures, processes>>

Shutdown == EnterLoop \/ Stop \/ Join \/ Exit

-----------------------------------------------------------------------------
(* The worker.                                                             *)

\* The server has answered an activation request with the page to open.
OpenContinueURL ==
    /\ activating
    /\ todo["worker"] = <<>>
    /\ todo' = [todo EXCEPT !["worker"] = <<"open", "browser", "close">>]
    /\ activating' = FALSE
    /\ UNCHANGED <<outside, writers, place, started, commandsOn, fatalHandled,
                   quitting, posted, history>>

\* The request failed, was superseded, or the thread is to end.
GiveUpActivation ==
    /\ activating
    /\ todo["worker"] = <<>>
    /\ activating' = FALSE
    /\ UNCHANGED <<outside, writers, todo, place, started, commandsOn,
                   fatalHandled, quitting, posted, history>>

-----------------------------------------------------------------------------
Next ==
    \/ Launch
    \/ Crash
    \/ Delete
    \/ Terminate
    \/ \E t \in Threads : Emission(t)
    \/ FailOnMain
    \/ FailOnWorker
    \/ RefuseConfig
    \/ FailPreflight
    \/ Start
    \/ RunCommand
    \/ FailCommand
    \/ ChangeListenerCallback
    \/ DeliverFatal
    \/ Shutdown
    \/ OpenContinueURL
    \/ GiveUpActivation

Spec == Init /\ [][Next]_vars

(* A thread in the middle of emitting goes on when the mutex it needs is   *)
(* free; the message loop delivers what is posted and heeds quit(); a web  *)
(* request of the worker comes to an end, at the latest by its timeout.    *)
(* That the unlocker's destructor returns (Join) is not assumed.           *)
FairSpec ==
    /\ Spec
    /\ \A t \in Threads : WF_vars(Emission(t))
    /\ WF_vars(DeliverFatal)
    /\ WF_vars(EnterLoop \/ Stop \/ Exit)
    /\ WF_vars(OpenContinueURL \/ GiveUpActivation)

-----------------------------------------------------------------------------
(* Properties.                                                             *)

Wrote == Len(log') = Len(log) + 1
Written == log'[Len(log')]

\* No event ever replaces one that is still in events/, whichever thread or
\* process or writer it comes from, and while the reader keeps the files they
\* are numbered without a gap ("event IDs are not sequential",
\* ProcessTests.cpp:366).
Appends ==
    [][Wrote => /\ Written.id > largest
                /\ deletions = 0 => Written.id = largest + 1]_vars

Indices == 1..Len(log)

\* A process does not use an ID twice, even when the reader has deleted the
\* event: a reader that remembers the last ID it saw misses nothing but, maybe,
\* the fatal event, whose writer knows only the files.
IdsIncrease ==
    \A i, j \in Indices :
        i < j /\ "fatal" \notin {log[i].type, log[j].type} => log[i].id < log[j].id

\* The events of a process are framed whatever fails on whichever thread: the
\* first is "ready", and one that cannot emit it says no more than why it ends;
\* nothing comes after "stopped", not even from the worker or from a fatal
\* error ("stopped is not the final event", ProcessTests.cpp:350); and it
\* reports one fatal error.
Framed ==
    /\ log # <<>> => log[1].type = "ready" \/ (Len(log) = 1 /\ log[1].type = "fatal")
    /\ \A i \in Indices : log[i].type = "stopped" => i = Len(log)
    /\ \A i, j \in Indices : log[i].type = "fatal" /\ log[j].type = "fatal" => i = j

\* Browser requests of both threads appear in the order of their numbers
\* (EmulatorTests.cpp:250).
BrowserInOrder ==
    \A i, j \in Indices :
        i < j /\ log[i].type = "browser" /\ log[j].type = "browser"
            => log[i].request < log[j].request

\* A process that was told to quit, or that could not write something, ends,
\* or comes at least to the end of its unlocker with nothing left to emit: no
\* failing write, on either thread, and no order in which the two take the two
\* mutexes holds it up before that.
FailureEnds ==
    (failed \/ quitting)
        ~> place = "down" \/ (place = "joining" /\ WorkerIdle)
=============================================================================
