--------------------------- MODULE EmulatorProofs ---------------------------
(***************************************************************************)
(* What a reader of the emulator's events relies on, for any number of     *)
(* processes, commands, failed writes and deletions: one inductive         *)
(* invariant says what the two threads have yet to emit, who may number    *)
(* the next event and request, and what the log says of both.              *)
(***************************************************************************)
EXTENDS Emulator, SequenceTheorems, TLAPS

\* What the message thread, and what the worker, may have yet to do.
MainTodos ==
    {<<>>, <<"fatal">>, <<"ready">>, <<"stopped">>, <<"completed">>, <<"error">>,
     <<"changed">>, <<"changed", "error">>,
     <<"open", "browser", "close", "completed">>,
     <<"browser", "close", "completed">>, <<"close", "completed">>,
     <<"fatal", "close", "completed">>}

WorkerTodos ==
    {<<>>, <<"open", "browser", "close">>, <<"browser", "close">>, <<"close">>}

\* With one of these to do, a thread holds the EventBrowser's mutex.
Opened ==
    {<<"browser", "close", "completed">>, <<"close", "completed">>,
     <<"fatal", "close", "completed">>, <<"browser", "close">>, <<"close">>}

TodoShape ==
    /\ todo \in [Threads -> MainTodos \cup WorkerTodos]
    /\ todo["main"] \in MainTodos
    /\ todo["worker"] \in WorkerTodos

\* Whoever has reserved an ID holds eventWriteMutex and is about to emit.
LockHeld == \A t \in Threads : reserved[t] # 0 => lock = t /\ HasTodo(t, Events)

BrowserHeld == \A t \in Threads : todo[t] \in Opened => browserLock = t

\* A reserved ID is beyond what is in events/, and beyond what this writer
\* used before.
ReservedFresh ==
    \A t \in Threads : reserved[t] # 0 =>
        /\ reserved[t] > largest
        /\ deletions = 0 => reserved[t] = largest + 1
        /\ Head(todo[t]) # "fatal" => reserved[t] >= nextId

NextIdAhead ==
    /\ deletions = 0 => nextId <= largest + 1
    /\ \A i \in Indices : log[i].type # "fatal" => log[i].id < nextId

\* All browser requests in the log have numbers below n.
RequestedBelow(n) == \A i \in Indices : log[i].type = "browser" => log[i].request < n

\* Whoever is about to report a request has numbered it after those reported.
RequestsAhead ==
    /\ RequestedBelow(nextRequestId)
    /\ \A t \in Threads : HasTodo(t, {"browser"}) =>
          request[t] < nextRequestId /\ RequestedBelow(request[t])

Logged(type) == \E i \in Indices : log[i].type = type

\* A process that has not started, or could not emit "ready", has nothing to
\* say but why.
Unstarted ==
    ~started =>
        /\ todo["worker"] = <<>> /\ ~activating /\ ~posted /\ ~commandsOn
        /\ todo["main"] \in {<<>>, <<"fatal">>}
        /\ log # <<>> => todo["main"] = <<>> /\ Len(log) = 1 /\ log[1].type = "fatal"

\* Up to "ready" nothing else is emitted, and no worker runs.
Starting ==
    /\ place \in {"down", "load"} =>
          ~started /\ log = <<>> /\ todo["main"] = <<>> /\ ~fatalHandled
    /\ place = "refused" => ~started
    /\ place = "start" => todo["worker"] = <<>> /\ ~activating /\ ~posted /\ ~commandsOn
    /\ place = "start" /\ started => todo["main"] \in {<<>>, <<"ready">>}
    /\ todo["main"] = <<"ready">> =>
          place = "start" /\ started /\ log = <<>> /\ ~fatalHandled
    /\ started /\ todo["main"] # <<"ready">> => log # <<>> /\ log[1].type = "ready"

\* "stopped" is emitted by a process with nothing else left to do.
Ending ==
    /\ place = "joining" => todo["main"] = <<>>
    /\ place = "last" => WorkerIdle /\ todo["main"] \in {<<>>, <<"stopped">>, <<"fatal">>}
    /\ todo["main"] = <<"stopped">> => place = "last"
    /\ Logged("stopped") => place = "last" /\ todo["main"] = <<>>

\* fatalHandled keeps the second fatal error out.
FatalOnce ==
    /\ HasTodo("main", {"fatal"}) => fatalHandled /\ ~Logged("fatal")
    /\ Logged("fatal") => fatalHandled

Threading == TodoShape /\ LockHeld /\ BrowserHeld
Numbering == ReservedFresh /\ NextIdAhead /\ IdsIncrease
Requesting == RequestsAhead /\ BrowserInOrder
Framing == Unstarted /\ Starting /\ Ending /\ FatalOnce /\ Framed

IInv == TypeOK /\ Threading /\ Numbering /\ Requesting /\ Framing

-----------------------------------------------------------------------------
(* The lists of things to do.                                              *)

LEMMA FatalBefore ==
    /\ <<"fatal">> \o <<>> = <<"fatal">>
    /\ <<"fatal">> \o <<"close", "completed">> = <<"fatal", "close", "completed">>
<1>1. <<"fatal">> \o <<>> = <<"fatal">>
  <2>1. <<"fatal">> \in Seq({"fatal"})
    OBVIOUS
  <2> QED
    BY <2>1, ConcatEmptySeq
<1>2. <<"fatal">> \o <<"close", "completed">> = <<"fatal", "close", "completed">>
  <2> DEFINE u == <<"close", "completed">>
             v == <<"fatal", "close", "completed">>
             S == {"fatal", "close", "completed"}
  <2>1. <<"fatal">> \o u \in Seq(S) /\ v \in Seq(S) /\ Len(v) = 3
    OBVIOUS
  <2>2. Len(<<"fatal">> \o u) = 3
    OBVIOUS
  <2>3. \A i \in 1..3 : (<<"fatal">> \o u)[i] = v[i]
    OBVIOUS
  <2> QED
    BY <2>1, <2>2, <2>3, SeqEqual
<1> QED
  BY <1>1, <1>2

\* A list s of the message thread, or of the worker, begins with head and goes
\* on with tail.
MainSplit(s, head, tail) ==
    \/ /\ head \in {"fatal", "ready", "stopped", "completed", "error", "changed"}
       /\ s = <<head>> /\ tail = <<>>
    \/ head = "changed" /\ s = <<"changed", "error">> /\ tail = <<"error">>
    \/ /\ head = "open"
       /\ s = <<"open", "browser", "close", "completed">>
       /\ tail = <<"browser", "close", "completed">>
    \/ /\ head = "browser"
       /\ s = <<"browser", "close", "completed">> /\ tail = <<"close", "completed">>
    \/ head = "close" /\ s = <<"close", "completed">> /\ tail = <<"completed">>
    \/ /\ head = "fatal"
       /\ s = <<"fatal", "close", "completed">> /\ tail = <<"close", "completed">>

WorkerSplit(s, head, tail) ==
    \/ /\ head = "open"
       /\ s = <<"open", "browser", "close">> /\ tail = <<"browser", "close">>
    \/ head = "browser" /\ s = <<"browser", "close">> /\ tail = <<"close">>
    \/ head = "close" /\ s = <<"close">> /\ tail = <<>>

LEMMA MainTable ==
    ASSUME NEW s \in MainTodos, s # <<>>
    PROVE  MainSplit(s, Head(s), Tail(s)) /\ Tail(s) \in MainTodos
<1>1. CASE s = <<"fatal">>
  <2>1. Tail(<<"fatal">>) = <<>>
    OBVIOUS
  <2> QED
    BY <1>1, <2>1 DEF MainSplit, MainTodos
<1>2. CASE s = <<"ready">>
  <2>1. Tail(<<"ready">>) = <<>>
    OBVIOUS
  <2> QED
    BY <1>2, <2>1 DEF MainSplit, MainTodos
<1>3. CASE s = <<"stopped">>
  <2>1. Tail(<<"stopped">>) = <<>>
    OBVIOUS
  <2> QED
    BY <1>3, <2>1 DEF MainSplit, MainTodos
<1>4. CASE s = <<"completed">>
  <2>1. Tail(<<"completed">>) = <<>>
    OBVIOUS
  <2> QED
    BY <1>4, <2>1 DEF MainSplit, MainTodos
<1>5. CASE s = <<"error">>
  <2>1. Tail(<<"error">>) = <<>>
    OBVIOUS
  <2> QED
    BY <1>5, <2>1 DEF MainSplit, MainTodos
<1>6. CASE s = <<"changed">>
  <2>1. Tail(<<"changed">>) = <<>>
    OBVIOUS
  <2> QED
    BY <1>6, <2>1 DEF MainSplit, MainTodos
<1>7. CASE s = <<"changed", "error">>
  <2>1. Tail(<<"changed", "error">>) = <<"error">>
    OBVIOUS
  <2> QED
    BY <1>7, <2>1 DEF MainSplit, MainTodos
<1>8. CASE s = <<"open", "browser", "close", "completed">>
  <2>1. Tail(<<"open", "browser", "close", "completed">>) = <<"browser", "close", "completed">>
    OBVIOUS
  <2> QED
    BY <1>8, <2>1 DEF MainSplit, MainTodos
<1>9. CASE s = <<"browser", "close", "completed">>
  <2>1. Tail(<<"browser", "close", "completed">>) = <<"close", "completed">>
    OBVIOUS
  <2> QED
    BY <1>9, <2>1 DEF MainSplit, MainTodos
<1>10. CASE s = <<"close", "completed">>
  <2>1. Tail(<<"close", "completed">>) = <<"completed">>
    OBVIOUS
  <2> QED
    BY <1>10, <2>1 DEF MainSplit, MainTodos
<1>11. CASE s = <<"fatal", "close", "completed">>
  <2>1. Tail(<<"fatal", "close", "completed">>) = <<"close", "completed">>
    OBVIOUS
  <2> QED
    BY <1>11, <2>1 DEF MainSplit, MainTodos
<1> QED
  BY <1>1, <1>2, <1>3, <1>4, <1>5, <1>6, <1>7, <1>8, <1>9, <1>10, <1>11 DEF MainTodos, MainSplit

LEMMA WorkerTable ==
    ASSUME NEW s \in WorkerTodos, s # <<>>
    PROVE  WorkerSplit(s, Head(s), Tail(s)) /\ Tail(s) \in WorkerTodos
<1>1. CASE s = <<"open", "browser", "close">>
  <2>1. Tail(<<"open", "browser", "close">>) = <<"browser", "close">>
    OBVIOUS
  <2> QED
    BY <1>1, <2>1 DEF WorkerSplit, WorkerTodos
<1>2. CASE s = <<"browser", "close">>
  <2>1. Tail(<<"browser", "close">>) = <<"close">>
    OBVIOUS
  <2> QED
    BY <1>2, <2>1 DEF WorkerSplit, WorkerTodos
<1>3. CASE s = <<"close">>
  <2>1. Tail(<<"close">>) = <<>>
    OBVIOUS
  <2> QED
    BY <1>3, <2>1 DEF WorkerSplit, WorkerTodos
<1> QED
  BY <1>1, <1>2, <1>3 DEF WorkerTodos, WorkerSplit

LEMMA NotOpened ==
    {<<>>, <<"fatal">>, <<"ready">>, <<"stopped">>, <<"completed">>, <<"error">>,
     <<"changed">>, <<"changed", "error">>,
     <<"open", "browser", "close", "completed">>,
     <<"open", "browser", "close">>} \cap Opened = {}
BY DEF Opened

\* The lists are made of steps.
LEMMA TodoTyped ==
    /\ MainTodos \cup WorkerTodos \subseteq Seq(Steps)
    /\ [Threads -> MainTodos \cup WorkerTodos] \subseteq [Threads -> Seq(Steps)]
<1>1. MainTodos \cup WorkerTodos \subseteq Seq(Steps)
  BY DEF MainTodos, WorkerTodos, Steps, Events
<1> QED
  BY <1>1

-----------------------------------------------------------------------------
(* Types.                                                                  *)

\* Numbers stay numbers within their bounds.
LEMMA NumbersStep == TypeOK /\ [Next]_vars => NumbersTyped'
<1> SUFFICES ASSUME TypeOK, [Next]_vars PROVE NumbersTyped'
  OBVIOUS
<1> USE BoundsAssumption DEF TypeOK, NumbersTyped
<1>1. ASSUME NEW t \in Threads, Write(t) PROVE NumbersTyped'
  <2>1. reserved[t] \in Nat
    BY DEF ThreadsTyped
  <2> QED
    BY <1>1, <2>1 DEF Write, Larger
<1>2. ASSUME NEW t \in Threads, Open(t) \/ Close(t) \/ Reserve(t) PROVE NumbersTyped'
  BY <1>2 DEF Open, Close, Reserve, outside, history
<1>3. CASE Launch \/ Crash \/ Exit
  BY <1>3 DEF Launch, Crash, Exit, NoProcess
<1>4. CASE FailOnMain \/ FailOnWorker
  BY <1>4 DEF FailOnMain, FailOnWorker, Failing
<1>5. CASE Delete \/ FailCommand \/ RunCommand \/ ChangeListenerCallback
  BY <1>5 DEF Delete, FailCommand, RunCommand, ChangeListenerCallback, memory, outside, writers
<1>6. \/ RefuseConfig \/ FailPreflight \/ Start \/ EnterLoop \/ DeliverFatal
      \/ Terminate \/ Stop \/ Join \/ OpenContinueURL \/ GiveUpActivation
      \/ UNCHANGED vars
      => NumbersTyped'
  BY DEF RefuseConfig, FailPreflight, Start, EnterLoop, DeliverFatal, Terminate, Stop, Join,
         OpenContinueURL, GiveUpActivation, vars, memory, outside, writers, history
<1> QED
  BY <1>1, <1>2, <1>3, <1>4, <1>5, <1>6 DEF Next, Emission, Shutdown

\* Mutexes, reservations and places keep their types.
LEMMA ThreadsStep == TypeOK /\ TodoShape' /\ [Next]_vars => ThreadsTyped'
<1> SUFFICES ASSUME TypeOK, TodoShape', [Next]_vars PROVE ThreadsTyped'
  OBVIOUS
<1>1. todo' \in [Threads -> Seq(Steps)]
  BY TodoTyped DEF TodoShape
<1> USE <1>1 DEF TypeOK, ThreadsTyped, Threads, Places
<1>2. ASSUME NEW t \in Threads, Reserve(t) PROVE ThreadsTyped'
  BY <1>2 DEF Reserve, EventId, Larger, NumbersTyped
<1>3. ASSUME NEW t \in Threads, Open(t) \/ Close(t) \/ Write(t) PROVE ThreadsTyped'
  <2>1. nextRequestId \in Nat
    BY DEF NumbersTyped
  <2>2. CASE Open(t)
    BY <2>1, <2>2 DEF Open
  <2>3. CASE Close(t)
    BY <2>3 DEF Close
  <2>4. CASE Write(t)
    BY <2>4 DEF Write
  <2> QED
    BY <1>3, <2>2, <2>3, <2>4
<1>4. CASE Launch \/ Crash \/ Exit
  BY <1>4 DEF Launch, Crash, Exit, NoProcess
<1>5. CASE FailOnMain \/ FailOnWorker
  BY <1>5 DEF FailOnMain, FailOnWorker, Failing
<1>6. \/ RefuseConfig \/ FailPreflight \/ Start \/ EnterLoop \/ DeliverFatal
      \/ Terminate \/ Stop \/ Join \/ OpenContinueURL \/ GiveUpActivation
      \/ Delete \/ FailCommand \/ RunCommand \/ ChangeListenerCallback
      \/ UNCHANGED vars
      => ThreadsTyped'
  BY DEF RefuseConfig, FailPreflight, Start, EnterLoop, DeliverFatal, Terminate, Stop, Join,
         OpenContinueURL, GiveUpActivation, Delete, FailCommand, RunCommand,
         ChangeListenerCallback, vars, memory, outside, writers, history
<1> QED
  BY <1>2, <1>3, <1>4, <1>5, <1>6 DEF Next, Emission, Shutdown

\* The flags stay flags.
LEMMA FlagsStep == TypeOK /\ [Next]_vars => FlagsTyped'
BY DEF TypeOK, FlagsTyped, outside, writers, history, memory, vars,
   Next, Emission, Shutdown, Open, Close, Reserve, Write, Failing, FailOnMain, FailOnWorker,
      RefuseConfig, FailPreflight, Start, EnterLoop, RunCommand, FailCommand,
      ChangeListenerCallback, DeliverFatal, Terminate, Stop, Join, Exit, Launch, Crash, Delete,
      OpenContinueURL, GiveUpActivation, NoProcess, HandleFatal, Report, Done, Larger

-----------------------------------------------------------------------------
(* Steps that emit.                                                        *)

\* A log that grows by one entry.
LEMMA Appended ==
    ASSUME log \in Seq(Entries), NEW e \in Entries, log' = Append(log, e)
    PROVE  /\ Len(log) \in Nat /\ Len(log') = Len(log) + 1
           /\ Indices' = Indices \cup {Len(log) + 1} /\ Len(log) + 1 \notin Indices
           /\ \A i \in Indices : log'[i] = log[i]
           /\ log'[Len(log) + 1] = e
           /\ log' \in Seq(Entries)
BY DEF Indices

\* IDs and request numbers of the log are numbers.
LEMMA EntriesTyped ==
    ASSUME log \in Seq(Entries)
    PROVE  \A i \in Indices : log[i].id \in Nat /\ log[i].request \in Nat
<1>1. \A i \in Indices : log[i] \in Entries
  BY ElementOfSeq DEF Indices
<1> QED
  BY <1>1 DEF Entries

\* An event is written: the only step that lets the log and largest grow.
LEMMA WriteStep ==
    ASSUME IInv, NEW t \in Threads, Write(t)
    PROVE  Threading' /\ Numbering' /\ Requesting' /\ Framing'
<1> DEFINE event == Head(todo[t])
           e == [id |-> reserved[t], type |-> event, request |-> request[t]]
<1> USE DEF Threads
<1>1. /\ lock = t /\ todo[t] # <<>> /\ event \in Events
      /\ \A u \in Threads : u # t => reserved[u] = 0
  BY DEF Write, IInv, Threading, LockHeld, HasTodo
<1>2. e \in Entries /\ log \in Seq(Entries)
  BY <1>1 DEF Entries, IInv, TypeOK, ThreadsTyped
<1>3. /\ Len(log) \in Nat /\ Len(log') = Len(log) + 1
      /\ Indices' = Indices \cup {Len(log) + 1} /\ Len(log) + 1 \notin Indices
      /\ \A i \in Indices : log'[i] = log[i]
      /\ log'[Len(log) + 1] = e
      /\ log' \in Seq(Entries)
  <2> HIDE DEF event, e
  <2>1. log' = Append(log, e)
    BY DEF Write, event, e
  <2> QED
    BY <2>1, <1>2, Appended
<1>4. /\ todo' = [todo EXCEPT ![t] = Tail(todo[t])] /\ reserved' = [reserved EXCEPT ![t] = 0]
      /\ largest' = reserved[t] /\ reserved[t] > largest
      /\ deletions = 0 => reserved[t] = largest + 1
      /\ nextId' = IF event = "fatal" THEN nextId ELSE reserved[t] + 1
      /\ event # "fatal" => reserved[t] >= nextId
      /\ reserved[t] \in Nat
  BY <1>1 DEF Write, Done, Larger, IInv, TypeOK, NumbersTyped, ThreadsTyped, Numbering,
     ReservedFresh
<1>5. /\ e.type = event /\ e.id = reserved[t] /\ e.request = request[t]
      /\ event = Head(todo[t])
  OBVIOUS
<1>6. /\ t = "main" => MainSplit(todo[t], event, todo'[t])
      /\ t = "worker" => WorkerSplit(todo[t], event, todo'[t])
      /\ \A u \in Threads : u # t => todo'[u] = todo[u] /\ reserved'[u] = reserved[u]
      /\ reserved'[t] = 0
      /\ TodoShape'
  BY <1>4, <1>1, MainTable, WorkerTable DEF IInv, Threading, TodoShape, TypeOK, ThreadsTyped
<1>7. UNCHANGED <<place, started, commandsOn, activating, posted, fatalHandled, deletions,
                  nextRequestId, request, browserLock>>
  BY DEF Write
<1> HIDE DEF event, e
<1>8. \A i \in Indices : log[i].id \in Nat /\ log[i].request \in Nat
  BY <1>2, EntriesTyped
<1>9. Threading'
  <2>2. LockHeld'
    BY <1>1, <1>6 DEF LockHeld
  <2>3. BrowserHeld'
    BY <1>1, <1>6, <1>7, NotOpened
    DEF BrowserHeld, IInv, Threading, Opened, Events, MainSplit, WorkerSplit
  <2> QED
    BY <1>6, <2>2, <2>3 DEF Threading
<1>10. Numbering'
  <2>1. ReservedFresh'
    BY <1>1, <1>6 DEF ReservedFresh
  <2>2. NextIdAhead'
    <3>1. NextIdAhead /\ nextId \in Nat /\ largest \in Nat
      BY DEF IInv, TypeOK, NumbersTyped, Numbering
    <3>2. nextId <= nextId' /\ nextId' \in Nat
      BY <3>1, <1>4
    <3>3. \A i \in Indices : log'[i].type # "fatal" => log'[i].id < nextId'
      BY <3>1, <3>2, <1>3, <1>8 DEF NextIdAhead
    <3>4. e.type # "fatal" => e.id < nextId'
      BY <1>4, <1>5
    <3>5. deletions' = 0 => nextId' <= largest' + 1
      BY <3>1, <1>4, <1>7 DEF NextIdAhead
    <3> QED
      BY <3>3, <3>4, <3>5, <1>3 DEF NextIdAhead
  <2>3. IdsIncrease'
    <3>1. \A i \in Indices : i < Len(log) + 1
      BY <1>3 DEF Indices
    <3>2. event # "fatal" => \A i \in Indices : log[i].type # "fatal" => log[i].id < e.id
      BY <1>4, <1>5, <1>8 DEF NextIdAhead, Numbering, TypeOK, NumbersTyped, IInv
    <3>3. ASSUME NEW i \in Indices', NEW j \in Indices', i < j,
                 log'[i].type # "fatal", log'[j].type # "fatal"
          PROVE  log'[i].id < log'[j].id
      <4>1. i \in Indices
        BY <3>1, <3>3, <1>3 DEF Indices
      <4>2. CASE j \in Indices
        BY <3>3, <4>1, <4>2, <1>3 DEF IdsIncrease, IInv, Numbering
      <4>3. CASE j = Len(log) + 1
        BY <3>2, <3>3, <4>1, <4>3, <1>3, <1>5
      <4> QED
        BY <4>2, <4>3, <1>3
    <3> QED
      BY <3>3 DEF IdsIncrease
  <2> QED
    BY <2>1, <2>2, <2>3 DEF Numbering
<1>11. Requesting'
  <2>1. RequestsAhead'
    <3>1. RequestsAhead /\ BrowserHeld /\ TodoShape /\ nextRequestId \in Nat /\ request \in [Threads -> Nat]
      BY DEF IInv, TypeOK, NumbersTyped, ThreadsTyped, Requesting, Threading
    <3>2. event = "browser" => request[t] < nextRequestId /\ RequestedBelow(request[t])
      BY <3>1, <1>1, <1>5 DEF RequestsAhead, HasTodo
    <3>3. RequestedBelow(nextRequestId)'
      BY <3>1, <3>2, <1>3, <1>5, <1>7 DEF RequestsAhead, RequestedBelow
    <3>4. ASSUME NEW u \in Threads, HasTodo(u, {"browser"})'
          PROVE  request'[u] < nextRequestId' /\ RequestedBelow(request[u])'
      <4>1. u # t
        BY <3>4, <1>1, <1>6 DEF HasTodo, MainSplit, WorkerSplit, Events
      <4>2. todo'[u] = todo[u] /\ HasTodo(u, {"browser"})
        BY <3>4, <4>1, <1>6 DEF HasTodo
      <4>3. event # "browser"
        BY <3>1, <4>1, <4>2, <1>1, <1>5, MainTable, WorkerTable
           DEF HasTodo, BrowserHeld, Opened, TodoShape, MainSplit, WorkerSplit
      <4> QED
        BY <3>1, <4>2, <4>3, <1>3, <1>5, <1>7 DEF RequestsAhead, RequestedBelow
    <3> QED
      BY <3>3, <3>4 DEF RequestsAhead
  <2>2. BrowserInOrder'
    BY <1>1, <1>3, <1>5, <1>8
       DEF BrowserInOrder, RequestsAhead, RequestedBelow, Requesting, IInv, HasTodo, Indices
  <2> QED
    BY <2>1, <2>2 DEF Requesting
<1>12. Framing'
  <2>3. Unstarted'
    BY <1>1, <1>3, <1>5, <1>6, <1>7
       DEF Unstarted, Framing, IInv, Starting, MainSplit, Events, WorkerSplit
  <2>4. Starting'
    BY <1>1, <1>3, <1>5, <1>6, <1>7
       DEF Starting, Unstarted, Framing, IInv, Indices, MainSplit, WorkerSplit, Events
  <2>5. Ending'
    <3>1. /\ Ending
          /\ todo["worker"] # <<>> => place # "last"
      BY DEF IInv, Framing, Ending, WorkerIdle
    <3>2. t = "main" /\ place = "last" => todo'["main"] = <<>>
      <4>1. t = "main" /\ place = "last" => todo[t] \in {<<"stopped">>, <<"fatal">>}
        BY <1>1, <3>1 DEF Ending
      <4>2. Tail(<<"stopped">>) = <<>> /\ Tail(<<"fatal">>) = <<>>
        OBVIOUS
      <4>3. todo \in [Threads -> Seq(Steps)]
        BY DEF IInv, TypeOK, ThreadsTyped
      <4>4. todo'[t] = Tail(todo[t])
        BY <1>4, <4>3
      <4> QED
        BY <4>1, <4>2, <4>4
    <3>3. t = "main" => todo'["main"] # <<"stopped">>
      BY <1>1, <1>6 DEF MainSplit, Events
    <3>4. Logged("stopped")' => event = "stopped"
      BY <1>1, <1>3, <1>5, <3>1 DEF Ending, Logged, WorkerIdle
    <3>5. event = "stopped" => t = "main" /\ todo["main"] = <<"stopped">>
      BY <1>6 DEF MainSplit, WorkerSplit
    <3> QED
      BY <1>1, <1>6, <1>7, <3>1, <3>2, <3>3, <3>4, <3>5 DEF Ending, WorkerIdle
  <2>6. FatalOnce'
    BY <1>1, <1>3, <1>5, <1>6, <1>7
       DEF FatalOnce, Framing, IInv, HasTodo, Logged, MainSplit, WorkerSplit, Events
  <2>7. Framed'
    <3>1. log # <<>> => Logged(log[1].type)
      BY <1>3 DEF Logged, Indices
    <3>2. log' # <<>> => log'[1].type = "ready" \/ (Len(log') = 1 /\ log'[1].type = "fatal")
      BY <1>1, <1>3, <1>5, <1>6, <1>7, <2>3, <2>4 DEF Unstarted, Starting
    <3>3. ~Logged("stopped")
      BY <1>1, <1>6 DEF Framing, IInv, Ending, WorkerIdle
    <3>4. \A i \in Indices' : log'[i].type = "stopped" => i = Len(log')
      BY <1>3, <3>3 DEF Logged
    <3>5. event = "fatal" => ~Logged("fatal")
      BY <1>1, <1>5, <1>6 DEF FatalOnce, Framing, IInv, HasTodo, WorkerSplit
    <3>6. \A i, j \in Indices' : log'[i].type = "fatal" /\ log'[j].type = "fatal" => i = j
      BY <1>3, <1>5, <3>5 DEF Logged, Framed, Framing, IInv
    <3> QED
      BY <3>2, <3>4, <3>6 DEF Framed
  <2> QED
    BY <2>3, <2>4, <2>5, <2>6, <2>7 DEF Framing
<1> QED
  BY <1>9, <1>10, <1>11, <1>12

\* A list is replaced by one that reports no request and holds no mutex that
\* was not held before, and what was reserved under the old one is given up.
LEMMA Moves ==
    ASSUME IInv, NEW t \in Threads, NEW list,
           t = "main" => list \in MainTodos,
           t = "worker" => list \in WorkerTodos,
           list \in Opened => todo[t] \in Opened,
           list = <<>> \/ Head(list) # "browser",
           todo' = [todo EXCEPT ![t] = list],
           \/ reserved[t] = 0 /\ UNCHANGED <<reserved, lock>>
           \/ reserved[t] # 0 /\ reserved' = [reserved EXCEPT ![t] = 0] /\ lock' = "none",
           UNCHANGED <<largest, deletions, nextId, browserLock, nextRequestId, request, log>>
    PROVE  Threading' /\ Numbering' /\ Requesting'
<1>1. /\ TodoShape' /\ todo'[t] = list
      /\ \A u \in Threads : u # t => todo'[u] = todo[u]
  BY DEF IInv, Threading, TodoShape, Threads
<1>2. /\ reserved'[t] = 0
      /\ \A u \in Threads : u # t => reserved'[u] = reserved[u]
      /\ \A u \in Threads : u # t /\ reserved[u] # 0 => lock' = u
  BY DEF IInv, TypeOK, ThreadsTyped, Threading, LockHeld
<1>3. Threading'
  BY <1>1, <1>2 DEF IInv, Threading, LockHeld, BrowserHeld, HasTodo
<1>4. Numbering'
  BY <1>1, <1>2 DEF IInv, Numbering, ReservedFresh, NextIdAhead, IdsIncrease, Indices
<1>5. Requesting'
  BY <1>1 DEF IInv, Requesting, RequestsAhead, RequestedBelow, BrowserInOrder, HasTodo, Indices
<1> QED
  BY <1>3, <1>4, <1>5

LEMMA Unmoved ==
    ASSUME IInv,
           UNCHANGED <<largest, deletions, nextId, lock, browserLock, nextRequestId,
                       todo, reserved, request, log>>
    PROVE  Threading' /\ Numbering' /\ Requesting'
BY DEF IInv, Threading, TodoShape, LockHeld, BrowserHeld, HasTodo,
       Numbering, ReservedFresh, NextIdAhead, IdsIncrease, Indices,
       Requesting, RequestsAhead, RequestedBelow, BrowserInOrder

\* A process that has done nothing yet.
LEMMA Fresh ==
    ASSUME NEW where \in {"down", "load"}, NoProcess(where),
           deletions' = 0 => nextId' <= largest' + 1
    PROVE  Threading' /\ Numbering' /\ Requesting' /\ Framing'
<1>1. /\ \A t \in Threads : todo'[t] = <<>> /\ reserved'[t] = 0
      /\ log' = <<>> /\ place' = where /\ ~started' /\ ~activating' /\ ~posted' /\ ~commandsOn' /\ ~fatalHandled'
  BY DEF NoProcess
<1>2. Threading'
  BY <1>1, NotOpened DEF NoProcess, Threading, TodoShape, LockHeld, BrowserHeld, MainTodos,
     WorkerTodos, Threads
<1>3. Numbering'
  BY <1>1 DEF Numbering, ReservedFresh, NextIdAhead, IdsIncrease, Indices
<1>4. Requesting'
  BY <1>1 DEF Requesting, RequestsAhead, RequestedBelow, BrowserInOrder, HasTodo, Indices
<1>5. Framing'
  <2>1. Unstarted' /\ Framed'
    BY <1>1 DEF Unstarted, Framed, Indices, Threads
  <2>2. Starting'
    BY <1>1 DEF Starting, Threads
  <2>3. Ending' /\ FatalOnce'
    BY <1>1 DEF Ending, FatalOnce, HasTodo, Logged, Indices, Threads
  <2> QED
    BY <2>1, <2>2, <2>3 DEF Framing
<1> QED
  BY <1>2, <1>3, <1>4, <1>5

\* The EventBrowser's mutex is taken and a request numbered.
LEMMA OpenStep ==
    ASSUME IInv, NEW t \in Threads, Open(t)
    PROVE  Threading' /\ Numbering' /\ Requesting' /\ Framing'
<1>1. /\ t = "main" => MainSplit(todo[t], Head(todo[t]), todo'[t])
      /\ t = "worker" => WorkerSplit(todo[t], Head(todo[t]), todo'[t])
      /\ \A u \in Threads : u # t => todo'[u] = todo[u]
      /\ TodoShape' /\ Head(todo[t]) = "open"
  BY MainTable, WorkerTable DEF Open, Done, HasTodo, IInv, Threading, TodoShape, Threads
<1>2. reserved[t] = 0
  BY <1>1 DEF IInv, Threading, LockHeld, HasTodo, Events
<1>3. /\ browserLock = "none" /\ browserLock' = t
      /\ request' = [request EXCEPT ![t] = nextRequestId] /\ nextRequestId' = nextRequestId + 1
      /\ UNCHANGED <<outside, nextId, lock, reserved, place, started, commandsOn,
                   fatalHandled, activating, posted, log>>
  BY DEF Open, history
<1>4. Threading'
  BY <1>1, <1>2, <1>3 DEF Threading, IInv, LockHeld, BrowserHeld, HasTodo, Threads
<1>5. Numbering'
  BY <1>1, <1>2, <1>3 DEF IInv, Numbering, ReservedFresh, NextIdAhead, IdsIncrease, Indices,
     outside
<1>6. Requesting'
  <2>1. request'[t] = nextRequestId /\ \A u \in Threads : u # t => request'[u] = request[u]
    BY <1>3 DEF IInv, TypeOK, ThreadsTyped
  <2>2. nextRequestId \in Nat /\ nextRequestId' \in Nat /\ RequestsAhead /\ request \in [Threads -> Nat]
    BY <1>3 DEF IInv, TypeOK, NumbersTyped, ThreadsTyped, Requesting
  <2>3. \A i \in Indices : log[i].request \in Nat
    BY EntriesTyped DEF IInv, TypeOK
  <2>4. RequestsAhead'
    BY <1>1, <1>3, <2>1, <2>2, <2>3 DEF RequestsAhead, RequestedBelow, HasTodo, Indices
  <2>5. BrowserInOrder'
    BY <1>3 DEF BrowserInOrder, Indices, IInv, Requesting
  <2> QED
    BY <2>4, <2>5 DEF Requesting
<1>7. Framing'
  BY <1>1, <1>3 DEF IInv, Framing, Unstarted, Starting, Ending, FatalOnce, Framed, HasTodo,
     Logged, WorkerIdle, Indices,
      MainSplit, WorkerSplit, Threads
<1> QED
  BY <1>4, <1>5, <1>6, <1>7

\* The mutex is returned.
LEMMA CloseStep ==
    ASSUME IInv, NEW t \in Threads, Close(t)
    PROVE  Threading' /\ Numbering' /\ Requesting' /\ Framing'
<1>1. /\ t = "main" => MainSplit(todo[t], Head(todo[t]), todo'[t])
      /\ t = "worker" => WorkerSplit(todo[t], Head(todo[t]), todo'[t])
      /\ \A u \in Threads : u # t => todo'[u] = todo[u]
      /\ TodoShape' /\ Head(todo[t]) = "close"
  BY MainTable, WorkerTable DEF Close, Done, HasTodo, IInv, Threading, TodoShape, Threads
<1>2. reserved[t] = 0
  BY <1>1 DEF IInv, Threading, LockHeld, HasTodo, Events
<1>3. /\ request' = [request EXCEPT ![t] = 0]
      /\ UNCHANGED <<outside, nextId, lock, nextRequestId, reserved, place, started, commandsOn,
                   fatalHandled, activating, posted, log>>
  BY DEF Close, history
<1>4. browserLock = t /\ \A u \in Threads : u # t => todo[u] \notin Opened
  BY <1>1 DEF IInv, Threading, BrowserHeld, Opened, MainSplit, WorkerSplit, Threads
<1>5. Threading'
  BY <1>1, <1>2, <1>3, <1>4, NotOpened
     DEF Threading, IInv, LockHeld, BrowserHeld, HasTodo, Threads, MainSplit, WorkerSplit
<1>6. Numbering'
  BY <1>1, <1>2, <1>3 DEF IInv, Numbering, ReservedFresh, NextIdAhead, IdsIncrease, Indices,
     outside
<1>7. Requesting'
  BY <1>1, <1>3 DEF IInv, TypeOK, ThreadsTyped, Requesting, RequestsAhead, RequestedBelow,
     BrowserInOrder, HasTodo, Indices, MainSplit, WorkerSplit, Threads
<1>8. Framing'
  BY <1>1, <1>3 DEF IInv, Framing, Unstarted, Starting, Ending, FatalOnce, Framed, HasTodo,
     Logged, WorkerIdle, Indices,
      MainSplit, WorkerSplit, Threads
<1> QED
  BY <1>5, <1>6, <1>7, <1>8

\* eventWriteMutex is taken, and an ID chosen.
LEMMA ReserveStep ==
    ASSUME IInv, NEW t \in Threads, Reserve(t)
    PROVE  Threading' /\ Numbering' /\ Requesting' /\ Framing'
<1>1. /\ HasTodo(t, Events) /\ lock' = t
      /\ \A u \in Threads : reserved[u] = 0
      /\ reserved' = [reserved EXCEPT ![t] = EventId(Head(todo[t]))]
      /\ UNCHANGED <<outside, nextId, browserLock, nextRequestId, request, todo,
                   place, started, commandsOn, fatalHandled, activating, posted, log>>
  BY DEF Reserve, IInv, Threading, LockHeld, history, Threads
<1>2. /\ EventId(Head(todo[t])) > largest
      /\ deletions = 0 => EventId(Head(todo[t])) = largest + 1
      /\ Head(todo[t]) # "fatal" => EventId(Head(todo[t])) >= nextId
  <2>1. largest \in Nat /\ nextId \in Nat /\ (deletions = 0 => nextId <= largest + 1)
    BY DEF IInv, TypeOK, NumbersTyped, Numbering, NextIdAhead
  <2> QED
    BY <2>1 DEF EventId, Larger
<1>3. /\ reserved'[t] = EventId(Head(todo[t]))
      /\ \A u \in Threads : u # t => reserved'[u] = 0
  BY <1>1 DEF IInv, TypeOK, ThreadsTyped
<1>4. Threading'
  BY <1>1, <1>3 DEF IInv, Threading, TodoShape, LockHeld, BrowserHeld, HasTodo
<1>5. Numbering'
  BY <1>1, <1>2, <1>3 DEF IInv, Numbering, ReservedFresh, NextIdAhead, IdsIncrease, Indices,
     outside
<1>6. Requesting'
  BY <1>1 DEF IInv, Requesting, RequestsAhead, RequestedBelow, BrowserInOrder, HasTodo, Indices
<1>7. Framing'
  BY <1>1 DEF IInv, Framing, Unstarted, Starting, Ending, FatalOnce, Framed, HasTodo, Logged,
     WorkerIdle, Indices
<1> QED
  BY <1>4, <1>5, <1>6, <1>7

\* An event could not be written, and what follows is put before the rest.
LEMMA FailStep ==
    ASSUME IInv, FailOnMain \/ FailOnWorker
    PROVE  Threading' /\ Numbering' /\ Requesting' /\ Framing'
<1>1. CASE FailOnWorker
  <2>1. /\ reserved["worker"] # 0 /\ reserved' = [reserved EXCEPT !["worker"] = 0]
        /\ todo' = [todo EXCEPT !["worker"] = Tail(todo["worker"])]
        /\ lock' = "none" /\ posted'
        /\ UNCHANGED <<largest, deletions, nextId, browserLock, nextRequestId, request, log,
                       place, activating, started, commandsOn, fatalHandled>>
    BY <1>1 DEF FailOnWorker, Failing, Done
  <2>2. /\ todo["worker"] = <<"browser", "close">> /\ Tail(todo["worker"]) = <<"close">>
    <3>1. todo["worker"] # <<>> /\ Head(todo["worker"]) \in Events /\ todo["worker"] \in WorkerTodos
      BY <2>1 DEF IInv, Threading, TodoShape, LockHeld, HasTodo, Threads
    <3> QED
      BY <3>1, WorkerTable DEF WorkerSplit, Events
  <2>3. Threading' /\ Numbering' /\ Requesting'
    <3>1. <<"close">> \in WorkerTodos /\ <<"close">> # <<>> /\ Head(<<"close">>) # "browser"
      BY DEF WorkerTodos
    <3>2. todo["worker"] \in Opened
      BY <2>2 DEF Opened
    <3> QED
      BY <2>1, <2>2, <3>1, <3>2, Moves DEF Threads
  <2>4. todo'["worker"] = <<"close">> /\ todo'["main"] = todo["main"]
    BY <2>1, <2>2 DEF IInv, Threading, TodoShape, Threads
  <2>5. Framing'
    BY <2>1, <2>2, <2>4 DEF IInv, Framing, Unstarted, Starting, Ending, FatalOnce, Framed,
       HasTodo, Logged, WorkerIdle, Indices
  <2> QED
    BY <2>3, <2>5
<1>2. CASE FailOnMain
  <2> DEFINE event == Head(todo["main"])
             tail == Tail(todo["main"])
  <2>1. /\ reserved["main"] # 0 /\ reserved' = [reserved EXCEPT !["main"] = 0]
        /\ lock' = "none" /\ started' = (started /\ event # "ready") /\ commandsOn' = (commandsOn /\ event # "completed")
        /\ UNCHANGED <<largest, deletions, nextId, browserLock, nextRequestId, request, log,
                       place, activating, posted>>
    BY <1>2 DEF FailOnMain, Failing
  <2>2. MainSplit(todo["main"], event, tail) /\ event \in Events
    <3>1. todo["main"] # <<>> /\ Head(todo["main"]) \in Events /\ todo["main"] \in MainTodos
      BY <2>1 DEF IInv, Threading, TodoShape, LockHeld, HasTodo, Threads
    <3> QED
      BY <3>1, MainTable
  <2>3. \/ /\ event = "fatal" /\ todo' = [todo EXCEPT !["main"] = tail]
           /\ UNCHANGED fatalHandled
        \/ /\ event # "fatal" /\ fatalHandled'
           /\ \/ fatalHandled /\ todo' = [todo EXCEPT !["main"] = AfterFailureOf(event)]
              \/ ~fatalHandled /\ todo' = [todo EXCEPT !["main"] = <<"fatal">> \o AfterFailureOf(event)]
    BY <1>2 DEF FailOnMain, Report, HandleFatal, Done
  <2>4. event # "fatal" => AfterFailureOf(event) = IF event = "browser" THEN <<"close", "completed">> ELSE <<>>
    BY <2>2 DEF MainSplit, AfterFailureOf, Events
  <2>5. event = "fatal" => tail = <<>> \/ (tail = <<"close", "completed">> /\ todo["main"] = <<"fatal", "close", "completed">>)
    BY <2>2 DEF MainSplit
  <2>6. PICK list \in {<<>>, <<"fatal">>, <<"close", "completed">>,
                        <<"fatal", "close", "completed">>} :
          /\ todo' = [todo EXCEPT !["main"] = list]
          /\ list \in Opened => todo["main"] \in Opened
          /\ list # <<>> /\ Head(list) = "fatal" => ~fatalHandled /\ event # "fatal"
          /\ list = <<>> \/ list = <<"fatal">> \/ started'
          /\ event = "ready" => list = <<"fatal">>
    <3>0. event = "ready" => ~fatalHandled /\ todo["main"] = <<"ready">>
      BY <2>2 DEF IInv, Framing, Starting, MainSplit
    <3>00. /\ todo["main"] \in {<<"browser", "close", "completed">>, <<"fatal", "close", "completed">>}
              => started /\ event # "ready" /\ todo["main"] \in Opened
      <4> SUFFICES ASSUME todo["main"] \in {<<"browser", "close", "completed">>,
                                            <<"fatal", "close", "completed">>}
                   PROVE  started /\ event # "ready" /\ todo["main"] \in Opened
        OBVIOUS
      <4>1. todo["main"] \in Opened
        BY DEF Opened
      <4>2. event # "ready"
        OBVIOUS
      <4>3. todo["main"] \notin {<<>>, <<"fatal">>}
        OBVIOUS
      <4>4. started
        BY <4>3 DEF IInv, Framing, Unstarted
      <4> QED
        BY <4>1, <4>2, <4>4
    <3>1. CASE event = "fatal"
      <4>1. todo' = [todo EXCEPT !["main"] = tail]
        BY <2>3, <3>1
      <4>2. CASE tail = <<>>
        BY <4>1, <4>2, <3>1, NotOpened
      <4>3. CASE tail = <<"close", "completed">> /\ todo["main"] = <<"fatal", "close", "completed">>
        <5>1. started' /\ todo["main"] \in Opened
          BY <4>3, <3>00, <2>1
        <5> HIDE DEF event, tail
        <5> QED
          BY <4>1, <4>3, <3>1, <5>1
      <4> QED
        BY <2>5, <3>1, <4>2, <4>3
    <3>2. CASE event # "fatal" /\ event # "browser"
      <4>1. AfterFailureOf(event) = <<>>
        BY <2>4, <3>2
      <4> HIDE DEF event
      <4> QED
        BY <2>3, <3>0, <3>2, <4>1, FatalBefore, NotOpened
    <3>3. CASE event = "browser"
      <4>1. AfterFailureOf(event) = <<"close", "completed">> /\ todo["main"] = <<"browser", "close", "completed">>
        BY <2>2, <2>4, <3>3 DEF MainSplit
      <4>2. todo["main"] \in Opened /\ started'
        BY <2>1, <3>00, <4>1
      <4>3. CASE fatalHandled
        BY <2>3, <3>3, <4>1, <4>2, <4>3
      <4>4. CASE ~fatalHandled
        BY <2>3, <3>3, <4>1, <4>2, <4>4, FatalBefore
      <4> QED
        BY <4>3, <4>4
    <3> QED
      BY <3>1, <3>2, <3>3
  <2>7. Threading' /\ Numbering' /\ Requesting'
    <3>1. list \in MainTodos /\ (list = <<>> \/ Head(list) # "browser")
      BY DEF MainTodos
    <3> QED
      BY <2>1, <2>6, <3>1, Moves DEF Threads
  <2>8. todo'["main"] = list /\ todo'["worker"] = todo["worker"]
    BY <2>6 DEF IInv, Threading, TodoShape, Threads
  <2>9. /\ event = "fatal" => UNCHANGED fatalHandled
        /\ event # "fatal" => fatalHandled'
        /\ fatalHandled => fatalHandled'
    BY <2>3
  <2>10. Framing'
    <3> HIDE DEF event, tail
    <3>1. Unstarted /\ Starting /\ todo["main"] # <<>>
      BY <2>2 DEF IInv, Framing, MainSplit
    <3>2. /\ event = "ready" => todo["main"] = <<"ready">>
          /\ todo["main"] = <<"ready">> => event = "ready"
      BY <2>2 DEF MainSplit
    <3>3. Unstarted'
      <4>1. CASE started
        BY <2>1, <2>6, <2>8, <3>1, <3>2, <4>1 DEF Unstarted, Starting
      <4>2. CASE ~started
        BY <2>1, <2>6, <2>8, <3>1, <4>2 DEF Unstarted
      <4> QED
        BY <4>1, <4>2
    <3>4. Starting'
      <4>1. list # <<"ready">>
        OBVIOUS
      <4>2. started' => started /\ todo["main"] # <<"ready">>
        BY <2>1, <3>2
      <4>3. place \notin {"down", "load"}
        BY <3>1 DEF Starting
      <4>4. place = "start" /\ started' => list = <<>>
        BY <3>1, <3>2, <4>2 DEF Starting
      <4> QED
        BY <2>1, <2>8, <3>1, <4>1, <4>2, <4>3, <4>4 DEF Starting
    <3>5. Ending'
      <4>1. list \in {<<>>, <<"fatal">>} \/ todo["main"] \in Opened
        BY <2>6 DEF Opened
      <4>2. Ending /\ place # "joining" /\ ~Logged("stopped")
        BY <3>1 DEF IInv, Framing, Ending
      <4>3. place = "last" => todo["main"] \notin Opened
        BY <4>2, NotOpened DEF Ending
      <4>4. list # <<"stopped">>
        OBVIOUS
      <4>5. ~Logged("stopped")'
        BY <2>1, <4>2 DEF Logged, Indices
      <4> QED
        BY <2>1, <2>8, <4>1, <4>2, <4>3, <4>4, <4>5 DEF Ending, WorkerIdle
    <3>6. FatalOnce'
      BY <2>1, <2>2, <2>6, <2>8, <2>9
         DEF FatalOnce, IInv, Framing, MainSplit, HasTodo, Logged, Indices
    <3>7. Framed'
      BY <2>1 DEF IInv, Framing, Framed, Indices
    <3> QED
      BY <3>3, <3>4, <3>5, <3>6, <3>7 DEF Framing
  <2> QED
    BY <2>7, <2>10
<1> QED
  BY <1>1, <1>2

-----------------------------------------------------------------------------
(* Steps that begin or end something.                                      *)

\* The message thread, which had nothing to do, gets a new list.
LEMMA QuietStep ==
    ASSUME IInv, NEW list \in MainTodos, todo["main"] = <<>>, todo' = [todo EXCEPT !["main"] = list],
           list \notin Opened, list = <<>> \/ Head(list) # "browser",
           UNCHANGED <<largest, deletions, nextId, lock, browserLock, nextRequestId, reserved, request, log>>
    PROVE  Threading' /\ Numbering' /\ Requesting' /\ todo'["main"] = list /\ todo'["worker"] = todo["worker"]
<1>1. reserved["main"] = 0
  BY DEF IInv, Threading, LockHeld, HasTodo, Threads
<1> QED
  BY <1>1, Moves DEF Threads, IInv, Threading, TodoShape

\* initialise() and start().
LEMMA LoadStep ==
    ASSUME IInv, RefuseConfig \/ FailPreflight \/ Start
    PROVE  Threading' /\ Numbering' /\ Requesting' /\ Framing'
<1>1. /\ place = "load" /\ log = <<>> /\ todo["main"] = <<>> /\ todo["worker"] = <<>>
      /\ ~started /\ ~activating /\ ~posted /\ ~commandsOn /\ ~fatalHandled
  BY DEF RefuseConfig, FailPreflight, Start, IInv, Framing, Starting, Unstarted
<1>2. UNCHANGED <<largest, deletions, nextId, lock, browserLock, nextRequestId, reserved,
                  request, log, activating, posted, commandsOn>>
  BY DEF RefuseConfig, FailPreflight, Start, outside, writers, history
<1>3. PICK list \in {<<>>, <<"fatal">>, <<"ready">>} :
         /\ todo' = [todo EXCEPT !["main"] = list]
         /\ list = <<"ready">> => place' = "start" /\ started' /\ ~fatalHandled'
         /\ list # <<"ready">> => place' \in {"loop", "refused"} /\ ~started' /\ fatalHandled'
  BY <1>1, FatalBefore DEF RefuseConfig, FailPreflight, HandleFatal, Start
<1>4. list \in MainTodos /\ list \notin Opened /\ (list = <<>> \/ Head(list) # "browser")
  BY NotOpened DEF MainTodos
<1>5. /\ Threading' /\ Numbering' /\ Requesting'
      /\ todo'["main"] = list /\ todo'["worker"] = <<>>
  BY <1>1, <1>2, <1>3, <1>4, QuietStep
<1>6. Framing'
  <2>1. Unstarted' /\ Framed'
    BY <1>1, <1>2, <1>3, <1>5 DEF Unstarted, Framed, Indices
  <2>2. Starting'
    BY <1>1, <1>2, <1>3, <1>5 DEF Starting
  <2>3. Ending' /\ FatalOnce'
    BY <1>1, <1>2, <1>3, <1>5 DEF Ending, FatalOnce, HasTodo, Logged, Indices
  <2> QED
    BY <2>1, <2>2, <2>3 DEF Framing
<1> QED
  BY <1>5, <1>6

\* A started process in its message loop, with nothing to do, runs a command or
\* a callback.
LEMMA LoopStep ==
    ASSUME IInv,
           RunCommand \/ FailCommand \/ ChangeListenerCallback \/ DeliverFatal
    PROVE  Threading' /\ Numbering' /\ Requesting' /\ Framing'
<1>1. /\ place = "loop" /\ todo["main"] = <<>> /\ started
      /\ log # <<>> /\ log[1].type = "ready" /\ ~Logged("stopped")
  BY DEF RunCommand, FailCommand, ChangeListenerCallback, DeliverFatal, Idle,
         IInv, Framing, Starting, Unstarted, Ending
<1>2. UNCHANGED <<largest, deletions, nextId, lock, browserLock, nextRequestId, reserved,
                  request, log, place, started>>
  BY DEF RunCommand, FailCommand, ChangeListenerCallback, DeliverFatal, outside, writers, history
<1>3. PICK list \in {<<>>, <<"fatal">>, <<"completed">>, <<"changed">>, <<"changed", "error">>,
                     <<"open", "browser", "close", "completed">>} :
         /\ todo' = [todo EXCEPT !["main"] = list]
         /\ list = <<"fatal">> => ~fatalHandled /\ fatalHandled'
         /\ fatalHandled => fatalHandled'
  <2>1. CASE FailCommand \/ DeliverFatal
    BY <2>1, FatalBefore DEF FailCommand, DeliverFatal, HandleFatal
  <2>2. CASE RunCommand
    BY <2>2 DEF RunCommand, Caused
  <2>3. CASE ChangeListenerCallback
    BY <2>3 DEF ChangeListenerCallback
  <2> QED
    BY <2>1, <2>2, <2>3
<1>4. list \in MainTodos /\ list \notin Opened /\ (list = <<>> \/ Head(list) # "browser")
  BY NotOpened DEF MainTodos
<1>5. /\ Threading' /\ Numbering' /\ Requesting'
      /\ todo'["main"] = list /\ todo'["worker"] = todo["worker"]
  BY <1>1, <1>2, <1>3, <1>4, QuietStep
<1>6. Framing'
  <2>1. Unstarted' /\ Framed'
    BY <1>1, <1>2 DEF Unstarted, Framed, Indices, IInv, Framing
  <2>2. Starting'
    <3>1. list # <<"ready">>
      OBVIOUS
    <3>2. todo'["main"] # <<"ready">> /\ place' = "loop"
      BY <1>1, <1>2, <1>5, <3>1
    <3>3. log' # <<>> /\ log'[1].type = "ready"
      BY <1>1, <1>2
    <3> QED
      BY <3>2, <3>3 DEF Starting
  <2>3. Ending'
    BY <1>1, <1>2, <1>5 DEF Ending, Logged, Indices
  <2>4. FatalOnce'
    <3>1. HasTodo("main", {"fatal"})' => list = <<"fatal">>
      BY <1>5 DEF HasTodo
    <3> QED
      BY <1>2, <1>3, <3>1 DEF FatalOnce, IInv, Framing, Logged, Indices
  <2> QED
    BY <2>1, <2>2, <2>3, <2>4 DEF Framing
<1> QED
  BY <1>5, <1>6

\* The process goes into its message loop, with or without "ready".
LEMMA EnterLoopStep ==
    ASSUME IInv, EnterLoop
    PROVE  Threading' /\ Numbering' /\ Requesting' /\ Framing'
<1>1. /\ place = "start" /\ place' = "loop" /\ todo["main"] = <<>> /\ commandsOn' = started
      /\ UNCHANGED <<largest, deletions, nextId, lock, browserLock, nextRequestId, todo,
                     reserved, request, log, started, fatalHandled, activating, posted>>
  BY DEF EnterLoop, Idle, outside, writers, history
<1>2. Threading' /\ Numbering' /\ Requesting'
  BY <1>1, Unmoved
<1>3. Framing'
  <2>1. Unstarted' /\ Framed'
    BY <1>1 DEF Unstarted, Framed, Indices, IInv, Framing
  <2>2. Starting'
    <3>1. todo'["main"] # <<"ready">> /\ place' = "loop"
      BY <1>1
    <3>2. started => log # <<>> /\ log[1].type = "ready"
      BY <1>1 DEF IInv, Framing, Starting
    <3>3. started' => log' # <<>> /\ log'[1].type = "ready"
      BY <1>1, <3>2
    <3> QED
      BY <3>1, <3>3 DEF Starting
  <2>3. Ending' /\ FatalOnce'
    BY <1>1 DEF Ending, FatalOnce, HasTodo, Logged, Indices, IInv, Framing
  <2> QED
    BY <2>1, <2>2, <2>3 DEF Framing
<1> QED
  BY <1>2, <1>3

\* quit() and the two halves of stop().
LEMMA EndStep ==
    ASSUME IInv, Terminate \/ Stop \/ Join
    PROVE  Threading' /\ Numbering' /\ Requesting' /\ Framing'
<1>1. /\ place \in {"loop", "joining"} /\ todo["main"] = <<>> /\ ~Logged("stopped")
      /\ commandsOn' => commandsOn
      /\ UNCHANGED <<largest, deletions, nextId, lock, browserLock, nextRequestId,
                     reserved, request, log, started, fatalHandled, activating, posted>>
  BY DEF Terminate, Stop, Join, Idle, outside, writers, history, IInv, Framing, Ending
<1>2. PICK list \in {<<>>, <<"stopped">>} :
         /\ todo' = [todo EXCEPT !["main"] = list]
         /\ list = <<"stopped">> => started
         /\ \/ place' \in {"loop", "joining"} /\ list = <<>>
            \/ place' = "last" /\ WorkerIdle
  <2>1. CASE Join
    BY <2>1 DEF Join
  <2>2. CASE Terminate \/ Stop
    <3>1. todo' = [todo EXCEPT !["main"] = <<>>]
      BY <1>1, <2>2 DEF Terminate, Stop, IInv, Threading, TodoShape
    <3> QED
      BY <1>1, <2>2, <3>1 DEF Terminate, Stop
  <2> QED
    BY <2>1, <2>2
<1>3. list \in MainTodos /\ list \notin Opened /\ (list = <<>> \/ Head(list) # "browser")
  BY NotOpened DEF MainTodos
<1>4. /\ Threading' /\ Numbering' /\ Requesting'
      /\ todo'["main"] = list /\ todo'["worker"] = todo["worker"]
  BY <1>1, <1>2, <1>3, QuietStep
<1>5. Framing'
  <2>1. Unstarted' /\ Framed'
    BY <1>1, <1>2, <1>4 DEF Unstarted, Framed, Indices, IInv, Framing
  <2>2. Starting'
    BY <1>1, <1>2, <1>4 DEF Starting, IInv, Framing
  <2>3. Ending'
    BY <1>1, <1>2, <1>4 DEF Ending, Logged, Indices, WorkerIdle
  <2>4. FatalOnce'
    BY <1>1, <1>2, <1>4 DEF FatalOnce, HasTodo, Logged, Indices, IInv, Framing
  <2> QED
    BY <2>1, <2>2, <2>3, <2>4 DEF Framing
<1> QED
  BY <1>4, <1>5

\* The worker opens the browser, or has no reason to.
LEMMA WorkerStep ==
    ASSUME IInv, OpenContinueURL \/ GiveUpActivation
    PROVE  Threading' /\ Numbering' /\ Requesting' /\ Framing'
<1>1. /\ activating /\ todo["worker"] = <<>> /\ ~activating'
      /\ UNCHANGED <<largest, deletions, nextId, lock, browserLock, nextRequestId, reserved,
                     request, log, place, started, commandsOn, fatalHandled, posted>>
  BY DEF OpenContinueURL, GiveUpActivation, outside, writers, history
<1>2. PICK list \in {<<>>, <<"open", "browser", "close">>} :
         todo' = [todo EXCEPT !["worker"] = list]
  <2>1. CASE OpenContinueURL
    BY <2>1 DEF OpenContinueURL
  <2>2. CASE GiveUpActivation
    <3>1. todo' = [todo EXCEPT !["worker"] = <<>>]
      BY <1>1, <2>2 DEF GiveUpActivation, IInv, Threading, TodoShape
    <3> QED
      BY <3>1
  <2> QED
    BY <2>1, <2>2
<1>3. reserved["worker"] = 0
  BY <1>1 DEF IInv, Threading, LockHeld, HasTodo, Threads
<1>4. Threading' /\ Numbering' /\ Requesting'
  <2>1. list \in WorkerTodos /\ list \notin Opened /\ (list = <<>> \/ Head(list) # "browser")
    BY NotOpened DEF WorkerTodos
  <2> QED
    BY <1>1, <1>2, <1>3, <2>1, Moves DEF Threads
<1>5. todo'["worker"] = list /\ todo'["main"] = todo["main"]
  BY <1>2 DEF IInv, Threading, TodoShape, Threads
<1>6. Framing'
  <2>1. Unstarted' /\ Framed'
    BY <1>1, <1>5 DEF Unstarted, Framed, Indices, IInv, Framing
  <2>2. Starting'
    BY <1>1, <1>5 DEF Starting, IInv, Framing
  <2>3. Ending' /\ FatalOnce'
    BY <1>1, <1>5 DEF Ending, FatalOnce, HasTodo, Logged, Indices, WorkerIdle, IInv, Framing
  <2> QED
    BY <2>1, <2>2, <2>3 DEF Framing
<1> QED
  BY <1>4, <1>6

\* The reader's deletions leave everything alone but what the IDs are measured
\* by, and after one of them an ID may skip some.
LEMMA DeleteStep ==
    ASSUME IInv, Delete
    PROVE  Threading' /\ Numbering' /\ Requesting' /\ Framing'
<1>1. /\ deletions' # 0 /\ largest' < largest
      /\ UNCHANGED <<nextId, lock, browserLock, nextRequestId, reserved, request, todo, place,
                     started, commandsOn, fatalHandled, activating, posted, log>>
  BY DEF Delete, memory, IInv, TypeOK, NumbersTyped
<1>2. Threading' /\ Requesting'
  BY <1>1 DEF IInv, Threading, TodoShape, LockHeld, BrowserHeld, HasTodo,
              Requesting, RequestsAhead, RequestedBelow, BrowserInOrder, Indices
<1>3. Numbering'
  <2>1. /\ largest \in Nat /\ largest' \in Nat
        /\ \A t \in Threads : reserved[t] \in Nat
    BY DEF Delete, IInv, TypeOK, NumbersTyped, ThreadsTyped
  <2> QED
    BY <1>1, <2>1 DEF IInv, Numbering, ReservedFresh, NextIdAhead, IdsIncrease, Indices
<1>4. Framing'
  BY <1>1 DEF IInv, Framing, Unstarted, Starting, Ending, FatalOnce, Framed, HasTodo, Logged,
              WorkerIdle, Indices
<1> QED
  BY <1>2, <1>3, <1>4

-----------------------------------------------------------------------------
(* The invariant.                                                          *)

LEMMA InitInv == Init => IInv
<1> SUFFICES ASSUME Init PROVE IInv
  OBVIOUS
<1>1. TypeOK
  <2>1. NumbersTyped
    BY BoundsAssumption DEF Init, NumbersTyped
  <2>2. ThreadsTyped
    BY DEF Init, ThreadsTyped, Threads, Places
  <2>3. FlagsTyped
    BY DEF Init, FlagsTyped
  <2>4. log \in Seq(Entries)
    BY DEF Init
  <2> QED
    BY <2>1, <2>2, <2>3, <2>4 DEF TypeOK
<1>2. /\ \A t \in Threads : todo[t] = <<>> /\ reserved[t] = 0
      /\ todo["main"] = <<>> /\ todo["worker"] = <<>>
      /\ log = <<>> /\ Indices = {}
  BY DEF Init, Threads, Indices
<1>3. Threading
  BY <1>2, NotOpened DEF Init, Threading, TodoShape, LockHeld, BrowserHeld, MainTodos,
     WorkerTodos, Threads
<1>4. Numbering
  BY <1>2 DEF Init, Numbering, ReservedFresh, NextIdAhead, IdsIncrease
<1>5. Requesting
  BY <1>2 DEF Requesting, RequestsAhead, RequestedBelow, BrowserInOrder, HasTodo
<1>6. Framing
  <2>1. Unstarted /\ Framed
    BY <1>2 DEF Init, Unstarted, Framed
  <2>2. Starting
    BY <1>2 DEF Init, Starting
  <2>3. Ending
    BY <1>2 DEF Init, Ending, Logged
  <2>4. FatalOnce
    BY <1>2 DEF FatalOnce, HasTodo, Logged
  <2> QED
    BY <2>1, <2>2, <2>3, <2>4 DEF Framing
<1> QED
  BY <1>1, <1>3, <1>4, <1>5, <1>6 DEF IInv

\* Only Write touches the log of a process that goes on.
LEMMA LogStep ==
    ASSUME [Next]_vars
    PROVE  \/ UNCHANGED log
           \/ log' = <<>>
           \/ \E t \in Threads : Write(t)
BY DEF outside, writers, history, memory, vars,
   Next, Emission, Shutdown, Open, Close, Reserve, Failing, FailOnMain, FailOnWorker,
   RefuseConfig, FailPreflight, Start, EnterLoop, RunCommand, FailCommand,
   ChangeListenerCallback, DeliverFatal, Terminate, Stop, Join, Exit, Launch, Crash, Delete,
   OpenContinueURL, GiveUpActivation, NoProcess

\* What Write appends.
LEMMA WrittenEntry ==
    ASSUME IInv, NEW t \in Threads, Write(t)
    PROVE  /\ log' = Append(log, [id |-> reserved[t], type |-> Head(todo[t]),
                                  request |-> request[t]])
           /\ [id |-> reserved[t], type |-> Head(todo[t]), request |-> request[t]] \in Entries
<1>1. Head(todo[t]) \in Events
  BY DEF Write, IInv, Threading, LockHeld, HasTodo
<1> QED
  BY <1>1 DEF Write, IInv, TypeOK, ThreadsTyped, Entries

LEMMA InvStep == IInv /\ [Next]_vars => IInv'
<1> SUFFICES ASSUME IInv, [Next]_vars PROVE IInv'
  OBVIOUS
<1>1. Threading' /\ Numbering' /\ Requesting' /\ Framing'
  <2>1. ASSUME NEW t \in Threads, Emission(t)
        PROVE  Threading' /\ Numbering' /\ Requesting' /\ Framing'
    BY <2>1, OpenStep, CloseStep, ReserveStep, WriteStep DEF Emission
  <2>2. CASE FailOnMain \/ FailOnWorker
    BY <2>2, FailStep
  <2>3. CASE RefuseConfig \/ FailPreflight \/ Start
    BY <2>3, LoadStep
  <2>4. CASE RunCommand \/ FailCommand \/ ChangeListenerCallback \/ DeliverFatal
    BY <2>4, LoopStep
  <2>5. CASE EnterLoop
    BY <2>5, EnterLoopStep
  <2>6. CASE Terminate \/ Stop \/ Join
    BY <2>6, EndStep
  <2>7. CASE OpenContinueURL \/ GiveUpActivation
    BY <2>7, WorkerStep
  <2>8. CASE Delete
    BY <2>8, DeleteStep
  <2>9. CASE Launch
    <3>1. NoProcess("load") /\ nextId' <= largest' + 1
      BY <2>9 DEF Launch, IInv, TypeOK, NumbersTyped
    <3> QED
      BY <3>1, Fresh
  <2>10. CASE Crash \/ Exit
    <3>1. NoProcess("down") /\ nextId' <= largest' + 1
      BY <2>10 DEF Crash, Exit, IInv, TypeOK, NumbersTyped
    <3> QED
      BY <3>1, Fresh
  <2>11. CASE UNCHANGED vars
    <3>1. Threading' /\ Numbering' /\ Requesting'
      BY <2>11, Unmoved DEF vars, memory
    <3>2. Framing'
      BY <2>11 DEF vars, memory, IInv, Framing, Unstarted, Starting, Ending, FatalOnce, Framed,
                   HasTodo, Logged, WorkerIdle, Indices
    <3> QED
      BY <3>1, <3>2
  <2> QED
    BY <2>1, <2>2, <2>3, <2>4, <2>5, <2>6, <2>7, <2>8, <2>9, <2>10, <2>11 DEF Next, Shutdown
<1>2. TypeOK'
  <2>1. NumbersTyped' /\ FlagsTyped'
    BY NumbersStep, FlagsStep DEF IInv
  <2>2. ThreadsTyped'
    BY <1>1, ThreadsStep DEF IInv, Threading
  <2>3. log' \in Seq(Entries)
    <3>1. log \in Seq(Entries)
      BY DEF IInv, TypeOK
    <3>2. ASSUME NEW t \in Threads, Write(t) PROVE log' \in Seq(Entries)
      BY <3>1, <3>2, WrittenEntry, Appended
    <3>3. UNCHANGED log \/ log' = <<>> \/ \E t \in Threads : Write(t)
      BY LogStep
    <3>4. <<>> \in Seq(Entries)
      OBVIOUS
    <3> QED
      BY <3>1, <3>2, <3>3, <3>4
  <2> QED
    BY <2>1, <2>2, <2>3 DEF TypeOK
<1> QED
  BY <1>1, <1>2 DEF IInv

LEMMA Invariant == Spec => []IInv
BY InitInv, InvStep, PTL DEF Spec

-----------------------------------------------------------------------------
\* Numbers, mutexes, lists and the log of both threads keep their types
\* (Emulator, EventWriter).
THEOREM TypeCorrect == Spec => []TypeOK
<1>1. IInv => TypeOK
  BY DEF IInv
<1> QED
  BY <1>1, Invariant, PTL

\* Whichever thread emits and whatever the reader deletes or a write loses, a
\* process numbers its events upwards, the fatal one aside (EventWriter::emit()).
THEOREM IdsGrow == Spec => []IdsIncrease
<1>1. IInv => IdsIncrease
  BY DEF IInv, Numbering
<1> QED
  BY <1>1, Invariant, PTL

\* Events begin with "ready" or a fatal error alone, nothing follows "stopped",
\* and one fatal error is reported, whatever fails and whenever the process is
\* told to quit (Emulator::start(), handleFatal(), stop()).
THEOREM EventsFramed == Spec => []Framed
<1>1. IInv => Framed
  BY DEF IInv, Framing
<1> QED
  BY <1>1, Invariant, PTL

\* Requests of commands and of the worker are reported in the order in which
\* they were numbered (EventBrowser::openURL()).
THEOREM BrowserOrdered == Spec => []BrowserInOrder
<1>1. IInv => BrowserInOrder
  BY DEF IInv, Requesting
<1> QED
  BY <1>1, Invariant, PTL

\* No event of any process replaces a file that is there, and without deletions
\* the numbers have no gap (EventWriter::emit()).
THEOREM NothingReplaced == Spec => Appends
<1> DEFINE Fits == Wrote => /\ Written.id > largest
                            /\ deletions = 0 => Written.id = largest + 1
<1>1. IInv /\ [Next]_vars => [Fits]_vars
  <2> SUFFICES ASSUME IInv, [Next]_vars, Wrote
               PROVE  /\ Written.id > largest
                      /\ deletions = 0 => Written.id = largest + 1
    OBVIOUS
  <2>1. PICK t \in Threads : Write(t)
    <3>1. log \in Seq(Entries) /\ Len(log) \in Nat
      BY DEF IInv, TypeOK
    <3>2. log' # log
      BY <3>1 DEF Wrote
    <3>3. log' # <<>>
      <4>1. Len(log') # 0
        BY <3>1 DEF Wrote
      <4>2. Len(<<>>) = 0
        OBVIOUS
      <4> QED
        BY <4>1, <4>2
    <3>4. UNCHANGED log \/ log' = <<>> \/ \E t \in Threads : Write(t)
      BY LogStep
    <3> QED
      BY <3>2, <3>3, <3>4
  <2>2. Written.id = reserved[t]
    <3> DEFINE e == [id |-> reserved[t], type |-> Head(todo[t]), request |-> request[t]]
    <3>1. log' = Append(log, e) /\ e \in Entries /\ e.id = reserved[t]
      BY <2>1, WrittenEntry
    <3> HIDE DEF e
    <3>2. Len(log') = Len(log) + 1 /\ log'[Len(log) + 1] = e
      BY <3>1, Appended DEF IInv, TypeOK
    <3> QED
      BY <3>1, <3>2 DEF Written
  <2> QED
    BY <2>1, <2>2 DEF Write, IInv, Numbering, ReservedFresh
<1> QED
  BY <1>1, Invariant, PTL DEF Spec, Appends
=============================================================================
