----------------------- MODULE CommandProcessorProofs -----------------------
(***************************************************************************)
(* Proofs about CommandProcessor, for any number of commands, set of IDs   *)
(* and number of interruptions.                                            *)
(***************************************************************************)
EXTENDS CommandProcessor, TLAPS

\* What is stored about command s, and whether it is about s at all.
State(s) == states[commands[s].id]
IsStored(s) == commands[s] # NoCommand /\ State(s).sequence = s

Untouched(s) == invocations[s] = 0 /\ answer[s] = NoAnswer /\ emissions[s] = 0

Honest(outcome, s) ==
    /\ outcome \in Outcomes
    /\ outcome \in {"completed", "failed"} => invocations[s] = 1
    /\ outcome = "rejected" => invocations[s] = 0

\* A state file is that of a command the processor has reached.
StatesHaveOwners ==
    \A id \in CommandIds : states[id] # NoState =>
        /\ commands[states[id].sequence].id = id
        /\ states[id].sequence <= cursor

Unstored == \A s \in Numbers : ~IsStored(s) => Untouched(s)

Passed ==
    \A s \in Numbers : s < cursor =>
        IsStored(s) /\ State(s).phase = "completed" /\ State(s).completionEmitted

Processing ==
    \A s \in Numbers : IsStored(s) /\ State(s).phase = "processing" =>
        /\ invocations[s] \in 0..1
        /\ answer[s] = NoAnswer
        /\ ~State(s).completionEmitted

Completed ==
    \A s \in Numbers : IsStored(s) /\ State(s).phase = "completed" =>
        /\ Honest(State(s).outcome, s)
        /\ invocations[s] \in 0..1
        /\ answer[s] \in {NoAnswer, State(s).outcome}
        /\ State(s).completionEmitted => answer[s] # NoAnswer

\* What the process knows of the command at hand.
AtHand ==
    /\ pc # "down" => nextSequence = cursor
    /\ pc \notin {"down", "polling", "waiting"} =>
         cursor \in Numbers /\ commands[cursor] # NoCommand
    /\ pc = "mark" => State(cursor) = NoState
    /\ pc \in {"invoke", "complete", "emit", "seal", "advance"} => IsStored(cursor)
    /\ pc = "invoke" => State(cursor).phase = "processing" /\ invocations[cursor] = 0
    /\ pc = "complete" =>
         /\ Honest(result, cursor)
         /\ ~State(cursor).completionEmitted
         /\ State(cursor).phase = "completed" => result = State(cursor).outcome
    /\ pc = "emit" =>
         /\ State(cursor).phase = "completed"
         /\ ~State(cursor).completionEmitted
         /\ State(cursor).outcome = result
    /\ pc \in {"seal", "advance"} =>
         State(cursor).phase = "completed" /\ answer[cursor] # NoAnswer
    /\ pc = "advance" => State(cursor).completionEmitted

CompletionsAreBacked ==
    \A id \in completions :
        states[id] # NoState /\ answer[states[id].sequence] # NoAnswer

Counted ==
    \A s \in Numbers :
        /\ answer[s] = NoAnswer => emissions[s] = 0
        /\ commands[s].id \in Kept /\ answer[s] # NoAnswer =>
             emissions[s] = 1 /\ commands[s].id \in completions

\* The part of the invariant that is about files and history only.
DurableInv ==
    /\ StatesHaveOwners
    /\ Unstored
    /\ Passed
    /\ Processing
    /\ Completed
    /\ CompletionsAreBacked
    /\ Counted

IInv == TypeOK /\ DurableInv /\ AtHand

USE LastAssumption, InterruptionsAssumption, KeptAssumption, IdsAssumption

-----------------------------------------------------------------------------
(* The initial state, and the steps that write no file.                    *)

LEMMA InitInv == Init => IInv
<1> SUFFICES ASSUME Init PROVE IInv
  OBVIOUS
<1>1. TypeOK
  BY DEF Init, TypeOK, Numbers, Commands, StoredCommands, NoState, Places,
         Outcomes, NoAnswer, Service!Outcomes, Service!NoAnswer
<1>2. DurableInv
  BY DEF Init, DurableInv, StatesHaveOwners, Unstored, Untouched, Passed,
         Processing, Completed, CompletionsAreBacked, Counted, IsStored, State,
         NoCommand, NoState, Numbers
<1>3. AtHand
  BY DEF Init, AtHand
<1> QED
  BY <1>1, <1>2, <1>3 DEF IInv

\* What a process does in memory alone leaves the durable part as it is.
LEMMA DurableFrame ==
    ASSUME DurableInv, UNCHANGED <<durable, history>>
    PROVE  DurableInv'
BY DEF DurableInv, StatesHaveOwners, Unstored, Untouched, Passed, Processing,
       Completed, CompletionsAreBacked, Counted, IsStored, State, Honest,
       durable, history

LEMMA StartInv == IInv /\ Start => IInv'
<1> SUFFICES ASSUME IInv, Start PROVE IInv'
  OBVIOUS
<1>1. TypeOK'
  BY DEF IInv, TypeOK, Start, Places, history
<1>2. DurableInv'
  BY DurableFrame DEF IInv, Start, durable
<1>3. AtHand'
  BY DEF AtHand, Start
<1> QED
  BY <1>1, <1>2, <1>3 DEF IInv

LEMMA EndInv == IInv /\ (Stop \/ Interrupt) => IInv'
<1> SUFFICES ASSUME IInv, Stop \/ Interrupt PROVE IInv'
  OBVIOUS
<1>1. TypeOK'
  BY DEF IInv, TypeOK, Stop, Interrupt, Places, history, NoAnswer
<1>2. DurableInv'
  BY DurableFrame DEF IInv, Stop, Interrupt, durable
<1>3. AtHand'
  BY DEF AtHand, Stop, Interrupt
<1> QED
  BY <1>1, <1>2, <1>3 DEF IInv

LEMMA WaitInv == IInv /\ (TimerCallback \/ NothingPending) => IInv'
<1> SUFFICES ASSUME IInv, TimerCallback \/ NothingPending PROVE IInv'
  OBVIOUS
<1>1. TypeOK'
  BY DEF IInv, TypeOK, TimerCallback, NothingPending, Places, history, durable
<1>2. DurableInv'
  BY DurableFrame DEF IInv, TimerCallback, NothingPending, durable
<1>3. AtHand'
  BY DEF IInv, AtHand, TimerCallback, NothingPending, durable, history
<1> QED
  BY <1>1, <1>2, <1>3 DEF IInv

\* processSequence() learns from the state file alone where to go on.
LEMMA PollInv == IInv /\ Poll => IInv'
<1> SUFFICES ASSUME IInv, Poll PROVE IInv'
  OBVIOUS
<1>1. /\ cursor = nextSequence
      /\ cursor \in Numbers
      /\ commands[cursor] \in Commands
      /\ State(cursor) = Stored
      /\ Stored \in StoredCommands \cup {NoState}
  BY DEF IInv, AtHand, TypeOK, Poll, Pending, State, Stored, Id, Commands
<1>2. TypeOK'
  <2>1. pc' \in Places /\ result' \in Outcomes \cup {NoAnswer}
    <3> USE <1>1 DEF Poll, Resume, Places, NoAnswer, Service!NoAnswer, Outcomes,
                     Service!Outcomes
    <3>1. CASE Stored = NoState
      BY <3>1 DEF NoState
    <3>2. CASE Stored \in StoredCommands
      BY <3>2 DEF StoredCommands, ResumeInterrupted, ResumeCompleted
    <3> QED
      BY <3>1, <3>2
  <2> QED
    BY <2>1 DEF IInv, TypeOK, Poll, durable, history
<1>3. DurableInv'
  BY DurableFrame DEF IInv, Poll, durable
<1>4. AtHand'
  <2> USE <1>1 DEF IInv, DurableInv, AtHand, Poll, Resume, durable, history,
                   State, IsStored, Pending
  <2>1. CASE Stored # NoState /\ Stored.sequence # nextSequence
    BY <2>1
  <2>2. CASE Stored = NoState
    BY <2>2 DEF NoState
  <2>3. CASE Stored \in StoredCommands /\ Stored.sequence = nextSequence
    <3>1. CASE Stored.phase = "processing"
      BY <2>3, <3>1 DEF ResumeInterrupted, Processing, Honest, Outcomes,
                        Service!Outcomes, StoredCommands, NoState
    <3>2. CASE Stored.phase = "completed"
      BY <2>3, <3>2 DEF ResumeCompleted, Completed, Honest, Outcomes,
                        Service!Outcomes, StoredCommands, NoState
    <3> QED
      BY <2>3, <3>1, <3>2 DEF StoredCommands
  <2> QED
    BY <2>1, <2>2, <2>3
<1> QED
  BY <1>2, <1>3, <1>4 DEF IInv

-----------------------------------------------------------------------------
(* The steps that write a file, and the invocation.                        *)

\* A new command file concerns no state file and no answer so far.
LEMMA SendInv == IInv /\ (\E s \in Numbers : Send(s)) => IInv'
<1> SUFFICES ASSUME IInv, NEW k \in Numbers, Send(k) PROVE IInv'
  OBVIOUS
<1>1. PICK command \in Commands : commands' = [commands EXCEPT ![k] = command]
  BY DEF Send
<1>2. /\ commands[k] = NoCommand
      /\ \A s \in Numbers \ {k} : commands'[s] = commands[s]
      /\ commands'[k] = command
      /\ command # NoCommand
  BY <1>1 DEF Send, IInv, TypeOK, Commands, NoCommand
<1>3. TypeOK'
  BY <1>1 DEF IInv, TypeOK, Send, history
<1>4. \A id \in CommandIds : states[id] # NoState => states[id].sequence # k
  BY <1>2 DEF IInv, DurableInv, StatesHaveOwners, NoCommand
<1>5. \A s \in Numbers : IsStored(s)' <=> IsStored(s)
  <2>1. ASSUME NEW s \in Numbers, s # k PROVE IsStored(s)' <=> IsStored(s)
    BY <1>2, <2>1 DEF IsStored, State, Send
  <2>2. states[command.id].sequence # k
    BY <1>4 DEF Commands, NoState, Numbers
  <2>3. ~IsStored(k)' /\ ~IsStored(k)
    BY <1>2, <2>2 DEF IsStored, State, Send
  <2> QED
    BY <2>1, <2>3
<1>6. \A s \in Numbers : IsStored(s) => State(s)' = State(s)
  BY <1>2 DEF IsStored, State, Send
<1>7. DurableInv'
  <2> USE <1>2, <1>4, <1>5, <1>6 DEF IInv, DurableInv, Send, history
  <2>1. StatesHaveOwners'
    BY DEF StatesHaveOwners, TypeOK, StoredCommands
  <2>2. Unstored'
    BY DEF Unstored, Untouched
  <2>3. Passed'
    BY DEF Passed
  <2>4. Processing' /\ Completed'
    BY DEF Processing, Completed, Honest
  <2>5. CompletionsAreBacked'
    BY DEF CompletionsAreBacked
  <2>6. Counted'
    BY DEF Counted, Unstored, Untouched, IsStored
  <2> QED
    BY <2>1, <2>2, <2>3, <2>4, <2>5, <2>6
<1>8. AtHand'
  <2>1. pc \notin {"down", "polling", "waiting"} => cursor # k
    BY <1>2 DEF IInv, AtHand
  <2> QED
    BY <2>1, <1>2 DEF IInv, AtHand, Send, history, State, IsStored, Honest
<1> QED
  BY <1>3, <1>7, <1>8 DEF IInv

LEMMA VanishInv == IInv /\ (\E id \in CommandIds : Vanish(id)) => IInv'
<1> SUFFICES ASSUME IInv, NEW id \in CommandIds, Vanish(id) PROVE IInv'
  OBVIOUS
<1>1. TypeOK'
  BY DEF IInv, TypeOK, Vanish, history
<1>2. DurableInv'
  BY DEF IInv, DurableInv, StatesHaveOwners, Unstored, Untouched, Passed,
         Processing, Completed, CompletionsAreBacked, Counted, IsStored, State,
         Honest, Vanish, history
<1>3. AtHand'
  BY DEF IInv, AtHand, Vanish, history, State, IsStored, Honest
<1> QED
  BY <1>1, <1>2, <1>3 DEF IInv

\* A process at work is at the cursor, whose command has an ID of its own.
LEMMA Working ==
    ASSUME IInv, pc \notin {"down", "polling", "waiting"}
    PROVE  /\ nextSequence = cursor
           /\ cursor \in Numbers
           /\ commands[cursor] \in Commands
           /\ Id \in CommandIds
           /\ Id = commands[cursor].id
           /\ State(cursor) = states[Id]
BY DEF IInv, AtHand, TypeOK, Id, State, Commands, IsStored
\* What the steps of processSequence() change of states, and nothing else.
LEMMA MarkProcessingInv == IInv /\ MarkProcessing => IInv'
<1> SUFFICES ASSUME IInv, MarkProcessing PROVE IInv'
  OBVIOUS
<1> DEFINE new == [sequence |-> cursor, phase |-> "processing",
                   outcome |-> NoAnswer, completionEmitted |-> FALSE]
<1>1. /\ nextSequence = cursor
      /\ cursor \in Numbers
      /\ commands[cursor] \in Commands
      /\ Id \in CommandIds
      /\ Id = commands[cursor].id
      /\ states[Id] = NoState
  BY Working DEF MarkProcessing, IInv, AtHand
<1>2. /\ states'[Id] = new
      /\ \A id \in CommandIds \ {Id} : states'[id] = states[id]
  BY <1>1 DEF MarkProcessing, IInv, TypeOK
<1>3. Untouched(cursor) /\ ~IsStored(cursor)
  BY <1>1 DEF IInv, DurableInv, Unstored, IsStored, State, NoState, Numbers
<1>4. TypeOK'
  BY <1>1 DEF IInv, TypeOK, MarkProcessing, history, Resume, Places,
              StoredCommands, Outcomes, NoAnswer, Service!Outcomes,
              Service!NoAnswer
<1>5. \A s \in Numbers : s # cursor =>
        /\ IsStored(s)' <=> IsStored(s)
        /\ IsStored(s) => State(s)' = State(s)
  <2> SUFFICES ASSUME NEW s \in Numbers, s # cursor
               PROVE  /\ IsStored(s)' <=> IsStored(s)
                      /\ IsStored(s) => State(s)' = State(s)
    OBVIOUS
  <2>1. CASE commands[s].id = Id
    BY <1>1, <1>2, <2>1 DEF IsStored, State, MarkProcessing, NoState, Numbers
  <2>2. CASE commands[s].id # Id
    BY <1>2, <2>2 DEF IsStored, State, MarkProcessing, IInv, TypeOK, Commands
  <2> QED
    BY <2>1, <2>2
<1>6. IsStored(cursor)' /\ State(cursor)' = new
  BY <1>1, <1>2 DEF IsStored, State, MarkProcessing, Commands, NoCommand
<1>7. DurableInv'
  <2> USE DEF IInv, DurableInv, MarkProcessing, history
  <2>1. StatesHaveOwners'
    BY <1>1, <1>2 DEF StatesHaveOwners, TypeOK, Numbers
  <2>2. Unstored'
    BY <1>5, <1>6 DEF Unstored, Untouched
  <2>3. Passed'
    BY <1>1, <1>5 DEF Passed, Numbers
  <2>4. Processing' /\ Completed'
    BY <1>3, <1>5, <1>6 DEF Processing, Completed, Honest, Untouched
  <2>5. CompletionsAreBacked'
    BY <1>1, <1>2 DEF CompletionsAreBacked, TypeOK
  <2>6. Counted'
    BY DEF Counted
  <2> QED
    BY <2>1, <2>2, <2>3, <2>4, <2>5, <2>6
<1>8. AtHand'
  BY <1>1, <1>3, <1>6 DEF AtHand, IInv, MarkProcessing, Resume, Honest,
     Untouched, Outcomes, Service!Outcomes, history
<1> QED
  BY <1>4, <1>7, <1>8 DEF IInv

\* Only the command at hand is affected by a step that rewrites its state.
LEMMA RewriteState ==
    ASSUME IInv, IsStored(cursor), nextSequence = cursor, cursor \in Numbers,
           NEW new \in StoredCommands, new.sequence = cursor,
           states' = [states EXCEPT ![Id] = new],
           UNCHANGED <<commands, cursor>>
    PROVE  /\ Id = commands[cursor].id
           /\ Id \in CommandIds
           /\ states'[Id] = new
           /\ \A id \in CommandIds \ {Id} : states'[id] = states[id]
           /\ IsStored(cursor)' /\ State(cursor)' = new
           /\ \A s \in Numbers : s # cursor =>
                /\ IsStored(s)' <=> IsStored(s)
                /\ IsStored(s) => State(s)' = State(s)
<1>1. /\ commands[cursor] \in Commands
      /\ Id = commands[cursor].id
      /\ Id \in CommandIds
  BY DEF IInv, TypeOK, IsStored, Id, Commands
<1>2. /\ states'[Id] = new
      /\ \A id \in CommandIds \ {Id} : states'[id] = states[id]
  BY <1>1 DEF IInv, TypeOK
<1>3. IsStored(cursor)' /\ State(cursor)' = new
  BY <1>1, <1>2 DEF IsStored, State
<1>4. ASSUME NEW s \in Numbers, s # cursor
      PROVE  /\ IsStored(s)' <=> IsStored(s)
             /\ IsStored(s) => State(s)' = State(s)
  <2>1. CASE commands[s].id = Id
    BY <1>1, <1>2, <1>4, <2>1 DEF IsStored, State
  <2>2. CASE commands[s].id # Id
    BY <1>2, <2>2 DEF IsStored, State, IInv, TypeOK, Commands
  <2> QED
    BY <2>1, <2>2
<1> QED
  BY <1>1, <1>2, <1>3, <1>4
LEMMA InvokeInv == IInv /\ Invoke => IInv'
<1> SUFFICES ASSUME IInv, Invoke PROVE IInv'
  OBVIOUS
<1>1. /\ nextSequence = cursor
      /\ cursor \in Numbers
      /\ IsStored(cursor)
      /\ State(cursor).phase = "processing"
      /\ invocations[cursor] = 0
  BY Working DEF Invoke, IInv, AtHand
<1>2. /\ invocations'[cursor] = 1
      /\ \A s \in Numbers \ {cursor} : invocations'[s] = invocations[s]
  BY <1>1 DEF Invoke, IInv, TypeOK
<1>3. TypeOK'
  BY <1>1 DEF IInv, TypeOK, Invoke, durable, Resume, Places, Outcomes,
              Service!Outcomes
<1>4. DurableInv'
  <2> USE <1>1, <1>2 DEF IInv, DurableInv, Invoke, durable, IsStored, State
  <2>1. StatesHaveOwners' /\ Passed' /\ CompletionsAreBacked' /\ Counted'
    BY DEF StatesHaveOwners, Passed, CompletionsAreBacked, Counted
  <2>2. Unstored'
    BY DEF Unstored, Untouched
  <2>3. Processing'
    BY DEF Processing
  <2>4. Completed'
    BY DEF Completed, Honest
  <2> QED
    BY <2>1, <2>2, <2>3, <2>4
<1>5. AtHand'
  <2>1. ~State(cursor).completionEmitted
    BY <1>1 DEF IInv, DurableInv, Processing
  <2> QED
    BY <1>1, <1>2, <2>1 DEF AtHand, IInv, Invoke, Resume, Honest, Outcomes,
       Service!Outcomes, durable, IsStored, State
<1> QED
  BY <1>3, <1>4, <1>5 DEF IInv

LEMMA MarkCompletedInv == IInv /\ MarkCompleted => IInv'
<1> SUFFICES ASSUME IInv, MarkCompleted PROVE IInv'
  OBVIOUS
<1> DEFINE new == [State(cursor) EXCEPT !.phase = "completed",
                                        !.outcome = result]
<1>1. /\ nextSequence = cursor
      /\ cursor \in Numbers
      /\ IsStored(cursor)
      /\ Honest(result, cursor)
      /\ ~State(cursor).completionEmitted
      /\ State(cursor).phase = "completed" => result = State(cursor).outcome
      /\ Id \in CommandIds
      /\ State(cursor) = states[Id]
  BY Working DEF MarkCompleted, IInv, AtHand
<1>2. State(cursor) \in StoredCommands
  BY <1>1 DEF IInv, TypeOK, IsStored, NoState, Numbers
<1>3. /\ new \in StoredCommands
      /\ new.sequence = cursor
      /\ new.phase = "completed"
      /\ new.outcome = result
      /\ ~new.completionEmitted
  BY <1>1, <1>2 DEF StoredCommands, Honest, IsStored
<1>4. states' = [states EXCEPT ![Id] = new]
  BY <1>1 DEF MarkCompleted, IInv, TypeOK
<1> HIDE DEF new
<1>5. /\ Id = commands[cursor].id
      /\ states'[Id] = new
      /\ \A id \in CommandIds \ {Id} : states'[id] = states[id]
      /\ IsStored(cursor)' /\ State(cursor)' = new
      /\ \A s \in Numbers : s # cursor =>
           /\ IsStored(s)' <=> IsStored(s)
           /\ IsStored(s) => State(s)' = State(s)
  BY <1>1, <1>3, <1>4, RewriteState DEF MarkCompleted
<1>6. TypeOK'
  BY <1>1, <1>3, <1>4 DEF IInv, TypeOK, MarkCompleted, history, Places
<1>7. /\ answer[cursor] \in {NoAnswer, result}
      /\ invocations[cursor] \in 0..1
  BY <1>1, <1>2 DEF IInv, DurableInv, Processing, Completed, StoredCommands
<1>8. DurableInv'
  <2> UNCHANGED <<commands, cursor, completions, invocations, answer, emissions>>
    BY DEF MarkCompleted, history
  <2> USE DEF IInv, DurableInv
  <2>1. StatesHaveOwners'
    <3> SUFFICES ASSUME NEW id \in CommandIds, states'[id] # NoState
                 PROVE  /\ commands[states'[id].sequence].id = id
                        /\ states'[id].sequence <= cursor
      BY DEF StatesHaveOwners
    <3>1. CASE id = Id
      BY <1>1, <1>3, <1>5, <3>1 DEF Numbers
    <3>2. CASE id # Id
      BY <1>5, <3>2 DEF StatesHaveOwners
    <3> QED
      BY <3>1, <3>2
  <2>2. Unstored'
    BY <1>5 DEF Unstored, Untouched
  <2>3. Passed'
    BY <1>1, <1>5 DEF Passed, Numbers
  <2>4. Processing'
    BY <1>3, <1>5 DEF Processing
  <2>5. Completed'
    BY <1>1, <1>3, <1>5, <1>7 DEF Completed, Honest
  <2>6. CompletionsAreBacked'
    <3> SUFFICES ASSUME NEW id \in completions
                 PROVE  states'[id] # NoState /\ answer[states'[id].sequence] # NoAnswer
      BY DEF CompletionsAreBacked
    <3>1. states[id] # NoState /\ answer[states[id].sequence] # NoAnswer
      BY DEF CompletionsAreBacked
    <3>2. states'[id].sequence = states[id].sequence
      BY <1>1, <1>3, <1>5 DEF TypeOK, IsStored
    <3>3. states[id].sequence # 0
      BY <3>1 DEF TypeOK, StoredCommands, Numbers
    <3> QED
      BY <3>1, <3>2, <3>3 DEF NoState
  <2>7. Counted'
    BY DEF Counted
  <2> QED
    BY <2>1, <2>2, <2>3, <2>4, <2>5, <2>6, <2>7
<1>9. AtHand'
  BY <1>1, <1>3, <1>5 DEF AtHand, IInv, MarkCompleted, history
<1> QED
  BY <1>6, <1>8, <1>9 DEF IInv

LEMMA EmitInv == IInv /\ Emit => IInv'
<1> SUFFICES ASSUME IInv, Emit PROVE IInv'
  OBVIOUS
<1>1. /\ nextSequence = cursor
      /\ cursor \in Numbers
      /\ IsStored(cursor)
      /\ State(cursor).phase = "completed"
      /\ State(cursor).outcome = result
      /\ Id \in CommandIds
      /\ Id = commands[cursor].id
      /\ State(cursor) = states[Id]
  BY Working DEF Emit, IInv, AtHand
<1>2. /\ Honest(result, cursor)
      /\ result # NoAnswer
      /\ answer[cursor] \in {NoAnswer, result}
  BY <1>1 DEF IInv, DurableInv, Completed, Honest, Outcomes, NoAnswer,
              Service!Outcomes, Service!NoAnswer
<1>3. CASE Id \in completions
  <2>1. answer[cursor] # NoAnswer
    BY <1>1, <1>3 DEF IInv, DurableInv, CompletionsAreBacked, IsStored
  <2>2. TypeOK'
    BY <1>3 DEF IInv, TypeOK, Emit, Places
  <2>3. DurableInv'
    BY <1>3, DurableFrame DEF IInv, Emit, durable, history
  <2>4. AtHand'
    BY <1>1, <1>3, <2>1 DEF IInv, AtHand, Emit, State, IsStored
  <2> QED
    BY <2>2, <2>3, <2>4 DEF IInv
<1>4. CASE Id \notin completions
  <2>1. /\ completions' = completions \cup {Id}
        /\ answer'[cursor] = result
        /\ emissions'[cursor] = emissions[cursor] + 1
        /\ \A s \in Numbers \ {cursor} :
             answer'[s] = answer[s] /\ emissions'[s] = emissions[s]
    BY <1>1, <1>4 DEF IInv, TypeOK, Emit
  <2>2. TypeOK'
    BY <1>1, <1>2, <1>4 DEF IInv, TypeOK, Emit, Places, Honest
  <2>3. DurableInv'
    <3> USE <1>1, <1>2, <2>1 DEF IInv, DurableInv, Emit, State, IsStored
    <3>1. StatesHaveOwners' /\ Passed'
      BY DEF StatesHaveOwners, Passed
    <3>2. Unstored'
      BY DEF Unstored, Untouched
    <3>3. Processing'
      BY DEF Processing
    <3>4. Completed'
      BY DEF Completed, Honest
    <3>5. CompletionsAreBacked'
      <4> SUFFICES ASSUME NEW id \in completions'
                   PROVE  states[id] # NoState /\ answer'[states[id].sequence] # NoAnswer
        BY DEF CompletionsAreBacked
      <4>1. CASE id = Id
        BY <4>1 DEF NoState, Numbers
      <4>2. CASE id # Id
        <5>1. id \in completions /\ states[id] \in StoredCommands
          BY <4>2 DEF CompletionsAreBacked, TypeOK
        <5> QED
          BY <5>1 DEF CompletionsAreBacked, StoredCommands
      <4> QED
        BY <4>1, <4>2
    <3>6. Counted'
      BY <1>4 DEF Counted, TypeOK
    <3> QED
      BY <3>1, <3>2, <3>3, <3>4, <3>5, <3>6
  <2>4. AtHand'
    BY <1>1, <1>2, <2>1 DEF IInv, AtHand, Emit, State, IsStored
  <2> QED
    BY <2>2, <2>3, <2>4 DEF IInv
<1> QED
  BY <1>3, <1>4
LEMMA SealInv == IInv /\ SetCompletionEmitted => IInv'
<1> SUFFICES ASSUME IInv, SetCompletionEmitted PROVE IInv'
  OBVIOUS
<1> DEFINE new == [State(cursor) EXCEPT !.completionEmitted = TRUE]
<1>1. /\ nextSequence = cursor
      /\ cursor \in Numbers
      /\ IsStored(cursor)
      /\ State(cursor).phase = "completed"
      /\ answer[cursor] # NoAnswer
      /\ Id \in CommandIds
      /\ State(cursor) = states[Id]
  BY Working DEF SetCompletionEmitted, IInv, AtHand
<1>2. State(cursor) \in StoredCommands
  BY <1>1 DEF IInv, TypeOK, IsStored, NoState, Numbers
<1>3. /\ new \in StoredCommands
      /\ new.sequence = cursor
      /\ new.phase = "completed"
      /\ new.outcome = State(cursor).outcome
      /\ new.completionEmitted
  BY <1>1, <1>2 DEF StoredCommands, IsStored
<1>4. states' = [states EXCEPT ![Id] = new]
  BY <1>1 DEF SetCompletionEmitted, IInv, TypeOK
<1> HIDE DEF new
<1>5. /\ Id = commands[cursor].id
      /\ states'[Id] = new
      /\ \A id \in CommandIds \ {Id} : states'[id] = states[id]
      /\ IsStored(cursor)' /\ State(cursor)' = new
      /\ \A s \in Numbers : s # cursor =>
           /\ IsStored(s)' <=> IsStored(s)
           /\ IsStored(s) => State(s)' = State(s)
  BY <1>1, <1>3, <1>4, RewriteState DEF SetCompletionEmitted
<1>6. TypeOK'
  BY <1>1, <1>3, <1>4 DEF IInv, TypeOK, SetCompletionEmitted, history, Places
<1>7. DurableInv'
  <2> UNCHANGED <<commands, cursor, completions, invocations, answer, emissions>>
    BY DEF SetCompletionEmitted, history
  <2> USE DEF IInv, DurableInv
  <2>1. StatesHaveOwners'
    <3> SUFFICES ASSUME NEW id \in CommandIds, states'[id] # NoState
                 PROVE  /\ commands[states'[id].sequence].id = id
                        /\ states'[id].sequence <= cursor
      BY DEF StatesHaveOwners
    <3>1. CASE id = Id
      BY <1>1, <1>3, <1>5, <3>1 DEF Numbers
    <3>2. CASE id # Id
      BY <1>5, <3>2 DEF StatesHaveOwners
    <3> QED
      BY <3>1, <3>2
  <2>2. Unstored'
    BY <1>5 DEF Unstored, Untouched
  <2>3. Passed'
    BY <1>1, <1>5 DEF Passed, Numbers
  <2>4. Processing'
    BY <1>3, <1>5 DEF Processing
  <2>5. Completed'
    BY <1>1, <1>3, <1>5 DEF Completed, Honest
  <2>6. CompletionsAreBacked'
    <3> SUFFICES ASSUME NEW id \in completions
                 PROVE  states'[id] # NoState /\ answer[states'[id].sequence] # NoAnswer
      BY DEF CompletionsAreBacked
    <3>1. states[id] # NoState /\ answer[states[id].sequence] # NoAnswer
      BY DEF CompletionsAreBacked
    <3>2. states'[id].sequence = states[id].sequence
      BY <1>1, <1>3, <1>5 DEF TypeOK, IsStored
    <3>3. states[id].sequence # 0
      BY <3>1 DEF TypeOK, StoredCommands, Numbers
    <3> QED
      BY <3>1, <3>2, <3>3 DEF NoState
  <2>7. Counted'
    BY DEF Counted
  <2> QED
    BY <2>1, <2>2, <2>3, <2>4, <2>5, <2>6, <2>7
<1>8. AtHand'
  BY <1>1, <1>3, <1>5 DEF AtHand, IInv, SetCompletionEmitted, history
<1> QED
  BY <1>6, <1>7, <1>8 DEF IInv

\* The cursor passes a command when it is completed and known to be emitted.
LEMMA SaveCursorInv == IInv /\ SaveCursor => IInv'
<1> SUFFICES ASSUME IInv, SaveCursor PROVE IInv'
  OBVIOUS
<1>1. /\ nextSequence = cursor
      /\ cursor \in Numbers
      /\ IsStored(cursor)
      /\ State(cursor).phase = "completed"
      /\ State(cursor).completionEmitted
  BY DEF SaveCursor, IInv, AtHand
<1>2. TypeOK'
  BY <1>1 DEF IInv, TypeOK, SaveCursor, history, Resume, Places, Numbers
<1>3. DurableInv'
  <2> UNCHANGED <<commands, states, completions, invocations, answer, emissions>>
    BY DEF SaveCursor, history
  <2> cursor' = cursor + 1
    BY <1>1 DEF SaveCursor
  <2> USE DEF IInv, DurableInv, IsStored, State
  <2>1. StatesHaveOwners'
    <3>1. \A id \in CommandIds : states[id] # NoState => states[id].sequence \in Nat
      BY DEF TypeOK, StoredCommands, Numbers
    <3> QED
      BY <1>1, <3>1 DEF StatesHaveOwners, Numbers
  <2>2. Passed'
    BY <1>1 DEF Passed, Numbers
  <2>3. Unstored' /\ Processing' /\ Completed' /\ CompletionsAreBacked' /\ Counted'
    BY DEF Unstored, Untouched, Processing, Completed, Honest,
           CompletionsAreBacked, Counted
  <2> QED
    BY <2>1, <2>2, <2>3
<1>4. AtHand'
  BY <1>1 DEF AtHand, SaveCursor, Resume
<1> QED
  BY <1>2, <1>3, <1>4 DEF IInv

LEMMA InvStep == IInv /\ [Next]_vars => IInv'
<1> SUFFICES ASSUME IInv, [Next]_vars PROVE IInv'
  OBVIOUS
<1>1. CASE UNCHANGED vars
  <2>1. TypeOK'
    BY <1>1 DEF IInv, TypeOK, vars, history
  <2>2. DurableInv'
    BY <1>1, DurableFrame DEF IInv, vars, durable
  <2>3. AtHand'
    BY <1>1 DEF IInv, AtHand, vars, history, State, IsStored, Honest
  <2> QED
    BY <2>1, <2>2, <2>3 DEF IInv
<1> QED
  BY <1>1, SendInv, VanishInv, StartInv, EndInv, WaitInv, PollInv,
     MarkProcessingInv, InvokeInv, MarkCompletedInv, EmitInv, SealInv,
     SaveCursorInv
     DEF Next, ProcessStep

-----------------------------------------------------------------------------
(* What follows from the invariant.                                        *)

LEMMA InvImplies ==
    ASSUME IInv
    PROVE  AnswersAreBacked /\ CursorFollowsAnswers /\ OneCompletionEach
<1>1. AnswersAreBacked
  <2> SUFFICES ASSUME NEW s \in Numbers, answer[s] # NoAnswer
               PROVE  /\ State(s).sequence = s
                      /\ State(s).phase = "completed"
                      /\ State(s).outcome = answer[s]
    BY DEF AnswersAreBacked, State
  <2>1. IsStored(s)
    BY DEF IInv, DurableInv, Unstored, Untouched
  <2>2. State(s).phase \in {"processing", "completed"}
    BY <2>1 DEF IInv, TypeOK, IsStored, State, Commands, StoredCommands, NoState, Numbers
  <2> QED
    BY <2>1, <2>2 DEF IInv, DurableInv, Processing, Completed, IsStored
<1>2. CursorFollowsAnswers
  BY DEF CursorFollowsAnswers, IInv, DurableInv, Passed, Completed
<1>3. OneCompletionEach
  BY DEF OneCompletionEach, IInv, DurableInv, Counted, TypeOK
<1> QED
  BY <1>1, <1>2, <1>3

\* Once the flag is set, the process is past the emission for good.
LEMMA SealedStep ==
    ASSUME IInv, [Next]_vars, NEW s \in Numbers, commands[s] # NoCommand,
           State(s).completionEmitted
    PROVE  emissions'[s] = emissions[s]
<1>1. CASE Emit
  <2>1. /\ nextSequence = cursor
        /\ ~State(cursor).completionEmitted
    BY <1>1 DEF IInv, AtHand, Emit
  <2> QED
    BY <1>1, <2>1 DEF IInv, TypeOK, Emit
<1>2. CASE ~Emit
  BY <1>2 DEF Next, ProcessStep, Send, Vanish, Start, Stop, Interrupt,
     TimerCallback, Poll, NothingPending, MarkProcessing, Invoke, MarkCompleted,
     SetCompletionEmitted, SaveCursor, vars, history
<1> QED
  BY <1>1, <1>2
-----------------------------------------------------------------------------
(* The refinement of CommandService.                                       *)

LEMMA RefineInit == Init => Service!Init
BY DEF Init, Service!Init, Numbers, Service!Numbers, NoAnswer

\* The command at hand is the one that the service has to answer next.
LEMMA NextInLine ==
    ASSUME IInv, cursor \in Numbers, commands[cursor] # NoCommand,
           answer[cursor] = NoAnswer
    PROVE  Service!IsNext(cursor)
<1>1. \A t \in 1..(cursor - 1) : answer[t] # NoAnswer
  BY InvImplies DEF CursorFollowsAnswers, Numbers
<1> QED
  BY <1>1 DEF Service!IsNext, NoAnswer

LEMMA RefineStep == IInv /\ [Next]_vars => [Service!Next]_Service!vars
<1> SUFFICES ASSUME IInv, [Next]_vars
             PROVE  Service!Next \/ UNCHANGED Service!vars
  OBVIOUS
<1>1. ASSUME NEW s \in Numbers, Send(s) PROVE Service!Send(s)
  <2>1. PICK command \in Commands : commands' = [commands EXCEPT ![s] = command]
    BY <1>1 DEF Send
  <2>2. \A t \in Numbers : commands'[t] # NoCommand <=> t = s \/ commands[t] # NoCommand
    <3>1. /\ commands'[s] = command
          /\ \A t \in Numbers \ {s} : commands'[t] = commands[t]
      BY <2>1 DEF IInv, TypeOK
    <3>2. command # NoCommand
      BY <2>1 DEF Commands, NoCommand
    <3> QED
      BY <3>1, <3>2
  <2> QED
    BY <1>1, <2>2 DEF Send, Service!Send, history
<1>2. ASSUME Invoke PROVE Service!Invoke(cursor) /\ cursor \in Numbers
  <2>1. /\ nextSequence = cursor
        /\ cursor \in Numbers
        /\ IsStored(cursor)
        /\ State(cursor).phase = "processing"
        /\ invocations[cursor] = 0
    BY <1>2 DEF Invoke, IInv, AtHand
  <2>2. Service!IsNext(cursor)
    BY <2>1, NextInLine DEF IInv, DurableInv, Processing, IsStored
  <2>3. invocations' = [invocations EXCEPT ![cursor] = 1]
    BY <1>2, <2>1 DEF Invoke
  <2> QED
    BY <1>2, <2>1, <2>2, <2>3 DEF Invoke, Service!Invoke, durable
<1>3. ASSUME Emit
      PROVE  \/ cursor \in Numbers /\ result \in Outcomes /\ Service!Answer(cursor, result)
             \/ UNCHANGED Service!vars
  <2>1. /\ nextSequence = cursor
        /\ cursor \in Numbers
        /\ IsStored(cursor)
        /\ Honest(result, cursor)
        /\ answer[cursor] \in {NoAnswer, result}
    BY <1>3 DEF Emit, IInv, AtHand, DurableInv, Completed
  <2>2. CASE Id \in completions \/ answer[cursor] = result
    <3>1. answer' = answer
      BY <1>3, <2>1, <2>2 DEF Emit, IInv, TypeOK
    <3> QED
      BY <1>3, <3>1 DEF Emit, Service!vars
  <2>3. CASE Id \notin completions /\ answer[cursor] = NoAnswer
    <3>1. Service!IsNext(cursor)
      BY <2>1, <2>3, NextInLine DEF IsStored
    <3>2. answer' = [answer EXCEPT ![cursor] = result]
      BY <1>3, <2>1, <2>3 DEF Emit
    <3> QED
      BY <1>3, <2>1, <3>1, <3>2 DEF Emit, Service!Answer, Honest
  <2> QED
    BY <2>1, <2>2, <2>3
<1>4. CASE UNCHANGED <<commands, invocations, answer>>
  BY <1>4 DEF Service!vars
<1>5. CASE ~Invoke /\ ~Emit /\ ~(\E s \in Numbers : Send(s))
  BY <1>4, <1>5 DEF Next, ProcessStep, Vanish, Start, Stop, Interrupt,
     TimerCallback, Poll, NothingPending, MarkProcessing, MarkCompleted,
     SetCompletionEmitted, SaveCursor, vars, history, durable
<1> QED
  BY <1>1, <1>2, <1>3, <1>5 DEF Service!Next, Service!Numbers, Numbers, Outcomes

-----------------------------------------------------------------------------
(* The theorems.                                                           *)

\* Every crash of the emulator between two of its writes, and every write that
\* fails, leaves files from which the next process goes on correctly.
THEOREM Invariant == Spec => []IInv
BY InitInv, InvStep, PTL DEF Spec

\* An answer that is out is the one the state file holds: replaying it after a
\* restart can only repeat it.
THEOREM AnswersStayBacked == Spec => []AnswersAreBacked
BY Invariant, InvImplies, PTL

\* The cursor file never passes a command without an answer, so a restart
\* loses none.
THEOREM CursorStaysBehind == Spec => []CursorFollowsAnswers
BY Invariant, InvImplies, PTL

\* No completion event appears twice while event files stay.
THEOREM AnsweredOnce == Spec => []OneCompletionEach
BY Invariant, InvImplies, PTL

\* processSequence() never emits the completion of a command whose state says
\* that it was emitted, even when the event has vanished.
THEOREM SealedStaysSealed == Spec => SealedIsFinal
<1>1. IInv /\ [Next]_vars =>
        [\A s \in Numbers :
           commands[s] # NoCommand /\ states[commands[s].id].completionEmitted
               => emissions'[s] = emissions[s]]_vars
  BY SealedStep DEF State
<1> QED
  BY <1>1, Invariant, PTL DEF Spec, SealedIsFinal

\* CommandProcessor invokes each command at most once and in order, and gives
\* one truthful answer that never changes, whatever is interrupted.
THEOREM Refinement == Spec => ImplementsService
BY RefineInit, RefineStep, Invariant, PTL DEF Spec, Service!Spec, ImplementsService
=============================================================================
