-------------------------- MODULE CommandProcessor --------------------------
(***************************************************************************)
(* The emulator's CommandProcessor with the part of EventWriter and        *)
(* CommandStateStore it relies on.  Everything it knows of a command is in *)
(* three kinds of files, each replaced in one piece: the state of the      *)
(* command, its completion event, the cursor.  The process may end between *)
(* any two of these writes, and any of them may fail.                      *)
(***************************************************************************)
EXTENDS Naturals

CONSTANTS
    Last,               \* the number of the last command file
    CommandIds,
    MaxInterruptions,   \* bound of the crashes and failed writes
    Kept                \* IDs whose event files the reader does not delete

ASSUME LastAssumption == Last \in Nat \ {0}
ASSUME InterruptionsAssumption == MaxInterruptions \in Nat
ASSUME KeptAssumption == Kept \subseteq CommandIds

VARIABLES
    commands,       \* commands/<sequence>.json
    states,         \* state/commands/<hash of the command ID>.json
    cursor,         \* state/cursor.json; 1 when there is none
    completions,    \* the IDs of which events/ has a completion
    pc,             \* where the process is; "down" when there is none
    nextSequence,
    result,         \* the InvocationResult at hand
    invocations,    \* history: how often each command was invoked
    answer,         \* history: the outcome last emitted for each command
    emissions,      \* history: how often one was emitted
    interruptions   \* crashes and failed writes so far

history == <<invocations, answer, emissions>>
vars == <<commands, states, cursor, completions, pc, nextSequence, result,
          history, interruptions>>

Numbers == 1..Last

NoCommand == [id |-> "none", valid |-> FALSE]

Service ==
    INSTANCE CommandService WITH
        sent <- {s \in Numbers : commands[s] # NoCommand}

Outcomes == Service!Outcomes
NoAnswer == Service!NoAnswer

Commands == [id : CommandIds, valid : BOOLEAN]

\* The answer to load() when exists() is false.
NoState == [sequence |-> 0, phase |-> "absent", outcome |-> NoAnswer,
            completionEmitted |-> FALSE]

StoredCommands ==
    [sequence : Numbers, phase : {"processing", "completed"},
     outcome : Outcomes \cup {NoAnswer}, completionEmitted : BOOLEAN]

Places == {"down", "polling", "waiting", "mark", "invoke", "complete",
           "emit", "seal", "advance"}

ASSUME IdsAssumption == "none" \notin CommandIds

TypeOK ==
    /\ commands \in [Numbers -> Commands \cup {NoCommand}]
    /\ states \in [CommandIds -> StoredCommands \cup {NoState}]
    /\ cursor \in 1..(Last + 1)
    /\ completions \subseteq CommandIds
    /\ pc \in Places
    /\ nextSequence \in 1..(Last + 1)
    /\ result \in Outcomes \cup {NoAnswer}
    /\ invocations \in [Numbers -> Nat]
    /\ answer \in [Numbers -> Outcomes \cup {NoAnswer}]
    /\ emissions \in [Numbers -> Nat]
    /\ interruptions \in 0..MaxInterruptions

Init ==
    /\ commands = [s \in Numbers |-> NoCommand]
    /\ states = [id \in CommandIds |-> NoState]
    /\ cursor = 1
    /\ completions = {}
    /\ pc = "down"
    /\ nextSequence = 1
    /\ result = NoAnswer
    /\ invocations = [s \in Numbers |-> 0]
    /\ answer = [s \in Numbers |-> NoAnswer]
    /\ emissions = [s \in Numbers |-> 0]
    /\ interruptions = 0

-----------------------------------------------------------------------------
(* The client and the process.                                             *)

\* The client writes the files in any order, and may use an ID twice.
Send(s) ==
    /\ commands[s] = NoCommand
    /\ \E command \in Commands : commands' = [commands EXCEPT ![s] = command]
    /\ UNCHANGED <<states, cursor, completions, pc, nextSequence, result,
                   history, interruptions>>

Vanish(id) ==
    /\ id \notin Kept
    /\ completions' = completions \ {id}
    /\ UNCHANGED <<commands, states, cursor, pc, nextSequence, result,
                   history, interruptions>>

\* A new process: preflight(), then start() looks for commands at once.
Start ==
    /\ pc = "down"
    /\ nextSequence' = cursor
    /\ pc' = "polling"
    /\ UNCHANGED <<commands, states, cursor, completions, result, history,
                   interruptions>>

\* The process is asked to end, which its message thread does not notice in
\* the middle of processPendingNow().
Stop ==
    /\ pc = "waiting"
    /\ pc' = "down"
    /\ UNCHANGED <<commands, states, cursor, completions, nextSequence, result,
                   history, interruptions>>

\* The process ends on the spot, or a write fails and reportFatal() ends it.
Interrupt ==
    /\ pc # "down"
    /\ interruptions < MaxInterruptions
    /\ interruptions' = interruptions + 1
    /\ pc' = "down"
    /\ result' = NoAnswer
    /\ UNCHANGED <<commands, states, cursor, completions, nextSequence, history>>

TimerCallback ==
    /\ pc = "waiting"
    /\ pc' = "polling"
    /\ UNCHANGED <<commands, states, cursor, completions, nextSequence, result,
                   history, interruptions>>

-----------------------------------------------------------------------------
(* processSequence(), one write at a time.                                 *)

durable == <<commands, states, cursor, completions>>

Id == commands[nextSequence].id
Stored == states[Id]

Pending == nextSequence \in Numbers /\ commands[nextSequence] # NoCommand

\* What the stored state says about the command at hand: where to go on, and
\* with which result.
Resume(place, outcome) == pc' = place /\ result' = outcome

\* Mutant: a command whose processing was interrupted is processed again.
ResumeProcessing == Resume("mark", NoAnswer)

\* Mutant: an interrupted command is an error that ends the process.
ResumeRefusing == Resume("down", NoAnswer)

ResumeInterrupted == Resume("complete", "interrupted")

\* Mutant: a completed command is reported whatever its flag says.
ResumeReporting == Resume("complete", Stored.outcome)

\* Mutant: a completed command is carried out once more.
ResumeFromTheStart == Resume("mark", NoAnswer)

ResumeCompleted ==
    Resume(IF Stored.completionEmitted THEN "seal" ELSE "complete", Stored.outcome)

\* Mutant: the state of a command ID is believed whoever it belongs to.
PollAnySequence ==
    /\ pc = "polling"
    /\ Pending
    /\ CASE Stored.phase = "absent" -> Resume("mark", NoAnswer)
         [] Stored.phase = "processing" -> ResumeInterrupted
         [] Stored.phase = "completed" -> ResumeCompleted
    /\ UNCHANGED <<durable, nextSequence, history, interruptions>>

Poll ==
    /\ pc = "polling"
    /\ Pending
    /\ IF Stored # NoState /\ Stored.sequence # nextSequence
       THEN Resume("down", NoAnswer)    \* "command state sequence mismatch"
       ELSE CASE Stored.phase = "absent" -> Resume("mark", NoAnswer)
              [] Stored.phase = "processing" -> ResumeInterrupted
              [] Stored.phase = "completed" -> ResumeCompleted
    /\ UNCHANGED <<durable, nextSequence, history, interruptions>>

NothingPending ==
    /\ pc = "polling"
    /\ ~Pending
    /\ pc' = "waiting"
    /\ UNCHANGED <<durable, nextSequence, result, history, interruptions>>

MarkProcessing ==
    /\ pc = "mark"
    /\ states' = [states EXCEPT ![Id] =
                    [sequence |-> nextSequence, phase |-> "processing",
                     outcome |-> NoAnswer, completionEmitted |-> FALSE]]
    /\ IF commands[nextSequence].valid
       THEN Resume("invoke", NoAnswer) ELSE Resume("complete", "rejected")
    /\ UNCHANGED <<commands, cursor, completions, nextSequence, history, interruptions>>

\* The target may throw.
Invoke ==
    /\ pc = "invoke"
    /\ \E outcome \in {"completed", "failed"} : Resume("complete", outcome)
    /\ invocations' = [invocations EXCEPT ![nextSequence] = @ + 1]
    /\ UNCHANGED <<durable, nextSequence, answer, emissions, interruptions>>

MarkCompleted ==
    /\ pc = "complete"
    /\ states' = [states EXCEPT ![Id].phase = "completed",
                                ![Id].outcome = result]
    /\ pc' = "emit"
    /\ UNCHANGED <<commands, cursor, completions, nextSequence, result, history,
                   interruptions>>

\* Mutant: only the flag says whether the completion was emitted.
EmitUnlessFlagged ==
    /\ pc = "emit"
    /\ completions' = completions \cup {Id}
    /\ answer' = [answer EXCEPT ![nextSequence] = result]
    /\ emissions' = [emissions EXCEPT ![nextSequence] = @ + 1]
    /\ pc' = "seal"
    /\ UNCHANGED <<commands, states, cursor, nextSequence, result, invocations,
                   interruptions>>

Emit ==
    /\ pc = "emit"
    /\ IF Id \in completions
       THEN UNCHANGED <<completions, answer, emissions>>
       ELSE /\ completions' = completions \cup {Id}
            /\ answer' = [answer EXCEPT ![nextSequence] = result]
            /\ emissions' = [emissions EXCEPT ![nextSequence] = @ + 1]
    /\ pc' = "seal"
    /\ UNCHANGED <<commands, states, cursor, nextSequence, result, invocations,
                   interruptions>>

SetCompletionEmitted ==
    /\ pc = "seal"
    /\ states' = [states EXCEPT ![Id].completionEmitted = TRUE]
    /\ pc' = "advance"
    /\ UNCHANGED <<commands, cursor, completions, nextSequence, result, history,
                   interruptions>>

SaveCursor ==
    /\ pc = "advance"
    /\ cursor' = nextSequence + 1
    /\ nextSequence' = nextSequence + 1
    /\ Resume("polling", NoAnswer)
    /\ UNCHANGED <<commands, states, completions, history, interruptions>>

ProcessStep ==
    \/ TimerCallback
    \/ Poll
    \/ NothingPending
    \/ MarkProcessing
    \/ Invoke
    \/ MarkCompleted
    \/ Emit
    \/ SetCompletionEmitted
    \/ SaveCursor

Next ==
    \/ \E s \in Numbers : Send(s)
    \/ \E id \in CommandIds : Vanish(id)
    \/ Start
    \/ Stop
    \/ Interrupt
    \/ ProcessStep

Spec == Init /\ [][Next]_vars

(* A process that ended is started again, and one that runs goes on: its   *)
(* timer calls back every 50 ms and processPendingNow() does not block.    *)
FairSpec == Spec /\ WF_vars(Start) /\ WF_vars(ProcessStep)

-----------------------------------------------------------------------------
(* Properties.                                                             *)

\* Over all crashes, failed writes, reused IDs and vanished events: commands
\* are invoked in order and at most once, and an answer is never changed,
\* however often it is emitted.
ImplementsService == Service!Spec

\* An answer that is out is backed by the stored state, so that a repeated
\* answer can only be the same one.
AnswersAreBacked ==
    \A s \in Numbers : answer[s] # NoAnswer =>
        /\ states[commands[s].id].sequence = s
        /\ states[commands[s].id].phase = "completed"
        /\ states[commands[s].id].outcome = answer[s]

\* The cursor, which is all that a new process looks at first, never passes a
\* command whose answer is not out.
CursorFollowsAnswers ==
    \A s \in Numbers : s < cursor => answer[s] # NoAnswer

\* While event files stay, no crash makes a completion appear twice: the test
\* "replays saved outcomes without invoking" covers one of the orders.
OneCompletionEach ==
    \A s \in Numbers : commands[s].id \in Kept => emissions[s] <= 1

\* A completion recorded as emitted stays emitted once and for all, "even if
\* the event file is unavailable" (CommandProcessorTests.cpp:208).
SealedIsFinal ==
    [][\A s \in Numbers :
         commands[s] # NoCommand /\ states[commands[s].id].completionEmitted
             => emissions'[s] = emissions[s]]_vars

Distinct(s) ==
    \A t, u \in 1..s : t # u => commands[t].id # commands[u].id

\* A command that has arrived with all its predecessors, under IDs of their
\* own, is answered, whatever was interrupted on the way.
AnswersArrive ==
    \A s \in Numbers :
        (\A t \in 1..s : commands[t] # NoCommand) /\ Distinct(s)
            ~> answer[s] # NoAnswer
=============================================================================
