---------------------------- MODULE AuthCallback ----------------------------
(***************************************************************************)
(* AuthCallbackListener inside the activation task: the worker listens on  *)
(* a local port, hands connections to readHttpRequest() one by one, and    *)
(* looks at breakCurrentTask only in between.  close() does nothing, so    *)
(* the port stays open between activations; createListener() closes it     *)
(* before it opens another.  The threads are those of WorkerHandoff, whose *)
(* assumption that a broken activation ends is looked at here: it does,    *)
(* unless a client of the port keeps sending.                              *)
(***************************************************************************)
EXTENDS WorkerHandoff, Naturals, Sequences

CONSTANT MaxConnections     \* bound of the connections made

ASSUME ConnectionsAssumption == MaxConnections \in Nat

VARIABLES
    place,      \* where runStartActivationTask() is
    bound,      \* whether _socket listens
    backlog,    \* connections that wait to be accepted
    client,     \* the connection accepted last by this activation
    made        \* how many connections were made

listener == <<place, bound, backlog, client, made>>
listenerVars == <<vars, listener>>

(* A connection: what it asks for - the callback with ok=true, without it, *)
(* with a redirect that is not allowed, or another page -; how much of     *)
(* that it sends before it stalls or closes, if it ever does; and whether  *)
(* it was made for the activation that is waiting, which the program does  *)
(* not know.                                                               *)
Connection(asks, sends, own) == [asks |-> asks, sends |-> sends, own |-> own]

Connections ==
    [asks : {"ok", "notOk", "refused", "other"},
     sends : {"nothing", "path", "line", "endless"}, own : BOOLEAN]

NoClient == Connection("other", "nothing", FALSE)

Waiting == place \in {"polling", "accepting", "reading"}

ListenerTypeOK ==
    /\ place \in {"off", "begin", "listen", "polling", "accepting", "reading",
                  "complete", "failed", "nothing"}
    /\ bound \in BOOLEAN
    /\ backlog \in Seq(Connections)
    /\ client \in Connections
    /\ made \in 0..MaxConnections
    /\ Waiting => bound
    /\ backlog # <<>> => bound

ListenerInit ==
    /\ Init
    /\ place = "off"
    /\ bound = FALSE
    /\ backlog = <<>>
    /\ client = NoClient
    /\ made = 0

-----------------------------------------------------------------------------
(* The rest of the unlocker.                                               *)

MessageThread ==
    /\ \/ Startup
       \/ StartActivation
       \/ RetryUnlocking
       \/ CheckActivationEvent
       \/ Logout
       \/ Destroy
       \/ HandleAsyncUpdate
    /\ UNCHANGED listener

MessageThreadContinues == CallerStep /\ UNCHANGED listener

WorkerContinues ==
    /\ RunLoop \/ WakeUp \/ CheckExit \/ WorkerNotify
    /\ UNCHANGED listener

WorkerTakesTask ==
    /\ TakeTask
    /\ place' = IF pendingTask = "startActivation" THEN "begin" ELSE "off"
    /\ UNCHANGED <<bound, backlog, client, made>>

OtherTaskEnds ==
    /\ currentTask # "startActivation"
    /\ TaskEnds
    /\ UNCHANGED listener

-----------------------------------------------------------------------------
(* The activation.                                                         *)

Disown == [i \in DOMAIN backlog |-> [backlog[i] EXCEPT !.own = FALSE]]

\* The first taskShouldExit() and startAuth()
BeginActivation ==
    /\ place = "begin"
    /\ IF TaskShouldExit THEN place' = "nothing"
       ELSE place' \in {"listen", "failed"}
    /\ UNCHANGED <<vars, bound, backlog, client, made>>

\* Mutant: a port that is open is used again.
KeepListenerPort ==
    IF bound THEN UNCHANGED <<bound, backlog>>
    ELSE bound' \in BOOLEAN /\ backlog' = <<>>

\* Each attempt closes the port that was open, with the connections that wait
\* there; all may fail.
CreateListenerPort == bound' \in BOOLEAN /\ backlog' = <<>>

\* createListenerOnRandomPort()
CreateListener ==
    /\ place = "listen"
    /\ CreateListenerPort
    /\ place' = IF bound' THEN "polling" ELSE "failed"
    /\ UNCHANGED <<vars, client, made>>

\* Mutant: the flag is looked at once.
PollWithoutLooking ==
    /\ place = "polling"
    /\ place' = "accepting"
    /\ UNCHANGED <<vars, bound, backlog, client, made>>

\* The condition of the loop
Poll ==
    /\ place = "polling"
    /\ place' = IF breakCurrentTask THEN "nothing" ELSE "accepting"
    /\ UNCHANGED <<vars, bound, backlog, client, made>>

\* waitUntilReady() and waitForNextConnection(), which may find that the
\* connection is gone.
Accept ==
    /\ place = "accepting"
    /\ IF backlog = <<>> THEN place' = "polling" /\ UNCHANGED <<backlog, client>>
       ELSE /\ backlog' = Tail(backlog)
            /\ \/ client' = Head(backlog) /\ place' = "reading"
               \/ client' = client /\ place' = "polling"
    /\ UNCHANGED <<vars, bound, made>>

\* Mutant: whatever arrives ends the wait.
AnswerAny(c) == IF c.asks = "ok" /\ c.sends = "line" THEN "complete" ELSE "nothing"

\* Where the task goes with the answer: 404 and on with the loop, 200 or 302
\* and on with the activation, or 200, 302 or 400 and the end of it.  A line
\* cut off after the path has no parameters.
Answer(c) ==
    CASE c.asks = "other" \/ c.sends = "nothing" -> "polling"
      [] c.asks = "ok" /\ c.sends = "line" -> "complete"
      [] OTHER -> "nothing"

\* readHttpRequest(), which ends when the client stalls for a second, closes,
\* or has sent its request, and the answer to it.  Nothing else ends it: it
\* does not look at the flag, nor at the time it has taken.
ReadHttpRequest ==
    /\ place = "reading"
    /\ client.sends # "endless"
    /\ place' = Answer(client)
    /\ UNCHANGED <<vars, bound, backlog, client, made>>

\* Mutant: a failure takes the product back to the unlocking it came from.
ResultsUnlocking ==
    CASE place = "failed" -> {TaskResult("unlocking", TRUE, "none")}
      [] place = "nothing" -> {NoResult}
      [] place = "complete" /\ TaskShouldExit -> {NoResult}
      [] place = "complete" /\ ~TaskShouldExit -> ActivationResults
      [] OTHER -> {}

Results ==
    CASE place = "failed" -> {TaskResult("activationRequired", TRUE, "none")}
      [] place = "nothing" -> {NoResult}
      [] place = "complete" /\ TaskShouldExit -> {NoResult}
      [] place = "complete" /\ ~TaskShouldExit -> ActivationResults
      [] OTHER -> {}

ActivationEnds ==
    /\ \E res \in Results : HandleTaskResult(res)
    /\ place' = "off"
    /\ client' = NoClient
    /\ backlog' = Disown
    /\ UNCHANGED <<bound, made>>

Activation ==
    \/ BeginActivation
    \/ CreateListener
    \/ Poll
    \/ Accept
    \/ ReadHttpRequest
    \/ ActivationEnds

\* A browser, or anybody else on this computer, connects to the open port.
\* What an endless request asks for is never looked at.
Connect ==
    /\ bound
    /\ made < MaxConnections
    /\ made' = made + 1
    /\ \E c \in Connections :
         /\ c.own = Waiting
         /\ c.asks = "other" => c.sends \in {"line", "endless"}
         /\ c.sends = "endless" => c.asks = "other"
         /\ c.asks \in {"notOk", "refused"} => c.sends # "nothing"
         /\ backlog' = Append(backlog, c)
    /\ UNCHANGED <<vars, place, bound, client>>

ListenerNext ==
    \/ MessageThread
    \/ MessageThreadContinues
    \/ WorkerContinues
    \/ WorkerTakesTask
    \/ OtherTaskEnds
    \/ Activation
    \/ Connect

ListenerSpec == ListenerInit /\ [][ListenerNext]_listenerVars

(* As in WorkerHandoff, except that it is not assumed that a broken        *)
(* activation ends: the worker goes on with each of its steps that can be  *)
(* done, and web requests have timeouts.  A client owes nothing.           *)
ListenerFairness ==
    /\ WF_listenerVars(MessageThreadContinues)
    /\ WF_listenerVars(WorkerContinues \/ WorkerTakesTask)
    /\ WF_listenerVars(OtherTaskEnds)
    /\ WF_listenerVars(Activation)
    /\ SF_listenerVars(HandleAsyncUpdate /\ UNCHANGED listener)

FairListenerSpec == ListenerSpec /\ ListenerFairness

-----------------------------------------------------------------------------
(* Properties.                                                             *)

\* The activation task, whatever connects, returns only the results that
\* WorkerHandoff takes from one (runStartActivationTask(), waitForRequest()).
KeepsToHandoff == Spec

\* readHttpRequest() has a client that sends and sends, and no blank line.
HeldByClient == place = "reading" /\ client.sends = "endless"

\* An activation that is broken - by a logout, a new activation or another
\* instance's, or by the destructor, which waits for it - ends, whatever
\* connects, stalls or asks for something else (waitForRequest()): but for a
\* client that keeps sending, what Fairness of WorkerHandoff assumes.
BrokenActivationEnds ==
    currentTask = "startActivation" /\ breakCurrentTask
        ~> currentTask # "startActivation" \/ HeldByClient

\* What lets an activation go on is a complete callback with ok=true made
\* while it was waiting: neither a request cut off after the path nor one
\* left over from an earlier activation, whose port stays open, does.
OnlyOwnCallbackCompletes ==
    place = "complete" =>
        /\ client.own
        /\ client.asks = "ok" /\ client.sends = "line"

Spoils(c) == c.asks # "other" /\ c.sends # "nothing" /\ Answer(c) # "complete"

\* A browser that comes back with ok=true is heard although others connect
\* before it, ask for other pages or stall: the activation goes on, unless it
\* was broken, the connection was dropped, another callback ended the wait, or
\* a client that keeps sending was accepted first.
CallbackIsHeard ==
    Waiting /\ (\E i \in DOMAIN backlog : Answer(backlog[i]) = "complete")
        ~> \/ place = "complete"
           \/ place = "nothing" /\ (breakCurrentTask \/ Spoils(client))
           \/ backlog = <<>>
           \/ HeldByClient
=============================================================================
