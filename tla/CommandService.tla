--------------------------- MODULE CommandService ---------------------------
(***************************************************************************)
(* What the headless emulator promises to whoever writes numbered command  *)
(* files into its run directory: commands are carried out in the order of  *)
(* their numbers, each at most once, and each gets one answer that is true *)
(* and never changes, whatever happens to the emulator's process.          *)
(***************************************************************************)
EXTENDS Naturals

CONSTANT Last       \* the number of the last command

VARIABLES
    sent,           \* the numbers of the commands that are there
    invocations,    \* how often each was carried out
    answer          \* the outcome reported for each

vars == <<sent, invocations, answer>>

Numbers == 1..Last
Outcomes == {"completed", "failed", "rejected", "interrupted"}
NoAnswer == "none"

\* All commands before s are answered and s is not.
IsNext(s) ==
    /\ s \in sent
    /\ answer[s] = NoAnswer
    /\ \A t \in 1..(s - 1) : answer[t] # NoAnswer

Init ==
    /\ sent = {}
    /\ invocations = [s \in Numbers |-> 0]
    /\ answer = [s \in Numbers |-> NoAnswer]

Send(s) ==
    /\ sent' = sent \cup {s}
    /\ UNCHANGED <<invocations, answer>>

Invoke(s) ==
    /\ IsNext(s)
    /\ invocations[s] = 0
    /\ invocations' = [invocations EXCEPT ![s] = 1]
    /\ UNCHANGED <<sent, answer>>

\* "interrupted" leaves open whether the command was carried out.
Answer(s, outcome) ==
    /\ IsNext(s)
    /\ outcome \in {"completed", "failed"} => invocations[s] = 1
    /\ outcome = "rejected" => invocations[s] = 0
    /\ answer' = [answer EXCEPT ![s] = outcome]
    /\ UNCHANGED <<sent, invocations>>

Next ==
    \E s \in Numbers :
        \/ Send(s)
        \/ Invoke(s)
        \/ \E outcome \in Outcomes : Answer(s, outcome)

Spec == Init /\ [][Next]_vars
=============================================================================
