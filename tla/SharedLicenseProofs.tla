------------------------ MODULE SharedLicenseProofs ------------------------
(***************************************************************************)
(* SharedLicense for any instances, times and bounds: its types, and how   *)
(* often one activation event takes an instance out of activationRequired. *)
(***************************************************************************)
EXTENDS SharedLicense, TLAPS

\* Reactions to one event are at least Poll apart on the age of the event,
\* counted with the timer that is to fire next; while the clock was not set
\* back the age says how much time has passed.
Paced(i) ==
    reactions[i] > 0 =>
        /\ (reactions[i] - 1) * Poll <= Freshness
        /\ \/ age > Freshness
           \/ timer[i] = Off /\ age >= (reactions[i] - 1) * Poll
           \/ timer[i] # Off /\ age + timer[i] >= reactions[i] * Poll

AllPaced == ~setBack => age >= 0 /\ \A i \in Instances : Paced(i)

-----------------------------------------------------------------------------
(* Types.                                                                  *)

LEMMA TypeStep == TypeOK /\ [Next]_vars => TypeOK'
<1> SUFFICES ASSUME TypeOK, [Next]_vars PROVE TypeOK'
  OBVIOUS
<1> USE TimesAssumption, RequestsAssumption
    DEF TypeOK, Off, Steps, Slow, files, event, threads, history, unseen
<1>0. ASSUME NEW i \in Instances, NEW task \in {"none", "startup", "activation"},
             NEW newStatus \in {"activationRequired", "unlocking"},
             Prepare(i, newStatus, task)
      PROVE  /\ status' \in [Instances -> {"undefined", "activationRequired",
                                           "unlocking", "failed", "unlocked"}]
             /\ queued' \in [Instances -> {"none", "startup", "activation", "refresh"}]
             /\ broken' \in [Instances -> BOOLEAN]
             /\ update' \in [Instances -> BOOLEAN]
  BY <1>0 DEF Prepare
<1>1. ASSUME NEW i \in Instances, Startup(i) PROVE TypeOK'
  BY <1>1, <1>0 DEF Startup
<1>2. ASSUME NEW i \in Instances, UserRequest(i) PROVE TypeOK'
  <2>1. /\ requests' \in 0..MaxRequests
        /\ {idFile', accessFile', removed'} \subseteq BOOLEAN
    <3>1. requests < MaxRequests /\ requests' = requests + 1 /\ requests \in 0..MaxRequests
      BY <1>2 DEF UserRequest
    <3>2. requests' \in 0..MaxRequests
      BY <3>1
    <3>3. {idFile', accessFile', removed'} \subseteq BOOLEAN
      BY <1>2 DEF UserRequest
    <3> QED
      BY <3>2, <3>3
  <2>2. \E newStatus \in {"activationRequired", "unlocking"},
           task \in {"none", "startup", "activation"} : Prepare(i, newStatus, task)
    BY <1>2 DEF UserRequest
  <2> QED
    BY <1>2, <2>1, <2>2, <1>0 DEF UserRequest
<1>3. ASSUME NEW i \in Instances, HandleAsyncUpdate(i) PROVE TypeOK'
  BY <1>3 DEF HandleAsyncUpdate
<1>4. ASSUME NEW i \in Instances, CheckActivationEvent(i) PROVE TypeOK'
  <2>1. CASE ShouldReactToActivationEvent(i) /\ status[i] = "activationRequired"
    BY <1>4, <2>1, <1>0 DEF CheckActivationEvent
  <2>2. CASE ~(ShouldReactToActivationEvent(i) /\ status[i] = "activationRequired")
    BY <1>4, <2>2 DEF CheckActivationEvent
  <2> QED
    BY <2>1, <2>2
<1>5. ASSUME NEW i \in Instances, Worker(i) PROVE TypeOK'
  <2>1. ASSUME NEW newStatus \in {"activationRequired", "unlocking", "failed",
                                  "unlocked", status[i]},
               NEW task \in {"none", "startup", "refresh"},
               Return(i, newStatus, task)
        PROVE  /\ UNCHANGED <<event, timer, requests, setBack, reactions>>
               /\ status' \in [Instances -> {"undefined", "activationRequired",
                                             "unlocking", "failed", "unlocked"}]
               /\ queued' \in [Instances -> {"none", "startup", "activation", "refresh"}]
               /\ step' \in [Instances -> Steps]
               /\ broken' \in [Instances -> BOOLEAN]
               /\ update' \in [Instances -> BOOLEAN]
    BY <2>1 DEF Return
  <2>2. ASSUME NEW next \in Steps, Goto(i, next)
        PROVE  UNCHANGED unseen /\ step' \in [Instances -> Steps]
    BY <2>2 DEF Goto
  <2>3. CASE TakeTask(i)
    BY <2>3 DEF TakeTask
  <2>4. CASE ReadTokens(i)
    BY <2>4, <2>1, <2>2 DEF ReadTokens
  <2>5. CASE RefreshAccess(i)
    BY <2>5, <2>1, <2>2 DEF RefreshAccess
  <2>6. CASE RequestAccess(i)
    BY <2>6, <2>1, <2>2 DEF RequestAccess
  <2>7. CASE DeleteTokens(i)
    BY <2>7, <2>1 DEF DeleteTokens
  <2>8. CASE CompleteActivation(i)
    BY <2>8, <2>1, <2>2 DEF CompleteActivation
  <2>9. CASE WriteTokens(i)
    BY <2>9, <2>1 DEF WriteTokens
  <2>10. CASE TriggerActivationEvent(i)
    BY <2>10 DEF TriggerActivationEvent
  <2>11. CASE AcquireLock(i) \/ LockIsTaken(i)
    BY <2>11, <2>2 DEF AcquireLock, LockIsTaken
  <2> QED
    BY <1>5, <2>3, <2>4, <2>5, <2>6, <2>7, <2>8, <2>9, <2>10, <2>11 DEF Worker
<1>6. CASE Tick
  BY <1>6 DEF Tick, MayPass
<1>7. CASE Expire
  BY <1>7 DEF Expire
<1>8. CASE SetClockBack
  BY <1>8 DEF SetClockBack
<1>9. CASE UNCHANGED vars
  BY <1>9 DEF vars
<1> QED
  BY <1>1, <1>2, <1>3, <1>4, <1>5, <1>6, <1>7, <1>8, <1>9 DEF Next, MessageThread

\* Every variable stays within its type; above all the age of the event and
\* the timers, for which TLC needs bounds.
THEOREM SharedTypeCorrect == Spec => []TypeOK
<1>1. Init => TypeOK
  <2> SUFFICES ASSUME Init PROVE TypeOK
    OBVIOUS
  <2>1. /\ age \in (-MaxSetBack)..(Freshness + 1)
        /\ Off \in (-MaxLate)..Off
        /\ requests \in 0..MaxRequests
    BY TimesAssumption, RequestsAssumption DEF Init, Off
  <2> QED
    BY <2>1 DEF Init, TypeOK, Steps
<1> QED
  BY <1>1, TypeStep, PTL DEF Spec

-----------------------------------------------------------------------------
(* The pace of reactions.                                                  *)

\* What the pace depends on changes in five actions only.
LEMMA PaceKept ==
    ASSUME TypeOK, [Next]_vars,
           ~ \E i \in Instances : HandleAsyncUpdate(i) \/ CheckActivationEvent(i)
                                    \/ TriggerActivationEvent(i),
           ~Tick, ~SetClockBack
    PROVE  UNCHANGED <<setBack, age, timer, reactions>>
<1> USE DEF files, event, threads, history, unseen
<1>1. ASSUME NEW i \in Instances, Startup(i) \/ UserRequest(i)
      PROVE  UNCHANGED <<setBack, age, timer, reactions>>
  BY <1>1 DEF Startup, UserRequest
<1>2. ASSUME NEW i \in Instances, Worker(i)
      PROVE  UNCHANGED <<setBack, age, timer, reactions>>
  <2>1. ASSUME NEW newStatus, NEW task, Return(i, newStatus, task)
        PROVE  UNCHANGED <<setBack, age, timer, reactions>>
    BY <2>1 DEF Return
  <2>2. ASSUME NEW next, Goto(i, next)
        PROVE  UNCHANGED <<setBack, age, timer, reactions>>
    BY <2>2 DEF Goto
  <2> QED
    BY <1>2, <2>1, <2>2 DEF Worker, TakeTask, ReadTokens, AcquireLock, LockIsTaken, RefreshAccess,
       RequestAccess, DeleteTokens, CompleteActivation, WriteTokens
<1> QED
  BY <1>1, <1>2 DEF Next, MessageThread, Expire, vars

LEMMA PaceStep == TypeOK /\ AllPaced /\ [Next]_vars => AllPaced'
<1> SUFFICES ASSUME TypeOK, AllPaced, [Next]_vars PROVE AllPaced'
  OBVIOUS
<1> USE TimesAssumption DEF TypeOK, AllPaced, Paced, Off
<1>1. ASSUME NEW i \in Instances, HandleAsyncUpdate(i) PROVE AllPaced'
  <2> SUFFICES ASSUME ~setBack', NEW k \in Instances PROVE Paced(k)' /\ age' >= 0
    OBVIOUS
  <2>1. /\ ~setBack /\ age' = age /\ age >= 0 /\ reactions' = reactions
        /\ timer'[k] \in {timer[k], Off, Poll}
        /\ timer'[k] = Poll => timer[k] \in {Poll, Off}
    BY <1>1 DEF HandleAsyncUpdate, history, event
  <2>2. reactions[k] \in Nat /\ timer[k] \in (-MaxLate)..Off /\ age \in Int
    OBVIOUS
  <2> QED
    BY <2>1, <2>2
<1>2. ASSUME NEW i \in Instances, CheckActivationEvent(i) PROVE AllPaced'
  <2> SUFFICES ASSUME ~setBack', NEW k \in Instances PROVE Paced(k)' /\ age' >= 0
    OBVIOUS
  <2>1. ~setBack /\ age' = age /\ age \in Int /\ age >= 0 /\ timer[i] <= 0
    BY <1>2 DEF CheckActivationEvent, event
  <2>2. reactions[k] \in Nat /\ timer[k] \in (-MaxLate)..Off
    OBVIOUS
  <2>3. CASE k # i
    BY <1>2, <2>1, <2>2, <2>3 DEF CheckActivationEvent
  <2>4. CASE k = i /\ reactions'[i] = reactions[i]
    BY <1>2, <2>1, <2>2, <2>4 DEF CheckActivationEvent
  <2>5. CASE k = i /\ reactions'[i] # reactions[i]
    <3>1. reactions'[i] = reactions[i] + 1 /\ timer'[i] = Poll /\ age <= Freshness
      BY <1>2, <2>5 DEF CheckActivationEvent, ShouldReactToActivationEvent
    <3>2. reactions[i] * Poll <= age
      <4>1. CASE reactions[i] = 0
        BY <4>1, <2>1
      <4>2. CASE reactions[i] > 0
        <5>1. age + timer[i] >= reactions[i] * Poll
          BY <4>2, <2>1, <2>2, <2>5, <3>1
        <5>2. reactions[i] * Poll \in Int
          BY <2>2, <2>5
        <5> QED
          BY <5>1, <5>2, <2>1, <2>2, <2>5
      <4> QED
        BY <4>1, <4>2, <2>2, <2>5
    <3> QED
      BY <2>1, <2>2, <2>5, <3>1, <3>2
  <2> QED
    BY <2>3, <2>4, <2>5
<1>3. ASSUME NEW i \in Instances, TriggerActivationEvent(i) PROVE AllPaced'
  <2>1. CASE UNCHANGED <<event, reactions>>
    BY <1>3, <2>1 DEF TriggerActivationEvent, event
  <2>2. CASE age' = 0 /\ reactions' = [j \in Instances |-> 0]
    BY <1>3, <2>2 DEF TriggerActivationEvent
  <2> QED
    BY <1>3, <2>1, <2>2 DEF TriggerActivationEvent
<1>4. CASE Tick
  <2>0. ~setBack' => age' >= 0
    BY <1>4 DEF Tick, history
  <2> SUFFICES ASSUME ~setBack', NEW k \in Instances PROVE Paced(k)'
    BY <2>0
  <2>1. /\ ~setBack /\ reactions' = reactions /\ age \in Int /\ age >= 0
        /\ reactions[k] \in Nat /\ timer[k] \in (-MaxLate)..Off
        /\ age' = IF age <= Freshness THEN age + 1 ELSE age
        /\ timer'[k] = IF timer[k] = Off THEN Off ELSE timer[k] - 1
    BY <1>4 DEF Tick, history
  <2>2. reactions[k] * Poll \in Int /\ (reactions[k] - 1) * Poll \in Int
    BY <2>1
  <2> QED
    BY <2>1, <2>2
<1>5. CASE SetClockBack
  BY <1>5 DEF SetClockBack
<1> QED
  BY <1>1, <1>2, <1>3, <1>4, <1>5, PaceKept

\* However many instances there are and whatever they do, one event makes
\* each of them react at most Freshness \div Poll + 1 times.
THEOREM ReactionsAreBounded == Spec => []BoundedReactions
<1>1. Init => AllPaced
  BY TimesAssumption DEF Init, AllPaced, Paced
<1>2. TypeOK /\ AllPaced => BoundedReactions
  BY DEF TypeOK, AllPaced, Paced, BoundedReactions
<1> QED
  BY <1>1, <1>2, PaceStep, SharedTypeCorrect, PTL DEF Spec

-----------------------------------------------------------------------------
(* What an announcement stands for.                                        *)

\* Who sends a request or is about to announce has seen or written the
\* identity, and it stays there unless somebody removes it.
IdentityKept ==
    ~removed =>
        /\ writer # Nobody => idFile
        /\ \A i \in Instances : step[i] \in {"request", "announce"} => idFile

LEMMA IdentityStep == TypeOK /\ IdentityKept /\ [Next]_vars => IdentityKept'
<1> SUFFICES ASSUME TypeOK, IdentityKept, [Next]_vars, ~removed' PROVE IdentityKept'
  BY DEF IdentityKept
<1> USE DEF IdentityKept, TypeOK, files, event, threads, history, unseen
<1>1. ASSUME NEW i \in Instances, Startup(i) PROVE IdentityKept'
  BY <1>1 DEF Startup
<1>2. ASSUME NEW i \in Instances, UserRequest(i) PROVE IdentityKept'
  BY <1>2 DEF UserRequest
<1>3. ASSUME NEW i \in Instances, MessageThread(i) PROVE IdentityKept'
  BY <1>3 DEF MessageThread, HandleAsyncUpdate, CheckActivationEvent
<1>4. ASSUME NEW i \in Instances, Worker(i) PROVE IdentityKept'
  <2>1. ASSUME NEW newStatus, NEW task, Return(i, newStatus, task)
        PROVE  /\ writer' = writer
               /\ \/ step' = [step EXCEPT ![i] = "idle"]
                  \/ /\ step' = [step EXCEPT ![i] = "announce"]
                     /\ newStatus = "unlocked" /\ newStatus # status[i]
    BY <2>1 DEF Return
  <2>2. ASSUME NEW next, Goto(i, next)
        PROVE  writer' = writer /\ step' = [step EXCEPT ![i] = next]
    BY <2>2 DEF Goto
  <2>3. CASE TakeTask(i)
    BY <2>3 DEF TakeTask
  <2>4. CASE ReadTokens(i)
    BY <2>4, <2>1 DEF ReadTokens
  <2>5. CASE RefreshAccess(i)
    <3>1. UNCHANGED <<idFile, removed>>
      BY <2>5 DEF RefreshAccess
    <3>2. CASE Return(i, "unlocking", "startup")
      BY <3>1, <3>2, <2>1
    <3>3. CASE Return(i, status[i], "none")
      BY <3>1, <3>3, <2>1
    <3>4. CASE Goto(i, "delete")
      BY <3>1, <3>4, <2>2
    <3> QED
      BY <2>5, <3>2, <3>3, <3>4 DEF RefreshAccess
  <2>6. CASE RequestAccess(i)
    BY <2>6, <2>1, <2>2 DEF RequestAccess
  <2>7. CASE DeleteTokens(i)
    BY <2>7 DEF DeleteTokens
  <2>8. CASE CompleteActivation(i)
    BY <2>8, <2>1, <2>2 DEF CompleteActivation
  <2>9. CASE WriteTokens(i)
    <3>1. idFile => idFile'
      BY <2>9 DEF WriteTokens
    <3>2. CASE Return(i, status[i], "none")
      BY <3>1, <3>2, <2>1, <2>9 DEF WriteTokens
    <3>3. CASE Return(i, "unlocked", "none") /\ idFile' = TRUE
      BY <3>3, <2>1, <2>9 DEF WriteTokens
    <3> QED
      BY <2>9, <3>2, <3>3 DEF WriteTokens
  <2>10. CASE TriggerActivationEvent(i)
    BY <2>10 DEF TriggerActivationEvent
  <2>11. CASE AcquireLock(i) \/ LockIsTaken(i)
    BY <2>11, <2>2 DEF AcquireLock, LockIsTaken
  <2> QED
    BY <1>4, <2>3, <2>4, <2>5, <2>6, <2>7, <2>8, <2>9, <2>10, <2>11 DEF Worker
<1>5. CASE Tick \/ Expire \/ SetClockBack \/ UNCHANGED vars
  BY <1>5 DEF Tick, Expire, SetClockBack, vars
<1> QED
  BY <1>1, <1>2, <1>3, <1>4, <1>5 DEF Next

\* An announced activation is on disk for whoever it wakes, unless somebody
\* logged out or was rejected.
THEOREM AnnouncementsHold == Spec => []AnnouncedIsOnDisk
<1>1. Init => IdentityKept
  BY DEF Init, IdentityKept
<1>2. IdentityKept => AnnouncedIsOnDisk
  BY DEF IdentityKept, AnnouncedIsOnDisk
<1> QED
  BY <1>1, <1>2, IdentityStep, SharedTypeCorrect, PTL DEF Spec
=============================================================================
