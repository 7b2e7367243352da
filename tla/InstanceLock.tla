---------------------------- MODULE InstanceLock ----------------------------
(***************************************************************************)
(* lock.json, by which the instances that share a licence directory try to *)
(* send one access request at a time: UnlockerImpl::acquireInstanceLock(). *)
(* An instance reads the file, replaces it, and reads it again; nobody     *)
(* ever deletes it, it expires.                                            *)
(*                                                                         *)
(* Only time differences matter, so there is no clock: the file keeps how  *)
(* long its lock is still good for, an instance how long ago it read the   *)
(* clock, and both change with every Tick.                                 *)
(***************************************************************************)
EXTENDS Integers

CONSTANTS
    Instances,
    Stranger,   \* the owner named by a lock file from an earlier session
    Lease       \* instanceLockMs, in ticks

ASSUME LeaseAssumption == Lease \in Nat \ {0}
ASSUME StrangerAssumption == Stranger \notin Instances

VARIABLES
    owner,      \* whom the file names; Stranger also when there is no file
    goodFor,    \* ticks until the lock in the file expires
    pc,         \* where each instance is
    age         \* ticks since it read the clock for expiresAt, at most Lease

lockVars == <<owner, goodFor, pc, age>>

Places == {"idle", "write", "verify", "holding", "crashed"}

LockTypeOK ==
    /\ owner \in Instances \cup {Stranger}
    /\ goodFor \in 0..Lease
    /\ pc \in [Instances -> Places]
    /\ age \in [Instances -> 0..Lease]

LockInit ==
    /\ owner = Stranger
    /\ goodFor \in 0..Lease
    /\ pc = [i \in Instances |-> "idle"]
    /\ age = [i \in Instances |-> 0]

-----------------------------------------------------------------------------
\* Mutant: a lock that another instance left behind is never ignored.
ReadRespectingOwner(i) ==
    /\ pc[i] = "idle"
    /\ owner \in {i, Stranger}
    /\ pc' = [pc EXCEPT ![i] = "write"]
    /\ age' = [age EXCEPT ![i] = 0]
    /\ UNCHANGED <<owner, goodFor>>

\* An unexpired lock ends the attempt, and nothing has changed.
ReadLock(i) ==
    /\ pc[i] = "idle"
    /\ goodFor = 0
    /\ pc' = [pc EXCEPT ![i] = "write"]
    /\ age' = [age EXCEPT ![i] = 0]
    /\ UNCHANGED <<owner, goodFor>>

\* Mutant: expiresAt counts from the time of writing.
WriteFromNow(i) ==
    /\ pc[i] = "write"
    /\ owner' = i
    /\ goodFor' = Lease
    /\ pc' = [pc EXCEPT ![i] = "verify"]
    /\ UNCHANGED age

\* expiresAt counts from the time of reading.  The file is replaced in one
\* piece, or not at all.
WriteLock(i) ==
    /\ pc[i] = "write"
    /\ \/ /\ owner' = i
          /\ goodFor' = Lease - age[i]
          /\ pc' = [pc EXCEPT ![i] = "verify"]
       \/ /\ pc' = [pc EXCEPT ![i] = "idle"]
          /\ UNCHANGED <<owner, goodFor>>
    /\ UNCHANGED age

VerifyLock(i) ==
    /\ pc[i] = "verify"
    /\ pc' = [pc EXCEPT ![i] = IF owner = i /\ goodFor > 0
                               THEN "holding" ELSE "idle"]
    /\ UNCHANGED <<owner, goodFor, age>>

\* The request that the lock was taken for is over; the lock stays behind.
LeaveLock(i) ==
    /\ pc[i] = "holding"
    /\ pc' = [pc EXCEPT ![i] = "idle"]
    /\ UNCHANGED <<owner, goodFor, age>>

Attempt(i) == ReadLock(i) \/ WriteLock(i) \/ VerifyLock(i) \/ LeaveLock(i)

\* The process of an instance ends at any point.
Crash(i) ==
    /\ pc[i] # "crashed"
    /\ pc' = [pc EXCEPT ![i] = "crashed"]
    /\ UNCHANGED <<owner, goodFor, age>>

Tick ==
    /\ goodFor' = IF goodFor > 0 THEN goodFor - 1 ELSE 0
    /\ age' = [i \in Instances |->
                 IF pc[i] \in {"write", "verify", "holding"} /\ age[i] < Lease
                 THEN age[i] + 1 ELSE age[i]]
    /\ UNCHANGED <<owner, pc>>

LockNext ==
    \/ \E i \in Instances : Attempt(i) \/ Crash(i)
    \/ Tick

LockSpec == LockInit /\ [][LockNext]_lockVars

(* Time passes, and an instance that is refused tries again: a task that   *)
(* did not get the lock queues itself with a delay.  A write to the file   *)
(* succeeds now and then, and the instance is not delayed for a whole      *)
(* lease between its steps every time.                                     *)
LockFairness ==
    /\ WF_lockVars(Tick)
    /\ \A i \in Instances :
         /\ WF_lockVars(Attempt(i))
         /\ SF_lockVars(ReadLock(i))
         /\ SF_lockVars(WriteLock(i) /\ pc'[i] = "verify" /\ goodFor' > 0)
         /\ SF_lockVars(VerifyLock(i) /\ pc'[i] = "holding")

FairLockSpec == LockSpec /\ LockFairness

-----------------------------------------------------------------------------
(* Properties.                                                             *)

\* The file and the instance it names agree on how long the lock lasts, also
\* when the instance was slow between reading and writing: while it is within
\* its lease and not overwritten, nobody new gets past the first look.
LeaseAgrees ==
    \A i \in Instances :
        owner = i /\ pc[i] \in {"verify", "holding"} => goodFor = Lease - age[i]

\* A lock that nobody will use any more, because its owner crashed at any
\* point of the protocol, delays the others but does not keep them out: an
\* instance left alone holds the lock again and again.
SurvivorAcquires ==
    \A i \in Instances :
        <>[](\A j \in Instances : pc[j] = "crashed" <=> j # i)
            => []<>(pc[i] = "holding")

Holds(i) == pc[i] = "holding" /\ age[i] < Lease

\* docs/inlay_product_unlocking.md:342 calls lock.json the "Lightweight
\* cross-instance lock used while refreshing access": two instances do not
\* both believe to hold it within their own lease.
MutualExclusion == \A i, j \in Instances : Holds(i) /\ Holds(j) => i = j
=============================================================================
