------------------------ MODULE DirectoryFilesProofs ------------------------
(***************************************************************************)
(* Two protocols over files of the licence directory: lock.json, for any   *)
(* set of instances and any lease, and the pair of update.json and         *)
(* skipped-update.json, for any set of versions and also where files fail  *)
(* to be written.  The third, activation-event.json, is in                 *)
(* SharedLicenseProofs.                                                    *)
(***************************************************************************)
EXTENDS AppUpdates, InstanceLock, TLAPS

-----------------------------------------------------------------------------
(* lock.json                                                               *)

\* LockTypeOK is inductive: no interleaving, crash or failed write takes the file
\* or an instance's count out of the lease.
LEMMA LockTypeStep == LockTypeOK /\ [LockNext]_lockVars => LockTypeOK'
<1> SUFFICES ASSUME LockTypeOK, [LockNext]_lockVars PROVE LockTypeOK'
  OBVIOUS
<1> USE LeaseAssumption, StrangerAssumption DEF LockTypeOK, Places
<1>1. ASSUME NEW i \in Instances, ReadLock(i) PROVE LockTypeOK'
  BY <1>1 DEF ReadLock
<1>2. ASSUME NEW i \in Instances, WriteLock(i) PROVE LockTypeOK'
  BY <1>2 DEF WriteLock
<1>3. ASSUME NEW i \in Instances, VerifyLock(i) PROVE LockTypeOK'
  BY <1>3 DEF VerifyLock
<1>4. ASSUME NEW i \in Instances, LeaveLock(i) PROVE LockTypeOK'
  BY <1>4 DEF LeaveLock
<1>5. ASSUME NEW i \in Instances, Crash(i) PROVE LockTypeOK'
  BY <1>5 DEF Crash
<1>6. CASE Tick
  BY <1>6 DEF Tick
<1>7. CASE UNCHANGED lockVars
  BY <1>7 DEF lockVars
<1> QED
  BY <1>1, <1>2, <1>3, <1>4, <1>5, <1>6, <1>7 DEF LockNext, Attempt

\* Only the instance that writes becomes the owner, and it counts from the
\* time it read the clock, so the agreement survives every step.
LEMMA AgreementStep == LockTypeOK /\ LeaseAgrees /\ [LockNext]_lockVars => LeaseAgrees'
<1> SUFFICES ASSUME LockTypeOK, LeaseAgrees, [LockNext]_lockVars,
                    NEW k \in Instances, owner' = k,
                    pc'[k] \in {"verify", "holding"}
             PROVE  goodFor' = Lease - age'[k]
  BY DEF LeaseAgrees
<1> USE LeaseAssumption, StrangerAssumption DEF LockTypeOK, Places, LeaseAgrees
<1>1. ASSUME NEW i \in Instances, ReadLock(i)
      PROVE  goodFor' = Lease - age'[k]
  BY <1>1 DEF ReadLock
<1>2. ASSUME NEW i \in Instances, WriteLock(i)
      PROVE  goodFor' = Lease - age'[k]
  BY <1>2 DEF WriteLock
<1>3. ASSUME NEW i \in Instances, VerifyLock(i)
      PROVE  goodFor' = Lease - age'[k]
  BY <1>3 DEF VerifyLock
<1>4. ASSUME NEW i \in Instances, LeaveLock(i)
      PROVE  goodFor' = Lease - age'[k]
  BY <1>4 DEF LeaveLock
<1>5. ASSUME NEW i \in Instances, Crash(i)
      PROVE  goodFor' = Lease - age'[k]
  BY <1>5 DEF Crash
<1>6. CASE Tick
  BY <1>6 DEF Tick
<1>7. CASE UNCHANGED lockVars
  BY <1>7 DEF lockVars
<1> QED
  BY <1>1, <1>2, <1>3, <1>4, <1>5, <1>6, <1>7 DEF LockNext, Attempt

\* Whatever the number of instances and the lease, the file and every
\* instance stay within the lease.
THEOREM LockTypeCorrect == LockSpec => []LockTypeOK
<1>1. LockInit => LockTypeOK
  BY LeaseAssumption DEF LockInit, LockTypeOK, Places
<1> QED
  BY <1>1, LockTypeStep, PTL DEF LockSpec

\* An instance that acquireInstanceLock() lets through never believes in a
\* longer or shorter lease than the file grants it, unless it is overwritten.
THEOREM LeaseAgreement == LockSpec => []LeaseAgrees
<1>1. LockInit => LeaseAgrees
  BY DEF LockInit, LeaseAgrees
<1> QED
  BY <1>1, AgreementStep, LockTypeCorrect, PTL DEF LockSpec

-----------------------------------------------------------------------------
(* update.json and skipped-update.json                                     *)

\* A promise is what the file says, which this session leaves alone.
PromiseOnDisk ==
    /\ decided = skippedFile
    /\ promised # None => promised = skippedFile /\ caller # "persist"

\* A startup under way has read the promised version, and _state has it as
\* soon as one published.
PromiseIsRead ==
    promised # None =>
        /\ worker = "publish" => readSkipped = promised
        /\ published => skippedVersion = promised

IInv == TypeOK /\ PromiseOnDisk /\ PromiseIsRead

LEMMA InitInv == Init => IInv
BY DEF Init, IInv, TypeOK, PromiseOnDisk, PromiseIsRead, Optional

LEMMA InvStep == IInv /\ [Next]_vars => IInv'
<1> SUFFICES ASSUME IInv, [Next]_vars PROVE IInv'
  OBVIOUS
<1> USE DEF IInv, TypeOK, PromiseOnDisk, PromiseIsRead, Optional,
            files, state, work, flags, ui, history
<1>1. CASE BeginStartup
  BY <1>1 DEF BeginStartup
<1>2. CASE BeginActivation
  BY <1>2 DEF BeginActivation
<1>3. CASE BeginRefresh
  BY <1>3 DEF BeginRefresh
<1>4. CASE Logout
  BY <1>4 DEF Logout
<1>5. CASE ReadSkipped
  BY <1>5 DEF ReadSkipped
<1>6. CASE PublishFiles
  BY <1>6 DEF PublishFiles
<1>7. CASE RequestEnds
  BY <1>7 DEF RequestEnds
<1>8. CASE SaveAppUpdate
  BY <1>8 DEF SaveAppUpdate
<1>9. CASE WriteAppUpdate
  BY <1>9 DEF WriteAppUpdate
<1>10. CASE Finish
  BY <1>10 DEF Finish, Unlock, Relock, Stay
<1>11. CASE UpdateContent
  BY <1>11 DEF UpdateContent, Visible
<1>12. CASE ShowContent
  BY <1>12 DEF ShowContent, Visible
<1>13. CASE SetSkipped
  BY <1>13 DEF SetSkipped
<1>14. CASE PersistSkipped
  BY <1>14 DEF PersistSkipped
<1>15. ASSUME NEW v \in Versions, CloseDialog(v) PROVE IInv'
  BY <1>15 DEF CloseDialog
<1>16. ASSUME NEW v \in Versions, PressSkip(v) PROVE IInv'
  BY <1>16 DEF PressSkip, Visible
<1>17. CASE ReopenEditor
  BY <1>17 DEF ReopenEditor
<1>18. CASE Restart
  BY <1>18 DEF Restart
<1>19. CASE UNCHANGED vars
  BY <1>19 DEF vars
<1> QED
  BY <1>1, <1>2, <1>3, <1>4, <1>5, <1>6, <1>7, <1>8, <1>9, <1>10, <1>11, <1>12,
     <1>13, <1>14, <1>15, <1>16, <1>17, <1>18, <1>19
  DEF Next, WorkerStep, MessageThreadStep

\* The files, the members of _state and both threads keep their types.
THEOREM UpdatesTypeCorrect == Spec => []TypeOK
<1>1. Init => IInv
  BY InitInv
<1>2. IInv /\ [Next]_vars => IInv'
  BY InvStep
<1>3. IInv => TypeOK
  BY DEF IInv
<1> QED
  BY <1>1, <1>2, <1>3, PTL DEF Spec

\* A version whose skip was written is not offered in a later session that
\* skips nothing else, wherever that and earlier sessions were interrupted,
\* once a startup of that session has published the files.
THEOREM SkipsSurvive == Spec => []SkipSurvivesRestart
<1>1. Init => IInv
  BY InitInv
<1>2. IInv /\ [Next]_vars => IInv'
  BY InvStep
<1>3. IInv => SkipSurvivesRestart
  BY DEF IInv, PromiseIsRead, SkipSurvivesRestart, Visible
<1> QED
  BY <1>1, <1>2, <1>3, PTL DEF Spec
=============================================================================
