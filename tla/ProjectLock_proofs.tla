------------------------- MODULE ProjectLock_proofs -------------------------
(***************************************************************************)
(* Theorems about the project lock, for any number of tasks, processes,    *)
(* hosts, calls, crashes and faults.                                       *)
(***************************************************************************)
EXTENDS ProjectLock, TLAPS

(* Type correctness of the lock protocol: owner.json, the claims, the      *)
(* program counters and the nonces stay in their types.                    *)
THEOREM TypeCorrect == Spec => []TypeOK
<1> USE LockAssumption DEF TypeOK, Nonce, AllPC, RecoveryPC, ClaimingPC,
                           HoldingPC, Claim, Present
<1>1. Init => TypeOK
  BY DEF Init
<1>2. TypeOK /\ [Next]_vars => TypeOK'
  <2> SUFFICES ASSUME TypeOK, [Next]_vars PROVE TypeOK'
    OBVIOUS
  <2> USE DEF Goto, Fault, Fails, Quiet, dirVars, procVars
  <2>1. ASSUME NEW t \in Task, Begin(t) PROVE TypeOK'
    BY <2>1 DEF Begin
  <2>2. ASSUME NEW t \in Task, Loop(t) PROVE TypeOK'
    BY <2>2 DEF Loop, GiveUp, MakeLockDir, FindLockDir
  <2>3. ASSUME NEW t \in Task, Publish(t) PROVE TypeOK'
    BY <2>3 DEF Publish, PublishOwner, PublishFails, Unpublish, DropLockDir,
                MyNonce
  <2>4. ASSUME NEW t \in Task, Classify(t) PROVE TypeOK'
    BY <2>4 DEF Classify, ReadOwner, OwnerIsLocal, NotRecoverable, Probe
  <2>5. ASSUME NEW t \in Task, AcquireClaim(t) PROVE TypeOK'
    <3>1. CASE MakeClaim(t)
      <4>1. [stale |-> seen[t], by |-> None] \in Claim
        BY <3>1 DEF MakeClaim
      <4> QED
        BY <3>1, <4>1 DEF MakeClaim
    <3>2. CASE WriteClaim(t)
      <4>1. [stale |-> seen[t], by |-> PidOf[t]] \in Claim
        BY <3>2 DEF WriteClaim, ClaimsFor
      <4> QED
        BY <3>2, <4>1 DEF WriteClaim, ClaimsFor
    <3>3. CASE ~MakeClaim(t) /\ ~WriteClaim(t)
      BY <2>5, <3>3 DEF AcquireClaim, ClaimRefused, WriteClaimFails,
                Revalidate, OwnerChanged, Reprobe, Unclaim, DropClaim, ClaimsFor
    <3> QED
      BY <3>1, <3>2, <3>3
  <2>6. ASSUME NEW t \in Task, Recover(t) PROVE TypeOK'
    BY <2>6 DEF Recover, Quarantine, QuarantineFails, ReadClaim, CleanupClaim,
                RetireClaim, DropLockDir, DropClaim, ClaimsFor
  <2>7. ASSUME NEW t \in Task, Hold(t) PROVE TypeOK'
    BY <2>7 DEF Hold, FinishOperation, CheckOwner, ReleaseSkipped, RetireLock,
                ReleaseFails, DropLockDir
  <2>8. ASSUME NEW p \in Pid, Crash(p) \/ RecyclePid(p) PROVE TypeOK'
    BY <2>8 DEF Crash, RecyclePid
  <2>9. CASE UNCHANGED vars
    BY <2>9 DEF vars
  <2> QED
    BY <2>1, <2>2, <2>3, <2>4, <2>5, <2>6, <2>7, <2>8, <2>9
       DEF Next, Step, Finished
<1> QED
  BY <1>1, <1>2, PTL DEF Spec

-----------------------------------------------------------------------------
(* Every step keeps the inductive invariant, as long as renaming a stale   *)
(* lock directory that is there does not fail: where it may, recovery is   *)
(* not safe (run lock_rename_failure).  One step per action: what each     *)
(* action can disturb is                                                   *)
(*   - for a publisher, that nobody else's nonce is the one it publishes   *)
(*     (NoncesSpent) and that it is alone (Publishers);                    *)
(*   - for a recoverer, that its claim is the only one on the owner it     *)
(*     saw (Claimants) and that it moves a dead owner's directory          *)
(*     (Recoverers, Mortality);                                            *)
(*   - for a holder, that the directory is its own (HolderOwnsLock).       *)
LEMMA IInvPreserved ==
    ASSUME "quarantine" \notin FaultKinds, TypeOK, IInv, [Next]_vars
    PROVE  IInv'
<1> USE LockAssumption DEF TypeOK, Nonce, AllPC, RecoveryPC, ClaimingPC,
        HoldingPC, Claim, Present, IInv, DirShape, NoncesSpent, Locality,
        Mortality, Publishers, Claimants, Recoverers, HolderOwnsLock, NoClaimOnLiveOwner,
        Spent, OnHostOf, MyNonce, OwnerPid, ClaimsFor,
        Goto, Fault, Fails, Quiet, dirVars, procVars
<1>1. ASSUME NEW t \in Task, Begin(t) PROVE IInv'
  BY <1>1 DEF Begin
<1>2. ASSUME NEW t \in Task, GiveUp(t) PROVE IInv'
  BY <1>2 DEF GiveUp
<1>3. ASSUME NEW t \in Task, MakeLockDir(t) PROVE IInv'
  BY <1>3 DEF MakeLockDir
<1>4. ASSUME NEW t \in Task, FindLockDir(t) PROVE IInv'
  BY <1>4 DEF FindLockDir
<1>5. ASSUME NEW t \in Task, PublishOwner(t) PROVE IInv'
  BY <1>5 DEF PublishOwner
<1>6. ASSUME NEW t \in Task, PublishFails(t) PROVE IInv'
  BY <1>6 DEF PublishFails
<1>7. ASSUME NEW t \in Task, Unpublish(t) PROVE IInv'
  BY <1>7 DEF Unpublish, DropLockDir
<1>8. ASSUME NEW t \in Task, ReadOwner(t) PROVE IInv'
  BY <1>8 DEF ReadOwner, OwnerIsLocal
<1>9. ASSUME NEW t \in Task, NotRecoverable(t) PROVE IInv'
  BY <1>9 DEF NotRecoverable
<1>10. ASSUME NEW t \in Task, Probe(t) PROVE IInv'
  BY <1>10 DEF Probe, Signalable
<1>11. ASSUME NEW t \in Task, MakeClaim(t) PROVE IInv'
  <2> DEFINE new == [stale |-> seen[t], by |-> None]
  <2>1. /\ claims' = claims \cup {new} /\ new.stale = seen[t]
        /\ pc[t] = "claim" /\ pc' = [pc EXCEPT ![t] = "claimMeta"]
        /\ Present /\ ClaimsFor(seen[t]) = {}
        /\ UNCHANGED <<lockDir, owner, nonce, seen, alive>>
    BY <1>11 DEF MakeClaim
  <2> HIDE DEF new, ClaimsFor
  <2>2. DirShape' /\ Locality' /\ Mortality' /\ Publishers' /\ Recoverers'
        /\ HolderOwnsLock'
    BY <2>1
  <2>3. NoncesSpent' /\ NoClaimOnLiveOwner'
    BY <2>1
  <2>4. \A u \in Task : pc[u] \in ClaimingPC /\ seen[u] = owner => seen[t] # owner
    BY <2>1
  <2>5. \A n \in Nonce : ClaimsFor(n)' # {} <=> ClaimsFor(n) # {} \/ n = seen[t]
    BY <2>1 DEF ClaimsFor
  <2>6. Claimants'
    BY <2>1, <2>4, <2>5
  <2> QED
    BY <2>2, <2>3, <2>6
<1>12. ASSUME NEW t \in Task, ClaimRefused(t) PROVE IInv'
  BY <1>12 DEF ClaimRefused
<1>13. ASSUME NEW t \in Task, WriteClaim(t) PROVE IInv'
  <2> DEFINE new == [stale |-> seen[t], by |-> PidOf[t]]
  <2>1. /\ claims' = (claims \ ClaimsFor(seen[t])) \cup {new}
        /\ new.stale = seen[t]
        /\ pc[t] = "claimMeta" /\ pc' = [pc EXCEPT ![t] = "revalidate"]
        /\ ClaimsFor(seen[t]) # {}
        /\ UNCHANGED <<lockDir, owner, nonce, seen, alive>>
    BY <1>13 DEF WriteClaim
  <2> HIDE DEF new, ClaimsFor
  <2>2. ClaimsFor(seen[t]) \subseteq claims
    BY DEF ClaimsFor
  <2>3. DirShape' /\ Locality' /\ Mortality' /\ Publishers' /\ Recoverers'
        /\ HolderOwnsLock'
    BY <2>1, <2>2
  <2>4. NoncesSpent' /\ NoClaimOnLiveOwner'
    BY <2>1
  <2>5. \A n \in Nonce : ClaimsFor(n)' # {} <=> ClaimsFor(n) # {}
    BY <2>1 DEF ClaimsFor
  <2>6. Claimants'
    BY <2>1, <2>5
  <2> QED
    BY <2>3, <2>4, <2>6
<1>14. ASSUME NEW t \in Task, WriteClaimFails(t) PROVE IInv'
  BY <1>14 DEF WriteClaimFails
<1>15. ASSUME NEW t \in Task, Revalidate(t) PROVE IInv'
  BY <1>15 DEF Revalidate
<1>16. ASSUME NEW t \in Task, OwnerChanged(t) PROVE IInv'
  BY <1>16 DEF OwnerChanged
<1>17. ASSUME NEW t \in Task, Reprobe(t) PROVE IInv'
  BY <1>17 DEF Reprobe
<1>18. ASSUME NEW t \in Task, Unclaim(t) PROVE IInv'
  BY <1>18 DEF Unclaim, DropClaim
<1>19. ASSUME NEW t \in Task, Quarantine(t) PROVE IInv'
  BY <1>19 DEF Quarantine, DropLockDir
<1>20. ASSUME NEW t \in Task, QuarantineFails(t) PROVE IInv'
  BY <1>20 DEF QuarantineFails
<1>21. ASSUME NEW t \in Task, ReadClaim(t) PROVE IInv'
  BY <1>21 DEF ReadClaim
<1>22. ASSUME NEW t \in Task, CleanupClaim(t) PROVE IInv'
  BY <1>22 DEF CleanupClaim
<1>23. ASSUME NEW t \in Task, RetireClaim(t) PROVE IInv'
  BY <1>23 DEF RetireClaim, DropClaim
<1>24. ASSUME NEW t \in Task, FinishOperation(t) PROVE IInv'
  BY <1>24 DEF FinishOperation
<1>25. ASSUME NEW t \in Task, CheckOwner(t) PROVE IInv'
  BY <1>25 DEF CheckOwner
<1>26. ASSUME NEW t \in Task, ReleaseSkipped(t) PROVE IInv'
  BY <1>26 DEF ReleaseSkipped
<1>27. ASSUME NEW t \in Task, RetireLock(t) PROVE IInv'
  BY <1>27 DEF RetireLock, DropLockDir
<1>28. ASSUME NEW t \in Task, ReleaseFails(t) PROVE IInv'
  BY <1>28 DEF ReleaseFails
<1>29. ASSUME NEW p \in Pid, Crash(p) PROVE IInv'
  BY <1>29 DEF Crash
<1>30. ASSUME NEW p \in Pid, RecyclePid(p) PROVE IInv'
  BY <1>30 DEF RecyclePid
<1>31. CASE UNCHANGED vars
  BY <1>31 DEF vars
<1>32. ASSUME NEW t \in Task, Step(t) PROVE IInv'
  <2>1. CASE Loop(t)
    BY <1>2, <1>3, <1>4, <2>1 DEF Loop
  <2>2. CASE Publish(t)
    BY <1>5, <1>6, <1>7, <2>2 DEF Publish
  <2>3. CASE Classify(t)
    BY <1>8, <1>9, <1>10, <2>3 DEF Classify
  <2>4. CASE AcquireClaim(t)
    BY <1>11, <1>12, <1>13, <1>14, <1>15, <1>16, <1>17, <1>18, <2>4
       DEF AcquireClaim
  <2>5. CASE Recover(t)
    BY <1>19, <1>20, <1>21, <1>22, <1>23, <2>5 DEF Recover
  <2>6. CASE Hold(t)
    BY <1>24, <1>25, <1>26, <1>27, <1>28, <2>6 DEF Hold
  <2> QED
    BY <1>32, <2>1, <2>2, <2>3, <2>4, <2>5, <2>6 DEF Step
<1> QED
  BY <1>1, <1>29, <1>30, <1>31, <1>32 DEF Next, Finished

(* The inductive invariant holds in every reachable state.                 *)
THEOREM Invariance ==
    ASSUME "quarantine" \notin FaultKinds
    PROVE  Spec => []IInv
<1>1. Init => IInv
  BY LockAssumption DEF Init, IInv, DirShape, NoncesSpent, Locality,
     Mortality, Publishers, Claimants, Recoverers, HolderOwnsLock, NoClaimOnLiveOwner,
     RecoveryPC, ClaimingPC, HoldingPC, Present
<1>2. TypeOK /\ IInv /\ [Next]_vars => IInv'
  BY IInvPreserved
<1> QED
  BY <1>1, <1>2, TypeCorrect, PTL DEF Spec

-----------------------------------------------------------------------------
(* Two tasks never hold the project lock together: mkdir, the claim and    *)
(* the renames of project-lock.ts make a mutual exclusion for any number   *)
(* of tasks, processes, hosts and crashes.                                 *)
THEOREM LockExcludes ==
    ASSUME "quarantine" \notin FaultKinds
    PROVE  Spec => []MutualExclusion
<1>1. TypeOK /\ IInv => MutualExclusion
  BY DEF TypeOK, IInv, HolderOwnsLock, MutualExclusion, MyNonce
<1> QED
  BY <1>1, TypeCorrect, Invariance, PTL

(* A task about to rename a stale lock away is the only one, and what it   *)
(* will rename is still the dead owner's directory it classified.          *)
THEOREM QuarantineExcludes ==
    ASSUME "quarantine" \notin FaultKinds
    PROVE  Spec => []QuarantineIsExclusive
<1>1. TypeOK /\ IInv => QuarantineIsExclusive
  BY LockAssumption DEF TypeOK, IInv, DirShape, Mortality, Claimants,
     Recoverers, QuarantineIsExclusive, RecoveryPC, ClaimingPC, Nonce, Present
<1> QED
  BY <1>1, TypeCorrect, Invariance, PTL

-----------------------------------------------------------------------------
(* Recovery never takes the lock of a running process: only its own        *)
(* release does.                                                           *)
THEOREM LockNotStolen ==
    ASSUME "quarantine" \notin FaultKinds
    PROVE  Spec => NeverStealLive
<1> DEFINE Stolen == /\ owner # None /\ OwnerPid(owner) \in alive
                     /\ owner' # owner /\ ~RetireLock(owner[1])
<1>1. ASSUME TypeOK, IInv, [Next]_vars PROVE ~Stolen
  <2> USE <1>1, LockAssumption DEF TypeOK, Goto, Fault, Fails, Quiet, dirVars,
                                   procVars
  <2>1. ASSUME NEW t \in Task, Begin(t) \/ Loop(t) \/ Classify(t)
                                    \/ AcquireClaim(t)
        PROVE  owner' = owner
    BY <2>1 DEF Begin, Loop, GiveUp, MakeLockDir, FindLockDir, Classify,
       ReadOwner, NotRecoverable, Probe, AcquireClaim, MakeClaim, ClaimRefused,
       WriteClaim, WriteClaimFails, Revalidate, OwnerChanged, Reprobe, Unclaim,
       DropClaim
  <2>2. ASSUME NEW t \in Task, Publish(t) PROVE owner' = owner \/ owner = None
    BY <2>2 DEF Publish, PublishOwner, PublishFails, Unpublish, DropLockDir,
       IInv, Publishers
  <2>3. ASSUME NEW t \in Task, Quarantine(t) PROVE OwnerPid(owner) \notin alive
    BY <2>3 DEF Quarantine, IInv, Recoverers, Mortality, RecoveryPC, ClaimingPC
  <2>4. ASSUME NEW t \in Task, Recover(t), ~Quarantine(t)
        PROVE  owner' = owner
    BY <2>4 DEF Recover, QuarantineFails, ReadClaim, CleanupClaim, RetireClaim,
       DropClaim
  <2>5. ASSUME NEW t \in Task, RetireLock(t) PROVE owner[1] = t
    BY <2>5 DEF RetireLock, IInv, HolderOwnsLock, HoldingPC, MyNonce, Nonce
  <2>6. ASSUME NEW t \in Task, Hold(t), ~RetireLock(t) PROVE owner' = owner
    BY <2>6 DEF Hold, FinishOperation, CheckOwner, ReleaseSkipped, ReleaseFails
  <2>7. ASSUME NEW p \in Pid, Crash(p) \/ RecyclePid(p) PROVE owner' = owner
    BY <2>7 DEF Crash, RecyclePid
  <2>8. CASE UNCHANGED vars
    BY <2>8 DEF vars
  <2> QED
    BY <1>1, <2>1, <2>2, <2>3, <2>4, <2>5, <2>6, <2>7, <2>8
       DEF Next, Step, Finished
<1>2. TypeOK /\ IInv /\ [Next]_vars =>
        [owner # None /\ OwnerPid(owner) \in alive /\ owner' # owner
            => RetireLock(owner[1])]_vars
  BY <1>1
<1> QED
  BY <1>2, TypeCorrect, Invariance, PTL DEF Spec, NeverStealLive

(* The directory protocol implements the abstract mutex: a task enters its *)
(* operation only when the lock is free, and the lock becomes free only    *)
(* when its holder leaves or after the holder's process has died.          *)
THEOREM ImplementsMutex ==
    ASSUME "quarantine" \notin FaultKinds
    PROVE  Spec => MutexSpec
<1> DEFINE inside == {t \in Task : pc[t] \in HoldingPC}
<1>1. Init => Mutex!Init
  BY DEF Init, Mutex!Init, HoldingPC
<1>2. TypeOK /\ IInv /\ [Next]_vars => [Mutex!Next]_(Mutex!mutexVars)
  <2> SUFFICES ASSUME TypeOK, IInv, [Next]_vars
               PROVE  Mutex!Next \/ UNCHANGED Mutex!mutexVars
    OBVIOUS
  <2> USE LockAssumption DEF TypeOK, Goto, Fault, Fails, Quiet, dirVars,
                             procVars, HoldingPC
  <2>1. ASSUME NEW t \in Task, Begin(t) \/ Loop(t) \/ Classify(t)
        PROVE  UNCHANGED Mutex!mutexVars
    BY <2>1 DEF Mutex!mutexVars, Begin, Loop, GiveUp, MakeLockDir, FindLockDir,
       Classify, ReadOwner, NotRecoverable, Probe
  <2>2. ASSUME NEW t \in Task, AcquireClaim(t)
        PROVE  UNCHANGED Mutex!mutexVars
    BY <2>2 DEF Mutex!mutexVars, AcquireClaim, MakeClaim, ClaimRefused,
       WriteClaim, WriteClaimFails, Revalidate, OwnerChanged, Reprobe, Unclaim,
       DropClaim
  <2>3. ASSUME NEW t \in Task, PublishOwner(t) PROVE Mutex!Enter(t)
    BY <2>3 DEF PublishOwner, Mutex!Enter, IInv, Publishers, Mortality,
       MyNonce, Nonce
  <2>4. ASSUME NEW t \in Task, PublishFails(t) \/ Unpublish(t)
        PROVE  UNCHANGED Mutex!mutexVars
    BY <2>4 DEF Mutex!mutexVars, PublishFails, Unpublish, DropLockDir, IInv,
       Publishers
  <2>5. ASSUME NEW t \in Task, Quarantine(t) PROVE Mutex!Recover
    BY <2>5 DEF Quarantine, DropLockDir, Mutex!Recover, IInv, Recoverers,
       Mortality, RecoveryPC, ClaimingPC, Nonce, OwnerPid
  <2>6. ASSUME NEW t \in Task, Recover(t), ~Quarantine(t)
        PROVE  UNCHANGED Mutex!mutexVars
    BY <2>6 DEF Mutex!mutexVars, Recover, QuarantineFails, ReadClaim,
       CleanupClaim, RetireClaim, DropClaim
  <2>7. ASSUME NEW t \in Task, FinishOperation(t) \/ CheckOwner(t)
        PROVE  UNCHANGED Mutex!mutexVars
    BY <2>7 DEF Mutex!mutexVars, FinishOperation, CheckOwner
  <2>8. ASSUME NEW t \in Task, ReleaseSkipped(t) \/ ReleaseFails(t)
        PROVE  Mutex!Abandon(t)
    BY <2>8 DEF Mutex!Abandon, ReleaseSkipped, ReleaseFails
  <2>9. ASSUME NEW t \in Task, RetireLock(t) PROVE Mutex!Exit(t)
    BY <2>9 DEF Mutex!Exit, RetireLock, DropLockDir, IInv, HolderOwnsLock,
       MyNonce, Nonce
  <2>10. ASSUME NEW p \in Pid, Crash(p) PROVE Mutex!Crash(p)
    BY <2>10 DEF Crash, Mutex!Crash
  <2>11. ASSUME NEW p \in Pid, RecyclePid(p)
         PROVE  UNCHANGED Mutex!mutexVars
    BY <2>11 DEF Mutex!mutexVars, RecyclePid
  <2>12. CASE UNCHANGED vars
    BY <2>12 DEF Mutex!mutexVars, vars
  <2> QED
    BY <2>1, <2>2, <2>3, <2>4, <2>5, <2>6, <2>7, <2>8, <2>9, <2>10, <2>11,
       <2>12 DEF Next, Step, Finished, Publish, Hold, Mutex!Next
<1> QED
  BY <1>1, <1>2, TypeCorrect, Invariance, PTL DEF Spec, MutexSpec, Mutex!Spec
=============================================================================
