----------------------------- MODULE ProjectLock -----------------------------
(***************************************************************************)
(* The cross-process project lock of src/src/memory/project-lock.ts.       *)
(*                                                                         *)
(* The lock is the directory `.state-lock' of the project's global storage *)
(* directory.  A task creates it (mkdir without `recursive'), publishes    *)
(* owner.json in it, runs its operation and renames the directory away.    *)
(* A task that meets the directory of a dead process of its own host makes *)
(* a claim directory inside it, re-reads the owner, and renames the stale  *)
(* directory away.  Every await between two file-system calls is a point   *)
(* where the other tasks may run, so every call is an action of its own.   *)
(*                                                                         *)
(* A nonce is the pair of the task that drew it and the count of its       *)
(* draws: randomUUID never repeats.  The code compares nonces for equality *)
(* only.  owner.json's pid is the pid of the task in the nonce.            *)
(*                                                                         *)
(* All paths below `.state-lock' are resolved when the call is made: a     *)
(* call acts on whatever directory has that name at that moment.           *)
(***************************************************************************)
EXTENDS Naturals, FiniteSets

CONSTANTS
    Task,        \* asynchronous callers of withProjectLock / tryAcquire...
    Pid,         \* processes; several tasks may share one
    Host,        \* machines that share the storage directory
    PidOf,       \* [Task -> Pid]
    HostOf,      \* [Pid -> Host]
    None,        \* absence of a nonce, of a pid, of a holder
    FaultKinds,  \* the file-system calls that may fail without a reason the
                 \*   protocol can see (I/O errors, EBUSY, EPERM, ...)
    MaxFaults,   \* bound: such failures in one behaviour
    MaxCalls,    \* bound: lock calls of one task
    MaxNonces,   \* bound: lock directories one task makes
    MaxCrashes,  \* bound: processes that die
    PidReuse     \* may the kernel give a dead process's pid to another program?

Nonce == Task \X Nat
AllFaults == {"publish", "remove", "read", "claim", "quarantine", "release"}

ASSUME LockAssumption ==
    /\ PidOf \in [Task -> Pid]
    /\ HostOf \in [Pid -> Host]
    /\ None \notin Nonce \cup Pid \cup Task
    /\ FaultKinds \subseteq AllFaults
    /\ MaxFaults \in Nat
    /\ MaxCalls \in [Task -> Nat]
    /\ MaxNonces \in Nat
    /\ MaxCrashes \in Nat
    /\ PidReuse \in BOOLEAN

VARIABLES
    lockDir,   \* is `.state-lock' there: "present" or "absent"
    owner,     \* nonce in its owner.json; None: no (or no well-formed) file
    claims,    \* claim directories inside it: the stale nonce each is named
               \*   after and the recoverer_pid in its claim.json (None: no file)
    alive,     \* processes still running
    recycled,  \* dead pids the kernel has given to an unrelated program
    pc,        \* where each task is
    nonce,     \* nonces each task has drawn
    seen,      \* the owner a task read when it classified the lock
    calls,     \* lock calls each task has made
    faults     \* injected failures so far

dirVars  == <<lockDir, owner, claims>>
procVars == <<alive, recycled>>
vars == <<lockDir, owner, claims, alive, recycled, pc, nonce, seen, calls,
          faults>>

\* The program counters, named for what the task does next.
HoldingPC == {"op", "release", "retireLock"}
ClaimingPC == {"claimMeta", "revalidate", "reprobe", "quarantine", "unclaim"}
RecoveryPC == {"claim"} \cup ClaimingPC \cup {"cleanup", "cleanupRm", "retire"}
AllPC == {"idle", "top", "publish", "unpublish", "classify", "probe", "dead"}
            \cup RecoveryPC \cup HoldingPC

Claim == [stale : Nonce, by : Pid \cup {None}]

Present == lockDir = "present"
MyNonce(t) == <<t, nonce[t]>>
OwnerPid(n) == PidOf[n[1]]
ClaimsFor(n) == {c \in claims : c.stale = n}

OnHostOf(t, p) == HostOf[p] = HostOf[PidOf[t]]

\* A bug: EPERM, the answer for another user's process, counts as dead.
SignalableByOwner(t, p) == OnHostOf(t, p) /\ p \in recycled

\* kill(p, 0), called by t, finds a process of t's host with that pid: the
\* owner, or whoever got its pid.
Signalable(t, p) == OnHostOf(t, p) /\ p \in alive \cup recycled

Init ==
    /\ lockDir = "absent"
    /\ owner = None
    /\ claims = {}
    /\ alive = Pid
    /\ recycled = {}
    /\ pc = [t \in Task |-> "idle"]
    /\ nonce = [t \in Task |-> 0]
    /\ seen = [t \in Task |-> None]
    /\ calls = [t \in Task |-> 0]
    /\ faults = 0

-----------------------------------------------------------------------------
(* Helpers of the actions.                                                 *)

Goto(t, from, to) ==
    /\ pc[t] = from
    /\ pc' = [pc EXCEPT ![t] = to]

\* A file-system call of the given kind fails for a reason of its own.
Fault(kind) ==
    /\ kind \in FaultKinds
    /\ faults < MaxFaults
    /\ faults' = faults + 1

\* A call fails: either the protocol's state makes it fail, or a fault does.
Fails(cause, kind) == (cause /\ UNCHANGED faults) \/ Fault(kind)

\* The directory under the canonical name is renamed away (or removed) with
\* all it holds.
DropLockDir ==
    /\ lockDir' = "absent"
    /\ owner' = None
    /\ claims' = {}

\* rm -rf of the claim directory named after n, if there is one.
DropClaim(n) ==
    /\ claims' = claims \ ClaimsFor(n)
    /\ UNCHANGED <<lockDir, owner>>

\* Variables no file-system step of a task changes.
Quiet == UNCHANGED <<procVars, calls>>

-----------------------------------------------------------------------------
(* withProjectLock: the call, its deadline and the acquisition loop.       *)

Begin(t) ==
    /\ calls[t] < MaxCalls[t]
    /\ Goto(t, "idle", "top")
    /\ calls' = [calls EXCEPT ![t] = @ + 1]
    /\ UNCHANGED <<dirVars, procVars, nonce, seen, faults>>

\* A bug: the deadline counts only while the owner is known.
GiveUpOnOwner(t) ==
    /\ owner # None
    /\ Goto(t, "top", "idle")
    /\ UNCHANGED <<dirVars, nonce, seen, faults>> /\ Quiet

\* ProjectLockTimeoutError: acquireTimeoutMs is over or shouldAbort() is true.
\* The clock is looked at here only, so that a task that gets the lock after
\* its deadline still runs its operation.
GiveUp(t) ==
    /\ Goto(t, "top", "idle")
    /\ UNCHANGED <<dirVars, nonce, seen, faults>> /\ Quiet

\* mkdir succeeds.  owner.json does not exist yet.
MakeLockDir(t) ==
    /\ ~Present
    /\ nonce[t] < MaxNonces
    /\ Goto(t, "top", "publish")
    /\ lockDir' = "present"
    /\ nonce' = [nonce EXCEPT ![t] = @ + 1]
    /\ UNCHANGED <<owner, claims, seen, faults>> /\ Quiet

\* mkdir answers EEXIST.
FindLockDir(t) ==
    /\ Present
    /\ Goto(t, "top", "classify")
    /\ UNCHANGED <<dirVars, nonce, seen, faults>> /\ Quiet

PublishOwner(t) ==
    /\ Present
    /\ Goto(t, "publish", "op")
    /\ owner' = MyNonce(t)
    /\ UNCHANGED <<lockDir, claims, nonce, seen, faults>> /\ Quiet

PublishFails(t) ==
    /\ Goto(t, "publish", "unpublish")
    /\ Fails(~Present, "publish")
    /\ UNCHANGED <<dirVars, nonce, seen>> /\ Quiet

\* The failed publisher removes the directory; when that fails too the
\* directory stays behind without an owner.
Unpublish(t) ==
    /\ Goto(t, "unpublish", "top")
    /\ \/ DropLockDir /\ UNCHANGED faults
       \/ Fault("remove") /\ UNCHANGED dirVars
    /\ UNCHANGED <<nonce, seen>> /\ Quiet

-----------------------------------------------------------------------------
(* classifyLock                                                            *)

\* A bug: the host name is not compared.
OwnerIsKnown(t) == owner # None

\* owner.json is well formed and names a process of t's own host.
OwnerIsLocal(t) == owner # None /\ OnHostOf(t, OwnerPid(owner))

\* A bug: the classification forgets whom it read.
ReadOwnerForgets(t) ==
    /\ OwnerIsLocal(t)
    /\ Goto(t, "classify", "probe")
    /\ UNCHANGED <<dirVars, nonce, seen, faults>> /\ Quiet

\* Its liveness is tested next.
ReadOwner(t) ==
    /\ OwnerIsLocal(t)
    /\ Goto(t, "classify", "probe")
    /\ seen' = [seen EXCEPT ![t] = owner]
    /\ UNCHANGED <<dirVars, nonce, faults>> /\ Quiet

\* foreign-host or unknown-owner: back off and try again.
NotRecoverable(t) ==
    /\ Goto(t, "classify", "top")
    /\ Fails(~OwnerIsLocal(t), "read")
    /\ UNCHANGED <<dirVars, nonce, seen>> /\ Quiet

\* kill(owner.pid, 0): live-same-host backs off, dead-same-host recovers.
Probe(t) ==
    /\ Goto(t, "probe",
            IF Signalable(t, OwnerPid(seen[t])) THEN "top" ELSE "claim")
    /\ UNCHANGED <<dirVars, nonce, seen, faults>> /\ Quiet

-----------------------------------------------------------------------------
(* acquireRecoveryClaim                                                    *)

\* A bug: the claim's mkdir accepts a directory that is there.
MakeClaimShared(t) ==
    /\ Present
    /\ Goto(t, "claim", "claimMeta")
    /\ claims' = claims \cup {[stale |-> seen[t], by |-> None]}
    /\ UNCHANGED <<lockDir, owner, nonce, seen, faults>> /\ Quiet

MakeClaim(t) ==
    /\ Present
    /\ ClaimsFor(seen[t]) = {}
    /\ Goto(t, "claim", "claimMeta")
    /\ claims' = claims \cup {[stale |-> seen[t], by |-> None]}
    /\ UNCHANGED <<lockDir, owner, nonce, seen, faults>> /\ Quiet

\* EEXIST: another recoverer has it.  ENOENT: the stale lock is gone.
ClaimRefused(t) ==
    /\ Goto(t, "claim", "top")
    /\ Fails(~Present \/ ClaimsFor(seen[t]) # {}, "claim")
    /\ UNCHANGED <<dirVars, nonce, seen>> /\ Quiet

WriteClaim(t) ==
    /\ ClaimsFor(seen[t]) # {}
    /\ Goto(t, "claimMeta", "revalidate")
    /\ claims' = (claims \ ClaimsFor(seen[t]))
                    \cup {[stale |-> seen[t], by |-> PidOf[t]]}
    /\ UNCHANGED <<lockDir, owner, nonce, seen, faults>> /\ Quiet

WriteClaimFails(t) ==
    /\ Goto(t, "claimMeta", "unclaim")
    /\ Fails(ClaimsFor(seen[t]) = {}, "claim")
    /\ UNCHANGED <<dirVars, nonce, seen>> /\ Quiet

\* A bug: the owner is not compared with the one that was classified.
RevalidateSkipped(t) ==
    /\ owner # None
    /\ Goto(t, "revalidate", "reprobe")
    /\ UNCHANGED <<dirVars, nonce, seen, faults>> /\ Quiet

\* The owner under the canonical name is still the one that was classified.
Revalidate(t) ==
    /\ owner = seen[t]
    /\ Goto(t, "revalidate", "reprobe")
    /\ UNCHANGED <<dirVars, nonce, seen, faults>> /\ Quiet

OwnerChanged(t) ==
    /\ Goto(t, "revalidate", "unclaim")
    /\ Fails(owner # seen[t], "read")
    /\ UNCHANGED <<dirVars, nonce, seen>> /\ Quiet

\* A bug: the two outcomes of kill are swapped.
ReprobeInverted(t) ==
    /\ Goto(t, "reprobe",
            IF Signalable(t, OwnerPid(seen[t])) THEN "quarantine" ELSE "unclaim")
    /\ UNCHANGED <<dirVars, nonce, seen, faults>> /\ Quiet

Reprobe(t) ==
    /\ Goto(t, "reprobe",
            IF Signalable(t, OwnerPid(seen[t])) THEN "unclaim" ELSE "quarantine")
    /\ UNCHANGED <<dirVars, nonce, seen, faults>> /\ Quiet

Unclaim(t) ==
    /\ Goto(t, "unclaim", "top")
    /\ DropClaim(seen[t])
    /\ UNCHANGED <<nonce, seen, faults>> /\ Quiet

-----------------------------------------------------------------------------
(* quarantineStaleLock, cleanupClaimIfOwned, retireRecoveryClaim           *)

\* The rename moves whatever directory has the canonical name.
Quarantine(t) ==
    /\ Present
    /\ Goto(t, "quarantine", "retire")
    /\ DropLockDir
    /\ UNCHANGED <<nonce, seen, faults>> /\ Quiet

QuarantineFails(t) ==
    /\ Goto(t, "quarantine", "cleanup")
    /\ Fails(~Present, "quarantine")
    /\ UNCHANGED <<dirVars, nonce, seen>> /\ Quiet

\* claim.json is read, and only then is the directory removed.
ReadClaim(t) ==
    /\ Goto(t, "cleanup",
            IF [stale |-> seen[t], by |-> PidOf[t]] \in claims
            THEN "cleanupRm" ELSE "retire")
    /\ UNCHANGED <<dirVars, nonce, seen, faults>> /\ Quiet

CleanupClaim(t) ==
    /\ Goto(t, "cleanupRm", "retire")
    /\ DropClaim(seen[t])
    /\ UNCHANGED <<nonce, seen, faults>> /\ Quiet

\* Unconditional, whether or not the quarantine succeeded.
RetireClaim(t) ==
    /\ Goto(t, "retire", "top")
    /\ DropClaim(seen[t])
    /\ UNCHANGED <<nonce, seen, faults>> /\ Quiet

-----------------------------------------------------------------------------
(* The operation, and the release of the handle (buildHandle).             *)

\* The operation returns or throws; `finally' releases in both cases.
FinishOperation(t) ==
    /\ Goto(t, "op", "release")
    /\ UNCHANGED <<dirVars, nonce, seen, faults>> /\ Quiet

CheckOwner(t) ==
    /\ owner = MyNonce(t)
    /\ Goto(t, "release", "retireLock")
    /\ UNCHANGED <<dirVars, nonce, seen, faults>> /\ Quiet

ReleaseSkipped(t) ==
    /\ Goto(t, "release", "idle")
    /\ Fails(owner # MyNonce(t), "read")
    /\ UNCHANGED <<dirVars, nonce, seen>> /\ Quiet

RetireLock(t) ==
    /\ Present
    /\ Goto(t, "retireLock", "idle")
    /\ DropLockDir
    /\ UNCHANGED <<nonce, seen, faults>> /\ Quiet

ReleaseFails(t) ==
    /\ Goto(t, "retireLock", "idle")
    /\ Fails(~Present, "release")
    /\ UNCHANGED <<dirVars, nonce, seen>> /\ Quiet

-----------------------------------------------------------------------------
(* The environment: processes die, pids are used again.                    *)

Crash(p) ==
    /\ p \in alive
    /\ Cardinality(Pid \ alive) < MaxCrashes
    /\ alive' = alive \ {p}
    /\ pc' = [t \in Task |-> IF PidOf[t] = p THEN "dead" ELSE pc[t]]
    /\ UNCHANGED <<dirVars, recycled, nonce, seen, calls, faults>>

RecyclePid(p) ==
    /\ PidReuse
    /\ p \in Pid \ alive
    /\ recycled' = IF p \in recycled THEN recycled \ {p} ELSE recycled \cup {p}
    /\ UNCHANGED <<dirVars, alive, pc, nonce, seen, calls, faults>>

\* Every task has made all its calls, or is dead: nothing is left to do.
Finished ==
    /\ \A t \in Task : pc[t] = "dead" \/ (pc[t] = "idle" /\ calls[t] = MaxCalls[t])
    /\ UNCHANGED vars

Loop(t) == GiveUp(t) \/ MakeLockDir(t) \/ FindLockDir(t)
Publish(t) == PublishOwner(t) \/ PublishFails(t) \/ Unpublish(t)
Classify(t) == ReadOwner(t) \/ NotRecoverable(t) \/ Probe(t)
AcquireClaim(t) ==
    \/ MakeClaim(t) \/ ClaimRefused(t)
    \/ WriteClaim(t) \/ WriteClaimFails(t)
    \/ Revalidate(t) \/ OwnerChanged(t) \/ Reprobe(t) \/ Unclaim(t)
Recover(t) ==
    \/ Quarantine(t) \/ QuarantineFails(t)
    \/ ReadClaim(t) \/ CleanupClaim(t) \/ RetireClaim(t)
Hold(t) ==
    \/ FinishOperation(t)
    \/ CheckOwner(t) \/ ReleaseSkipped(t) \/ RetireLock(t) \/ ReleaseFails(t)

\* The next step of a call in progress.
Step(t) ==
    Loop(t) \/ Publish(t) \/ Classify(t) \/ AcquireClaim(t) \/ Recover(t)
        \/ Hold(t)

Next ==
    \/ \E t \in Task : Begin(t) \/ Step(t)
    \/ \E p \in Pid : Crash(p) \/ RecyclePid(p)
    \/ Finished

Spec == Init /\ [][Next]_vars

\* A process that has not crashed goes on executing: its file-system calls
\* return, its operation ends, its timers fire.
PatientSpec == Spec /\ \A t \in Task : WF_vars(Step(t))

-----------------------------------------------------------------------------
(* Properties                                                              *)

TypeOK ==
    /\ lockDir \in {"present", "absent"}
    /\ owner \in Nonce \cup {None}
    /\ claims \subseteq Claim
    /\ alive \subseteq Pid
    /\ recycled \subseteq Pid
    /\ pc \in [Task -> AllPC]
    /\ nonce \in [Task -> Nat]
    /\ seen \in [Task -> Nonce \cup {None}]
    /\ \A t \in Task : pc[t] \in RecoveryPC \cup {"probe"} => seen[t] \in Nonce
    /\ calls \in [Task -> Nat]
    /\ faults \in Nat

\* No two tasks, of one process or of several, are ever inside the locked
\* operation or its release at the same time: mkdir, the claim and the two
\* renames of project-lock.ts together make a mutual exclusion.
MutualExclusion ==
    \A t, u \in Task :
        pc[t] \in HoldingPC /\ pc[u] \in HoldingPC => t = u

\* While a task runs its operation, the directory under the canonical name
\* exists and carries that task's nonce: nobody has moved it away, removed
\* it or written another owner into it, so that the nonce check of release()
\* never skips a release it owes.
HolderOwnsLock ==
    \A t \in Task :
        pc[t] \in HoldingPC => Present /\ owner = MyNonce(t)

\* A task about to quarantine is about to move the very directory it
\* classified, whose process is dead, and it is the only one about to: this is
\* the interval between revalidation and rename the claim is there to close.
QuarantineIsExclusive ==
    \A t \in Task : pc[t] = "quarantine" =>
        /\ Present /\ owner = seen[t] /\ OwnerPid(seen[t]) \notin alive
        /\ \A u \in Task : pc[u] = "quarantine" => u = t

\* No claim for the current owner exists while the owner's process runs: late
\* recoverers leave nothing behind in a live lock that would keep its owner
\* from being recovered after it dies.
NoClaimOnLiveOwner ==
    \A c \in claims : c.stale = owner => OwnerPid(owner) \notin alive

\* A step that takes away the published lock of a running process is that
\* process's own release: recovery never steals a live lock.
NeverStealLive ==
    [][ owner # None /\ OwnerPid(owner) \in alive /\ owner' # owner
            => RetireLock(owner[1]) ]_vars

\* The lock as the rest of the program sees it.
Mutex == INSTANCE ProjectMutex
            WITH holder <- IF owner = None THEN None ELSE owner[1],
                 inside <- {t \in Task : pc[t] \in HoldingPC}
MutexSpec == Mutex!Spec

-----------------------------------------------------------------------------
(* The inductive invariant behind the safety properties, for a file system *)
(* whose rename fails only when there is nothing to rename.                *)

\* n was published, or never will be: no task is about to publish it.
Spent(n) ==
    \/ n[2] < nonce[n[1]]
    \/ n[2] = nonce[n[1]] /\ pc[n[1]] # "publish"

DirShape ==
    ~Present => owner = None /\ claims = {}

NoncesSpent ==
    /\ owner # None => Spent(owner)
    /\ \A c \in claims : Spent(c.stale)
    /\ \A t \in Task : pc[t] \in RecoveryPC \cup {"probe"} =>
          Spent(seen[t])

\* A pid is tested for life only on the host it belongs to.
Locality ==
    \A t \in Task : pc[t] \in RecoveryPC \cup {"probe"} =>
        OnHostOf(t, OwnerPid(seen[t]))

Mortality ==
    /\ \A t \in Task : pc[t] # "dead" => PidOf[t] \in alive
    /\ \A t \in Task : pc[t] \in RecoveryPC => OwnerPid(seen[t]) \notin alive

\* A directory without an owner belongs to at most one live publisher.
Publishers ==
    /\ \A t \in Task :
          pc[t] \in {"publish", "unpublish"} => Present /\ owner = None
    /\ \A t, u \in Task :
          /\ pc[t] \in {"publish", "unpublish"}
          /\ pc[u] \in {"publish", "unpublish"}
          => t = u

\* At most one task is between making and removing a claim on the current
\* owner, and while there is one its claim directory exists.
Claimants ==
    /\ \A t \in Task : pc[t] \in ClaimingPC /\ seen[t] = owner =>
          ClaimsFor(owner) # {}
    /\ \A t, u \in Task :
          /\ pc[t] \in ClaimingPC /\ seen[t] = owner
          /\ pc[u] \in ClaimingPC /\ seen[u] = owner
          => t = u

Recoverers ==
    /\ \A t \in Task : pc[t] \in {"reprobe", "quarantine"} => owner = seen[t]
    /\ \A t \in Task : pc[t] = "retire" => owner # seen[t]
    /\ \A t \in Task : pc[t] \notin {"cleanup", "cleanupRm"}

\* What every reachable state satisfies: nonces of the directory, of claims
\* and of recoverers can never be published again, only one task publishes,
\* only one claims the current owner, holders own the directory.
IInv ==
    /\ DirShape /\ NoncesSpent /\ Locality /\ Mortality /\ Publishers
    /\ Claimants /\ Recoverers
    /\ HolderOwnsLock /\ NoClaimOnLiveOwner

-----------------------------------------------------------------------------
(* Liveness                                                                *)

\* A call that keeps coming back to the top of the loop finds its deadline
\* passed there: every round sleeps or makes file-system calls, and the
\* deadline is a fixed time.
Deadlines == \A t \in Task : SF_vars(GiveUp(t))

\* Every call ends: withProjectLock runs its operation and returns, or throws
\* its timeout, however the others contend, crash or leave directories behind.
EveryCallReturns ==
    Deadlines => \A t \in Task : pc[t] # "idle" ~> pc[t] \in {"idle", "dead"}

\* The documented availability tradeoff: a recoverer that died with its claim
\* in place blocks the recovery of that owner until somebody cleans up.
OrphanClaim ==
    \E c \in claims :
        /\ c.stale = owner
        /\ \A t \in Task :
              ~(pc[t] \in ClaimingPC \cup {"cleanup", "cleanupRm", "retire"}
                    /\ seen[t] = owner)

\* A lock whose owner is dead does not stay in the way of a task t of the same
\* host that keeps trying: it is recovered, unless t gives up or dies, its
\* owner's pid is given to a new process, a recoverer died holding the claim,
\* or a file-system call failed.
StaleLockIsRecovered ==
    \A t \in Task :
        /\ OwnerIsLocal(t) /\ PidOf[owner[1]] \notin alive
        /\ pc[t] = "classify"
        ~> \/ owner = None \/ PidOf[owner[1]] \in alive \cup recycled
           \/ pc[t] \in {"idle", "dead"}
           \/ OrphanClaim \/ faults # 0
=============================================================================
