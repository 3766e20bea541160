---------------------------- MODULE MemoryStore ----------------------------
(***************************************************************************)
(* The memory store of src/src/memory/store.ts: the two candidate          *)
(* STATE.json files of a project, the selection between them, each         *)
(* process's cache of that selection, and the transactions of              *)
(* mutateMemory under the cross-process project lock (ProjectMutex).       *)
(*                                                                         *)
(* A memory is its revision and the set of mutations it was computed from  *)
(* (its lineage).  A task makes one call of readMemoryState or             *)
(* mutateMemory at a time; every await between two file-system calls is a  *)
(* point where the other tasks and the environment may step.               *)
(***************************************************************************)
EXTENDS Naturals, FiniteSets

CONSTANTS
    Task,       \* asynchronous callers of the store
    Pid,        \* processes, each with a cache of its own
    PidOf,      \* [Task -> Pid]
    Uses,       \* [Task -> SUBSET CallKind], the calls each task makes
    None,       \* nobody
    EnvFaults,  \* what may befall a file: "readonly" (its directory refuses
                \*   writes), "unreadable" (EACCES), "corrupt"
    MaxFaults,  \* bound: such events in one behaviour
    MaxCalls,   \* bound: calls of one task
    MaxCrashes, \* bound: processes that die
    FineClock   \* does every write get an mtime of its own?

File == {"local", "global"}
CallKind == {"read", "mutate"}
Op == Task \X (0 .. MaxCalls)

ASSUME StoreAssumption ==
    /\ PidOf \in [Task -> Pid]
    /\ Uses \in [Task -> SUBSET CallKind]
    /\ None \notin Task
    /\ EnvFaults \subseteq {"readonly", "unreadable", "corrupt"}
    /\ MaxFaults \in Nat
    /\ MaxCalls \in Nat
    /\ MaxCrashes \in Nat
    /\ FineClock \in BOOLEAN

VARIABLES
    file,       \* the two STATE.json files
    readonly,   \* files whose directory cannot be written
    unreadable, \* files that stat answers for but that cannot be read
    saved,      \* corrupt files with a backup of their content
    clock,      \* file-system time; 0 is the mtime of a missing file
    cache,      \* each process's cached selection
    holder, inside, alive,      \* the project lock (ProjectMutex)
    pc,         \* where each task's call is
    kind,       \* the call: "read" or "mutate"
    calls,      \* calls each task has made
    mtime,      \* the mtimes a call found before it read
    read,       \* what a call found in each file
    base,       \* the selection a call works from (or returned)
    outcome,    \* how a mutation will be reported
    acked,      \* mutations reported committed
    refused,    \* mutations reported as anything else
    floor,      \* the authoritative revision when the call began; 0 when a
                \*   file was unreadable then, or damaged since
    faults

fileVars == <<file, saved, clock>>
envVars  == <<readonly, unreadable, faults>>
lockVars == <<holder, inside, alive>>
callVars == <<kind, calls, floor>>
readVars == <<mtime, read, base>>
reports  == <<acked, refused>>
vars == <<fileVars, envVars, lockVars, callVars, readVars, reports, cache, pc,
          outcome>>

Lock == INSTANCE ProjectMutex

FileState == [kind : {"none", "memory", "corrupt"}, rev : Nat,
              ops : SUBSET Op, mtime : Nat]
Candidate == [kind : {"unread", "none", "error", "memory"}, rev : Nat,
              ops : SUBSET Op, mtime : Nat]
Result == [status : {"none", "ok", "missing", "unavailable"}, rev : Nat,
           ops : SUBSET Op]
CacheEntry == [state : {"empty", "sound", "error"}, mtime : [File -> Nat],
               selected : Result]

NoFile == [kind |-> "none", rev |-> 0, ops |-> {}, mtime |-> 0]
Blank(k) == [kind |-> k, rev |-> 0, ops |-> {}, mtime |-> 0]
NoResult(s) == [status |-> s, rev |-> 0, ops |-> {}]
NoMtimes == [f \in File |-> 0]
Unread == [f \in File |-> Blank("unread")]
EmptyCache == [state |-> "empty", mtime |-> NoMtimes,
               selected |-> NoResult("none")]

CurrentOp(t) == <<t, calls[t]>>
WritingPC == {"writeLocal", "writeGlobal"}
AllPC == {"idle", "done", "dead", "lock", "mtimeLocal", "mtimeGlobal",
          "reading", "decide", "invalidate", "release"} \cup WritingPC

-----------------------------------------------------------------------------
(* candidateFrom and selectCandidate                                       *)

Parsed(f) == IF file[f].kind = "memory" THEN file[f] ELSE Blank("none")

\* A bug: a read error counts as a missing file.
CandidateFromSilent(f) == IF f \in unreadable THEN Blank("none") ELSE Parsed(f)

CandidateFrom(f) == IF f \in unreadable THEN Blank("error") ELSE Parsed(f)

\* A bug: the candidate itself is handed out.
ResultFromRaw(c) == c

ResultFrom(c) == [status |-> "ok", rev |-> c.rev, ops |-> c.ops]

\* The global candidate is the newer of two memories.
GlobalWins(l, g) ==
    \/ g.rev > l.rev
    \/ g.rev = l.rev /\ g.mtime > l.mtime

\* A bug: the project's own file is always preferred.
SelectLocalFirst(l, g) ==
    IF l.kind = "memory" THEN ResultFrom(l)
    ELSE IF g.kind = "memory" THEN ResultFrom(g)
    ELSE IF "error" \in {l.kind, g.kind} THEN NoResult("unavailable")
    ELSE NoResult("missing")

SelectCandidate(l, g) ==
    IF l.kind = "memory" /\ (g.kind # "memory" \/ ~GlobalWins(l, g))
    THEN ResultFrom(l)
    ELSE IF g.kind = "memory" THEN ResultFrom(g)
    ELSE IF "error" \in {l.kind, g.kind} THEN NoResult("unavailable")
    ELSE NoResult("missing")

\* The memory a reader with access to both files selects.
Authoritative == SelectCandidate(Parsed("local"), Parsed("global"))

-----------------------------------------------------------------------------
Init ==
    /\ file = [f \in File |-> NoFile]
    /\ readonly = {}
    /\ unreadable = {}
    /\ saved = {}
    /\ clock = 1
    /\ cache = [p \in Pid |-> EmptyCache]
    /\ Lock!Init
    /\ pc = [t \in Task |-> "idle"]
    /\ kind = [t \in Task |-> "read"]
    /\ calls = [t \in Task |-> 0]
    /\ mtime = [t \in Task |-> NoMtimes]
    /\ read = [t \in Task |-> Unread]
    /\ base = [t \in Task |-> NoResult("none")]
    /\ outcome = [t \in Task |-> "none"]
    /\ acked = {}
    /\ refused = {}
    /\ floor = [t \in Task |-> 0]
    /\ faults = 0

Goto(t, from, to) ==
    /\ pc[t] = from
    /\ pc' = [pc EXCEPT ![t] = to]

-----------------------------------------------------------------------------
(* The calls                                                               *)

Begin(t, k) ==
    /\ pc[t] \in {"idle", "done"}
    /\ calls[t] < MaxCalls
    /\ pc' = [pc EXCEPT ![t] = IF k = "read" THEN "mtimeLocal" ELSE "lock"]
    /\ kind' = [kind EXCEPT ![t] = k]
    /\ calls' = [calls EXCEPT ![t] = @ + 1]
    /\ floor' = [floor EXCEPT ![t] = IF unreadable = {} THEN Authoritative.rev
                                     ELSE 0]
    /\ base' = [base EXCEPT ![t] = NoResult("none")]
    /\ UNCHANGED <<fileVars, envVars, lockVars, mtime, read, reports, cache,
                   outcome>>

\* withProjectLock throws ProjectLockTimeoutError.
LockTimeout(t) ==
    /\ Goto(t, "lock", "done")
    /\ refused' = refused \cup {CurrentOp(t)}
    /\ UNCHANGED <<fileVars, envVars, lockVars, callVars, readVars, acked, cache,
                   outcome>>

\* A bug: the transaction goes ahead without the lock.
AcquireUnlocked(t) ==
    /\ Goto(t, "lock", "mtimeLocal")
    /\ inside' = inside \cup {t}
    /\ UNCHANGED <<fileVars, envVars, holder, alive, callVars, readVars, reports,
                   cache, outcome>>

Acquire(t) ==
    /\ Goto(t, "lock", "mtimeLocal")
    /\ Lock!Enter(t)
    /\ UNCHANGED <<fileVars, envVars, callVars, readVars, reports, cache,
                   outcome>>

-----------------------------------------------------------------------------
(* readMemoryState                                                         *)

MtimeLocal(t) ==
    /\ Goto(t, "mtimeLocal", "mtimeGlobal")
    /\ mtime' = [mtime EXCEPT ![t]["local"] = file["local"].mtime]
    /\ UNCHANGED <<fileVars, envVars, lockVars, callVars, read, base, reports,
                   cache, outcome>>

\* A bug: a selection derived from a read error is used again.
CacheHitOnError(t, found) ==
    /\ kind[t] = "read"
    /\ cache[PidOf[t]].state # "empty"
    /\ cache[PidOf[t]].mtime = found

\* The cache answers a read that does not bypass it, when neither file's
\* mtime has changed since the cached selection and no error went into it.
CacheHit(t, found) ==
    /\ kind[t] = "read"
    /\ cache[PidOf[t]].state = "sound"
    /\ cache[PidOf[t]].mtime = found

MtimeGlobal(t) ==
    LET found == [mtime[t] EXCEPT !["global"] = file["global"].mtime]
        hit == CacheHit(t, found)
    IN  /\ Goto(t, "mtimeGlobal", IF hit THEN "done" ELSE "reading")
        /\ mtime' = [mtime EXCEPT ![t] = IF hit THEN NoMtimes ELSE found]
        /\ base' = IF hit
                   THEN [base EXCEPT ![t] = cache[PidOf[t]].selected]
                   ELSE base
        /\ UNCHANGED <<fileVars, envVars, lockVars, callVars, read, reports,
                       cache, outcome>>

\* readFileResult on one candidate.  A corrupt file is backed up beside
\* itself, if that directory can be written.
ReadFile(t, f) ==
    /\ pc[t] = "reading"
    /\ read[t][f].kind = "unread"
    /\ read' = [read EXCEPT ![t][f] = CandidateFrom(f)]
    /\ saved' = IF /\ file[f].kind = "corrupt"
                   /\ f \notin unreadable \cup readonly
                THEN saved \cup {f} ELSE saved
    /\ UNCHANGED <<file, clock, envVars, lockVars, callVars, mtime, base,
                   reports, cache, pc, outcome>>

\* A bug: the cache entry is stamped with the mtimes found after reading.
StampLate(t) == [f \in File |-> file[f].mtime]

\* The mtimes the cache entry is stamped with.
Stamp(t) == mtime[t]

\* Both candidates are read: select, and cache the selection.
Select(t) ==
    LET candidates == {read[t][f] : f \in File}
        selected == SelectCandidate(read[t]["local"], read[t]["global"])
    IN  /\ \A f \in File : read[t][f].kind # "unread"
        /\ Goto(t, "reading", IF kind[t] = "read" THEN "done" ELSE "decide")
        /\ base' = [base EXCEPT ![t] = selected]
        /\ cache' = [cache EXCEPT ![PidOf[t]] =
              [state |-> IF \E c \in candidates : c.kind = "error"
                         THEN "error" ELSE "sound",
               mtime |-> Stamp(t),
               selected |-> selected]]
        /\ mtime' = [mtime EXCEPT ![t] = NoMtimes]
        /\ read' = [read EXCEPT ![t] = Unread]
        /\ UNCHANGED <<fileVars, envVars, lockVars, callVars, reports, outcome>>

-----------------------------------------------------------------------------
(* mutateMemory and commitMemoryExact                                      *)

\* The transaction ends without a write: the state is unavailable, the
\* callback chose a no-op (or threw), or the budget refused the result.
Decline(t, why) ==
    /\ Goto(t, "decide", "release")
    /\ (why = "unavailable") <=> (base[t].status = "unavailable")
    /\ outcome' = [outcome EXCEPT ![t] = why]
    /\ UNCHANGED <<fileVars, envVars, lockVars, callVars, readVars, reports,
                   cache>>

\* The callback has made a memory that fits the budget.
Commit(t) ==
    /\ Goto(t, "decide", "writeLocal")
    /\ base[t].status # "unavailable"
    /\ UNCHANGED <<fileVars, envVars, lockVars, callVars, readVars, reports,
                   cache, outcome>>

\* The committed memory fails validation or the byte cap.
CommitInvalid(t) ==
    /\ Goto(t, "decide", "invalidate")
    /\ base[t].status # "unavailable"
    /\ outcome' = [outcome EXCEPT ![t] = "commit-failed"]
    /\ UNCHANGED <<fileVars, envVars, lockVars, callVars, readVars, reports,
                   cache>>

NextMemory(t, now) ==
    [kind |-> "memory", rev |-> base[t].rev + 1,
     ops |-> base[t].ops \cup {CurrentOp(t)}, mtime |-> now]

\* The mtime of a write; with a coarse clock it may be that of the last.
WriteTimes == IF FineClock THEN {clock + 1} ELSE {clock, clock + 1}

\* The rename of atomicWrite puts a new, readable file in place.
Replace(t, f) ==
    /\ f \notin readonly
    /\ clock' \in WriteTimes
    /\ file' = [file EXCEPT ![f] = NextMemory(t, clock')]
    /\ unreadable' = unreadable \ {f}
    /\ saved' = saved \ {f}
    /\ UNCHANGED <<readonly, faults>>

Written(t) ==
    /\ outcome' = [outcome EXCEPT ![t] = "committed"]
    /\ UNCHANGED <<lockVars, callVars, readVars, reports, cache>>

\* A bug: the global file is written too, and its failure is reported.
WriteBoth(t) ==
    /\ Goto(t, "writeLocal", "writeGlobal")
    /\ Replace(t, "local")
    /\ UNCHANGED <<outcome, lockVars, callVars, readVars, reports, cache>>

WriteLocal(t) ==
    /\ Goto(t, "writeLocal", "invalidate")
    /\ Replace(t, "local")
    /\ Written(t)

\* The project's directory is read-only: try the global fallback.
FallBack(t) ==
    /\ Goto(t, "writeLocal", "writeGlobal")
    /\ "local" \in readonly
    /\ UNCHANGED <<fileVars, envVars, lockVars, callVars, readVars, reports,
                   cache, outcome>>

WriteGlobal(t) ==
    /\ Goto(t, "writeGlobal", "invalidate")
    /\ Replace(t, "global")
    /\ Written(t)

\* Both paths failed.
WriteFails(t) ==
    /\ Goto(t, "writeGlobal", "invalidate")
    /\ "global" \in readonly
    /\ outcome' = [outcome EXCEPT ![t] = "commit-failed"]
    /\ UNCHANGED <<fileVars, envVars, lockVars, callVars, readVars, reports,
                   cache>>

\* cache.delete, on success and on failure.
Invalidate(t) ==
    /\ Goto(t, "invalidate", "release")
    /\ cache' = [cache EXCEPT ![PidOf[t]] = EmptyCache]
    /\ UNCHANGED <<fileVars, envVars, lockVars, callVars, readVars, reports,
                   outcome>>

\* The lock is released (or could not be), then the caller gets its result.
Release(t) ==
    /\ Goto(t, "release", "done")
    /\ Lock!Exit(t) \/ Lock!Abandon(t)
    /\ IF outcome[t] = "committed"
       THEN acked' = acked \cup {CurrentOp(t)} /\ UNCHANGED refused
       ELSE refused' = refused \cup {CurrentOp(t)} /\ UNCHANGED acked
    /\ outcome' = [outcome EXCEPT ![t] = "none"]
    /\ base' = [base EXCEPT ![t] = NoResult("none")]
    /\ UNCHANGED <<fileVars, envVars, callVars, mtime, read, cache>>

-----------------------------------------------------------------------------
(* The environment                                                         *)

Fault(k) ==
    /\ k \in EnvFaults
    /\ faults < MaxFaults
    /\ faults' = faults + 1

Unaffected == UNCHANGED <<lockVars, kind, calls, readVars, reports, cache, pc,
                          outcome>>

MakeReadonly(f) ==
    /\ f \notin readonly
    /\ Fault("readonly")
    /\ readonly' = readonly \cup {f}
    /\ UNCHANGED <<fileVars, unreadable, floor>> /\ Unaffected

MakeWritable(f) ==
    /\ f \in readonly
    /\ readonly' = readonly \ {f}
    /\ UNCHANGED <<fileVars, unreadable, floor, faults>> /\ Unaffected

MakeUnreadable(f) ==
    /\ file[f].kind # "none" /\ f \notin unreadable
    /\ Fault("unreadable")
    /\ unreadable' = unreadable \cup {f}
    /\ floor' = [t \in Task |-> 0]
    /\ UNCHANGED <<fileVars, readonly>> /\ Unaffected

\* chmod back: the file's mtime does not change.
MakeReadable(f) ==
    /\ f \in unreadable
    /\ unreadable' = unreadable \ {f}
    /\ UNCHANGED <<fileVars, readonly, floor, faults>> /\ Unaffected

Corrupt(f) ==
    /\ file[f].kind = "memory"
    /\ Fault("corrupt")
    /\ clock' = clock + 1
    /\ file' = [file EXCEPT ![f] =
          [kind |-> "corrupt", rev |-> 0, ops |-> {}, mtime |-> clock + 1]]
    /\ floor' = [t \in Task |-> 0]
    /\ UNCHANGED <<saved, readonly, unreadable>> /\ Unaffected

Crash(p) ==
    /\ Cardinality(Pid \ alive) < MaxCrashes
    /\ Lock!Crash(p)
    /\ pc' = [t \in Task |-> IF PidOf[t] = p THEN "dead" ELSE pc[t]]
    /\ cache' = [cache EXCEPT ![p] = EmptyCache]
    /\ UNCHANGED <<fileVars, envVars, callVars, readVars, reports, outcome>>

RecoverLock ==
    /\ Lock!Recover
    /\ UNCHANGED <<fileVars, envVars, callVars, readVars, reports, cache, pc,
                   outcome>>

Finished ==
    /\ \A t \in Task : pc[t] = "dead" \/ (pc[t] = "done" /\ calls[t] = MaxCalls)
    /\ UNCHANGED vars

Reading(t) ==
    MtimeLocal(t) \/ MtimeGlobal(t) \/ (\E f \in File : ReadFile(t, f))
        \/ Select(t)
Locking(t) == LockTimeout(t) \/ Acquire(t) \/ Release(t)
Deciding(t) ==
    \/ \E why \in {"unavailable", "noop", "budget-rejected"} : Decline(t, why)
    \/ Commit(t) \/ CommitInvalid(t)
Writing(t) ==
    WriteLocal(t) \/ FallBack(t) \/ WriteGlobal(t) \/ WriteFails(t)
        \/ Invalidate(t)

Environment ==
    \/ \E f \in File :
          \/ MakeReadonly(f) \/ MakeWritable(f)
          \/ MakeUnreadable(f) \/ MakeReadable(f)
          \/ Corrupt(f)
    \/ \E p \in Pid : Crash(p)
    \/ RecoverLock

Next ==
    \/ \E t \in Task :
          \/ \E k \in Uses[t] : Begin(t, k)
          \/ Reading(t) \/ Locking(t) \/ Deciding(t) \/ Writing(t)
    \/ Environment
    \/ Finished

Spec == Init /\ [][Next]_vars
-----------------------------------------------------------------------------
(* Properties                                                              *)

TypeOK ==
    /\ file \in [File -> FileState]
    /\ readonly \subseteq File
    /\ unreadable \subseteq File
    /\ saved \subseteq File
    /\ clock \in Nat
    /\ cache \in [Pid -> CacheEntry]
    /\ holder \in Task \cup {None}
    /\ inside \subseteq Task
    /\ alive \subseteq Pid
    /\ pc \in [Task -> AllPC]
    /\ kind \in [Task -> CallKind]
    /\ calls \in [Task -> 0 .. MaxCalls]
    /\ mtime \in [Task -> [File -> Nat]]
    /\ read \in [Task -> [File -> Candidate]]
    /\ base \in [Task -> Result]
    /\ outcome \in [Task -> {"none", "committed", "noop", "budget-rejected",
                             "unavailable", "commit-failed"}]
    /\ acked \subseteq Op
    /\ refused \subseteq Op
    /\ floor \in [Task -> Nat]
    /\ faults \in Nat

\* No committed mutation is ever lost: whatever falls back to the global
\* file, crashes or contends, the memory a reader selects was computed from
\* every mutation that mutateMemory reported as committed.
NoLostUpdate == acked \subseteq Authoritative.ops

\* A mutation reported as a no-op, refused, timed out or failed is not in the
\* memory: the caller may try it again without applying it twice.
FailureLeavesNoTrace == refused \cap Authoritative.ops = {}

\* The revision counts the mutations in the memory: each committed one
\* advances it exactly once, over both files and all processes.
RevisionCountsCommits ==
    Authoritative.rev = Cardinality(Authoritative.ops)

\* A call never answers with less than what was committed when it began,
\* although it may be served from its process's cache: the two mtimes find
\* every change of either file.  (The floor is 0 after an environment fault.)
ReadsAreFresh ==
    \A t \in Task : pc[t] = "done" /\ kind[t] = "read" => base[t].rev >= floor[t]

\* A transaction starts from the empty memory only where there is none: each
\* file is absent, or corrupt with its content backed up; a file that cannot
\* be read never authorizes it.
EmptyInitOnlyWhenAbsent ==
    \A t \in Task : pc[t] \in WritingPC /\ base[t].status = "missing" =>
        \A f \in File : \/ file[f].kind = "none"
                        \/ file[f].kind = "corrupt" /\ f \in saved

\* The revision of the memory a reader selects never decreases.
RevisionIsMonotonic == [][Authoritative'.rev >= Authoritative.rev]_vars

\* The store is one memory that mutations change one at a time.
Register == INSTANCE MemoryRegister WITH memory <- Authoritative.ops
RegisterSpec == Register!Spec
-----------------------------------------------------------------------------
(* The inductive invariant behind the lineage properties, for files that   *)
(* stay readable and intact.                                               *)

LockedPC == {"mtimeLocal", "mtimeGlobal", "reading", "decide", "invalidate",
             "release"} \cup WritingPC

\* t is in the locked part of a transaction.
InTransaction(t) == kind[t] = "mutate" /\ pc[t] \in LockedPC

\* Only its holder, of a living process, is inside the lock.
LockDiscipline ==
    \A t \in Task :
        /\ t \in inside <=> InTransaction(t)
        /\ t \in inside => holder = t
        /\ pc[t] # "dead" => PidOf[t] \in alive
        /\ pc[t] \in {"lock", "decide", "invalidate", "release"} \cup WritingPC
              => kind[t] = "mutate"

\* What a transaction has read is what the files hold.
FilesSound ==
    /\ unreadable = {}
    /\ \A f \in File : file[f].kind # "corrupt"

ReadsSound ==
    \A t \in Task :
        /\ pc[t] \notin {"reading", "dead"} => read[t] = Unread
        /\ InTransaction(t) /\ pc[t] = "reading" => \A f \in File :
              read[t][f] \in {Blank("unread"), Parsed(f)}
        /\ InTransaction(t) /\ pc[t] \in {"decide"} \cup WritingPC =>
              base[t] = Authoritative

\* Where each call stands with the memory and the reports.
Accounting ==
    /\ \A o \in Authoritative.ops \cup acked \cup refused : o[2] <= calls[o[1]]
    /\ \A t \in Task :
          pc[t] = "lock" \/ InTransaction(t) =>
             /\ CurrentOp(t) \notin acked \cup refused
             /\ CurrentOp(t) \in Authoritative.ops
                   <=> /\ pc[t] \in {"invalidate", "release"}
                       /\ outcome[t] = "committed"

Lineage ==
    /\ IsFiniteSet(Authoritative.ops)
    /\ RevisionCountsCommits /\ NoLostUpdate /\ FailureLeavesNoTrace

IInv == LockDiscipline /\ FilesSound /\ ReadsSound /\ Accounting /\ Lineage
=============================================================================
