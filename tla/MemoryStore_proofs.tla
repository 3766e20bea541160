------------------------- MODULE MemoryStore_proofs -------------------------
(***************************************************************************)
(* Theorems about the memory store, for any number of tasks, processes,    *)
(* calls, crashes and directories that turn read-only and back; then about *)
(* what the calls read: that neither the caches of the processes nor files *)
(* that cannot be read hide what was committed, whatever the faults.       *)
(***************************************************************************)
EXTENDS MemoryStore, FiniteSetTheorems, TLAPS

(* Selection between typed candidates is typed.                            *)
LEMMA SelectType ==
    ASSUME NEW l \in Candidate, NEW g \in Candidate
    PROVE  SelectCandidate(l, g) \in Result
  BY DEF SelectCandidate, GlobalWins, ResultFrom, NoResult, Candidate, Result

LEMMA ParsedType ==
    ASSUME TypeOK, NEW f \in File
    PROVE  Parsed(f) \in Candidate /\ CandidateFrom(f) \in Candidate
  BY DEF TypeOK, Parsed, CandidateFrom, Blank, Candidate, FileState

LEMMA AuthoritativeType ==
    ASSUME TypeOK PROVE Authoritative \in Result
  BY ParsedType, SelectType DEF Authoritative, File

(* Type correctness of the store: files, caches, the progress of each call *)
(* and the reports stay in their types.                                    *)
THEOREM StoreTypeCorrect == Spec => []TypeOK
<1> USE StoreAssumption
<1>1. Init => TypeOK
  BY DEF Init, TypeOK, Lock!Init, NoFile, FileState, File, EmptyCache,
     CacheEntry, NoMtimes, NoResult, Result, AllPC, CallKind, Unread, Blank,
     Candidate, Op
<1>2. TypeOK /\ [Next]_vars => TypeOK'
  <2> SUFFICES ASSUME TypeOK, [Next]_vars PROVE TypeOK'
    OBVIOUS
  <2>0. Authoritative.rev \in Nat
    BY AuthoritativeType DEF Result
  <2> USE DEF Goto, fileVars, envVars, lockVars, callVars, readVars, reports
  <2>1. ASSUME NEW t \in Task, NEW k \in Uses[t], Begin(t, k) PROVE TypeOK'
    <3>1. k \in CallKind
      BY DEF CallKind
    <3>2. calls'[t] \in 0 .. MaxCalls /\ calls' \in [Task -> 0 .. MaxCalls]
      BY <2>1 DEF Begin, TypeOK
    <3>3. floor' \in [Task -> Nat] /\ base' \in [Task -> Result]
      BY <2>0, <2>1 DEF Begin, TypeOK, NoResult, Result
    <3> QED
      BY <2>1, <3>1, <3>2, <3>3 DEF Begin, TypeOK, AllPC
  <2>2. ASSUME NEW t \in Task, Locking(t) PROVE TypeOK'
    <3>1. CurrentOp(t) \in Op
      BY DEF CurrentOp, Op, TypeOK
    <3>2. CASE LockTimeout(t)
      BY <3>1, <3>2 DEF LockTimeout, TypeOK, AllPC
    <3>3. CASE Acquire(t)
      BY <3>3 DEF Acquire, Lock!Enter, TypeOK, AllPC
    <3>4. CASE Release(t)
      <4>1. /\ holder' \in Task \cup {None} /\ inside' \subseteq Task
            /\ alive' \subseteq Pid
        BY <3>4 DEF Release, Lock!Exit, Lock!Abandon, TypeOK
      <4>2. acked' \subseteq Op /\ refused' \subseteq Op
        BY <3>1, <3>4 DEF Release, TypeOK
      <4>3. base' \in [Task -> Result]
        BY <3>4 DEF Release, NoResult, Result, TypeOK
      <4> QED
        BY <3>4, <4>1, <4>2, <4>3 DEF Release, TypeOK, AllPC
    <3> QED
      BY <2>2, <3>2, <3>3, <3>4 DEF Locking
  <2>3. ASSUME NEW t \in Task, Reading(t) PROVE TypeOK'
    <3>1. CASE MtimeLocal(t)
      BY <3>1 DEF MtimeLocal, TypeOK, File, FileState, AllPC
    <3>2. CASE MtimeGlobal(t)
      <4>1. cache[PidOf[t]].selected \in Result
        BY DEF TypeOK, CacheEntry
      <4>2. [mtime[t] EXCEPT !["global"] = file["global"].mtime]
               \in [File -> Nat]
        BY DEF TypeOK, File, FileState
      <4>3. NoMtimes \in [File -> Nat]
        BY DEF NoMtimes
      <4>4. /\ mtime' \in [Task -> [File -> Nat]] /\ base' \in [Task -> Result]
            /\ pc' \in [Task -> AllPC]
        BY <3>2, <4>1, <4>2, <4>3 DEF MtimeGlobal, TypeOK, AllPC
      <4> QED
        BY <3>2, <4>4 DEF MtimeGlobal, TypeOK
    <3>3. ASSUME NEW f \in File, ReadFile(t, f) PROVE TypeOK'
      BY <3>3, ParsedType DEF ReadFile, TypeOK
    <3>4. CASE Select(t)
      <4>1. /\ read[t]["local"] \in Candidate /\ read[t]["global"] \in Candidate
            /\ mtime[t] \in [File -> Nat]
        BY DEF TypeOK, File
      <4>2. SelectCandidate(read[t]["local"], read[t]["global"]) \in Result
        BY <4>1, SelectType
      <4>3. cache' \in [Pid -> CacheEntry]
        BY <3>4, <4>1, <4>2 DEF Select, Stamp, TypeOK, CacheEntry
      <4>4. NoMtimes \in [File -> Nat] /\ Unread \in [File -> Candidate]
        BY DEF NoMtimes, Unread, Blank, Candidate
      <4> QED
        BY <3>4, <4>2, <4>3, <4>4 DEF Select, TypeOK, AllPC
    <3> QED
      BY <2>3, <3>1, <3>2, <3>3, <3>4 DEF Reading
  <2>4. ASSUME NEW t \in Task, Deciding(t) PROVE TypeOK'
    <3>1. ASSUME NEW why \in {"unavailable", "noop", "budget-rejected"},
                 Decline(t, why)
          PROVE  TypeOK'
      BY <3>1 DEF Decline, TypeOK, AllPC
    <3>2. CASE Commit(t) \/ CommitInvalid(t)
      BY <3>2 DEF Commit, CommitInvalid, TypeOK, AllPC, WritingPC
    <3> QED
      BY <2>4, <3>1, <3>2 DEF Deciding
  <2>5. ASSUME NEW t \in Task, Writing(t) PROVE TypeOK'
    <3>1. ASSUME NEW now \in Nat PROVE NextMemory(t, now) \in FileState
      BY DEF NextMemory, CurrentOp, TypeOK, Op, Result, FileState
    <3>2. ASSUME NEW f \in File, Replace(t, f)
          PROVE  /\ file' \in [File -> FileState] /\ clock' \in Nat
                 /\ unreadable' \subseteq File /\ saved' \subseteq File
                 /\ readonly' \subseteq File /\ faults' \in Nat
      BY <3>1, <3>2 DEF Replace, WriteTimes, TypeOK
    <3>3. CASE WriteLocal(t) \/ WriteGlobal(t)
      BY <3>2, <3>3 DEF WriteLocal, WriteGlobal, Written, File, TypeOK, AllPC
    <3>4. CASE FallBack(t) \/ WriteFails(t)
      BY <3>4 DEF FallBack, WriteFails, TypeOK, AllPC, WritingPC
    <3>5. CASE Invalidate(t)
      <4>1. EmptyCache \in CacheEntry
        BY DEF EmptyCache, CacheEntry, NoMtimes, NoResult, Result
      <4> QED
        BY <3>5, <4>1 DEF Invalidate, TypeOK, AllPC
    <3> QED
      BY <2>5, <3>3, <3>4, <3>5 DEF Writing
  <2>6. ASSUME Environment PROVE TypeOK'
    <3>1. CASE \E f \in File : \/ MakeReadonly(f) \/ MakeWritable(f)
                               \/ MakeUnreadable(f) \/ MakeReadable(f)
      BY <3>1 DEF MakeReadonly, MakeWritable, MakeUnreadable, MakeReadable,
         Unaffected, Fault, TypeOK
    <3>2. ASSUME NEW f \in File, Corrupt(f) PROVE TypeOK'
      <4>1. [kind |-> "corrupt", rev |-> 0, ops |-> {}, mtime |-> clock + 1]
               \in FileState
        BY DEF FileState, TypeOK
      <4> QED
        BY <3>2, <4>1 DEF Corrupt, Unaffected, Fault, TypeOK
    <3>4. ASSUME NEW p \in Pid, Crash(p) PROVE TypeOK'
      <4>1. EmptyCache \in CacheEntry
        BY DEF EmptyCache, CacheEntry, NoMtimes, NoResult, Result
      <4> QED
        BY <3>4, <4>1 DEF Crash, Lock!Crash, TypeOK, AllPC
    <3>5. CASE RecoverLock
      BY <3>5 DEF RecoverLock, Lock!Recover, TypeOK
    <3> QED
      BY <2>6, <3>1, <3>2, <3>4, <3>5 DEF Environment
  <2>7. CASE UNCHANGED vars
    BY <2>7 DEF vars, TypeOK
  <2> QED
    BY <2>1, <2>2, <2>3, <2>4, <2>5, <2>6, <2>7 DEF Next, Finished
<1> QED
  BY <1>1, <1>2, PTL DEF Spec
-----------------------------------------------------------------------------
(* The selection is a function of the two files.                           *)
LEMMA SelectionStable ==
    ASSUME file' = file PROVE Authoritative' = Authoritative /\
                              \A f \in File : Parsed(f)' = Parsed(f)
  BY DEF Authoritative, Parsed

(* Replacing either file by a memory of a higher revision makes that       *)
(* memory the one readers select.                                          *)
LEMMA ReplaceSelects ==
    ASSUME TypeOK, NEW t \in Task, NEW f \in File, Replace(t, f),
           base[t] = Authoritative
    PROVE  Authoritative' = [status |-> "ok", rev |-> Authoritative.rev + 1,
                             ops |-> Authoritative.ops \cup {CurrentOp(t)}]
<1> DEFINE new == NextMemory(t, clock')
<1>1. file' = [file EXCEPT ![f] = new]
  BY DEF Replace
<1>2. /\ new.kind = "memory" /\ new.rev = Authoritative.rev + 1
      /\ new.ops = Authoritative.ops \cup {CurrentOp(t)}
  BY DEF NextMemory
<1>3. Authoritative.rev \in Nat
  BY AuthoritativeType DEF Result
<1>4. \A g \in File : Parsed(g) \in Candidate
  BY ParsedType
<1>5. \A g \in File : Parsed(g).kind = "memory" => Parsed(g).rev <= Authoritative.rev
  BY <1>4 DEF Authoritative, SelectCandidate, GlobalWins, ResultFrom, NoResult,
     File, Candidate
<1>6. Parsed(f)' = new
  BY <1>1, <1>2 DEF Parsed, TypeOK
<1>7. \A g \in File \ {f} : Parsed(g)' = Parsed(g)
  BY <1>1 DEF Parsed, TypeOK
<1> HIDE DEF new
<1>8. CASE f = "local"
  <2>1. Authoritative' = SelectCandidate(new, Parsed("global"))
    BY <1>6, <1>7, <1>8 DEF Authoritative, File, SelectCandidate, GlobalWins,
       ResultFrom
  <2> QED
    BY <1>2, <1>3, <1>4, <1>5, <2>1 DEF SelectCandidate, GlobalWins,
       ResultFrom, File, Candidate
<1>9. CASE f = "global"
  <2>1. Authoritative' = SelectCandidate(Parsed("local"), new)
    BY <1>6, <1>7, <1>9 DEF Authoritative, File, SelectCandidate, GlobalWins,
       ResultFrom
  <2> QED
    BY <1>2, <1>3, <1>4, <1>5, <2>1 DEF SelectCandidate, GlobalWins,
       ResultFrom, File, Candidate
<1> QED
  BY <1>8, <1>9 DEF File

-----------------------------------------------------------------------------
(* The lock is used as ProjectMutex expects: who is inside holds it.       *)
LEMMA LockDisciplined ==
    ASSUME TypeOK, LockDiscipline, [Next]_vars PROVE LockDiscipline'
<1> USE StoreAssumption DEF LockDiscipline, InTransaction, LockedPC, WritingPC,
        Goto, lockVars, callVars
<1>1. ASSUME NEW t \in Task, NEW k \in Uses[t], Begin(t, k)
      PROVE  LockDiscipline'
  <2>1. k = "read" \/ k = "mutate"
    BY DEF CallKind
  <2>2. /\ pc[t] \in {"idle", "done"} /\ kind' = [kind EXCEPT ![t] = k]
        /\ pc' = [pc EXCEPT ![t] = IF k = "read" THEN "mtimeLocal" ELSE "lock"]
        /\ UNCHANGED <<holder, inside, alive>>
    BY <1>1 DEF Begin
  <2> QED
    BY <2>1, <2>2 DEF TypeOK
<1>2. ASSUME NEW t \in Task, LockTimeout(t) PROVE LockDiscipline'
  BY <1>2 DEF LockTimeout, TypeOK
<1>3. ASSUME NEW t \in Task, Acquire(t) PROVE LockDiscipline'
  BY <1>3 DEF Acquire, Lock!Enter, TypeOK
<1>4. ASSUME NEW t \in Task, Release(t) PROVE LockDiscipline'
  <2>1. /\ pc[t] = "release" /\ pc' = [pc EXCEPT ![t] = "done"]
        /\ inside' = inside \ {t} /\ UNCHANGED <<alive, kind>>
        /\ holder = t
    BY <1>4 DEF Release, Lock!Exit, Lock!Abandon
  <2>2. \A u \in Task : u \in inside => u = t
    BY <2>1
  <2> QED
    BY <2>1, <2>2 DEF TypeOK
<1>5. ASSUME NEW t \in Task, Reading(t) PROVE LockDiscipline'
  <2>1. CASE MtimeLocal(t)
    BY <2>1 DEF MtimeLocal, TypeOK
  <2>2. CASE MtimeGlobal(t)
    <3> DEFINE hit == CacheHit(t, [mtime[t] EXCEPT !["global"] =
                                                     file["global"].mtime])
    <3>1. hit => kind[t] = "read"
      BY DEF CacheHit
    <3>2. /\ pc[t] = "mtimeGlobal" /\ UNCHANGED <<lockVars, kind>>
          /\ \/ kind[t] = "read" /\ pc' = [pc EXCEPT ![t] = "done"]
             \/ pc' = [pc EXCEPT ![t] = "reading"]
      BY <2>2, <3>1 DEF MtimeGlobal
    <3> QED
      BY <3>2 DEF TypeOK
  <2>3. ASSUME NEW f \in File, ReadFile(t, f) PROVE LockDiscipline'
    BY <2>3 DEF ReadFile, TypeOK
  <2>4. CASE Select(t)
    BY <2>4 DEF Select, TypeOK, CallKind
  <2> QED
    BY <1>5, <2>1, <2>2, <2>3, <2>4 DEF Reading
<1>6. ASSUME NEW t \in Task, Deciding(t) PROVE LockDiscipline'
  <2>1. ASSUME NEW why \in {"unavailable", "noop", "budget-rejected"},
               Decline(t, why)
        PROVE  LockDiscipline'
    BY <2>1 DEF Decline, TypeOK
  <2>2. CASE Commit(t) \/ CommitInvalid(t)
    BY <2>2 DEF Commit, CommitInvalid, TypeOK
  <2> QED
    BY <1>6, <2>1, <2>2 DEF Deciding
<1>7. ASSUME NEW t \in Task, Writing(t) PROVE LockDiscipline'
  BY <1>7 DEF Writing, WriteLocal, WriteGlobal, FallBack, WriteFails,
     Invalidate, Written, TypeOK
<1>8. ASSUME Environment PROVE LockDiscipline'
  <2>1. CASE \E f \in File : \/ MakeReadonly(f) \/ MakeWritable(f)
                             \/ MakeUnreadable(f) \/ MakeReadable(f)
                             \/ Corrupt(f)
    BY <2>1 DEF MakeReadonly, MakeWritable, MakeUnreadable, MakeReadable,
       Corrupt, Unaffected
  <2>2. ASSUME NEW p \in Pid, Crash(p) PROVE LockDiscipline'
    BY <2>2 DEF Crash, Lock!Crash, TypeOK
  <2>3. CASE RecoverLock
    BY <2>3 DEF RecoverLock, Lock!Recover, TypeOK
  <2> QED
    BY <1>8, <2>1, <2>2, <2>3 DEF Environment
<1>9. CASE UNCHANGED vars
  BY <1>9 DEF vars
<1> QED
  BY <1>1, <1>2, <1>3, <1>4, <1>5, <1>6, <1>7, <1>8, <1>9
     DEF Next, Locking, Finished

(* At most one task is in a transaction.                                   *)
LEMMA OneTransaction ==
    ASSUME LockDiscipline, NEW t \in Task, NEW u \in Task,
           InTransaction(t), InTransaction(u)
    PROVE  t = u
  BY DEF LockDiscipline
-----------------------------------------------------------------------------
(* What a transaction has read stays what the files hold: nobody else      *)
(* writes while it is inside the lock.                                     *)
LEMMA FilesStaySound ==
    ASSUME EnvFaults \subseteq {"readonly"}, TypeOK, FilesSound, [Next]_vars
    PROVE  FilesSound'
<1> USE DEF FilesSound, fileVars, envVars
<1>1. ASSUME NEW t \in Task, NEW f \in File, Replace(t, f) PROVE FilesSound'
  BY <1>1 DEF Replace, NextMemory, TypeOK
<1>2. ASSUME NEW t \in Task, Writing(t) PROVE FilesSound'
  BY <1>1, <1>2 DEF Writing, WriteLocal, WriteGlobal, FallBack, WriteFails,
     Invalidate, File
<1>3. ASSUME NEW t \in Task, \/ \E k \in Uses[t] : Begin(t, k)
                             \/ Reading(t) \/ Locking(t) \/ Deciding(t)
      PROVE  FilesSound'
  BY <1>3 DEF Begin, Reading, MtimeLocal, MtimeGlobal, ReadFile, Select,
     Locking, LockTimeout, Acquire, Release, Deciding, Decline, Commit,
     CommitInvalid
<1>4. ASSUME Environment PROVE FilesSound'
  BY <1>4 DEF Environment, MakeReadonly, MakeWritable, MakeUnreadable,
     MakeReadable, Corrupt, Crash, RecoverLock, Fault
<1>5. CASE UNCHANGED vars
  BY <1>5 DEF vars
<1> QED
  BY <1>2, <1>3, <1>4, <1>5 DEF Next, Finished

LEMMA ReadsStaySound ==
    ASSUME EnvFaults \subseteq {"readonly"}, TypeOK, LockDiscipline,
           FilesSound, ReadsSound, [Next]_vars
    PROVE  ReadsSound'
<1> USE DEF ReadsSound, InTransaction, LockedPC, WritingPC, Goto
<1>0. \A f \in File : CandidateFrom(f) = Parsed(f) /\ Parsed(f).kind # "unread"
  BY DEF FilesSound, CandidateFrom, Parsed, Blank
<1>1. ASSUME NEW t \in Task, NEW k \in Uses[t], Begin(t, k) PROVE ReadsSound'
  <2>1. /\ pc[t] \in {"idle", "done"} /\ kind' = [kind EXCEPT ![t] = k]
        /\ pc' = [pc EXCEPT ![t] = IF k = "read" THEN "mtimeLocal" ELSE "lock"]
        /\ base' = [base EXCEPT ![t] = NoResult("none")]
        /\ file' = file /\ read' = read
    BY <1>1 DEF Begin, fileVars
  <2> QED
    BY <2>1, SelectionStable DEF TypeOK
<1>2. ASSUME NEW t \in Task, Locking(t) PROVE ReadsSound'
  <2>1. /\ pc[t] \in {"lock", "release"} /\ UNCHANGED <<file, kind, read>>
        /\ \A u \in Task \ {t} : base'[u] = base[u]
        /\ \/ pc' = [pc EXCEPT ![t] = "done"]
           \/ pc' = [pc EXCEPT ![t] = "mtimeLocal"]
    BY <1>2 DEF Locking, LockTimeout, Acquire, Release, fileVars, readVars,
       callVars, TypeOK
  <2> QED
    BY <2>1, SelectionStable DEF TypeOK
<1>3. ASSUME NEW t \in Task, Reading(t) PROVE ReadsSound'
  <2>1. CASE MtimeLocal(t)
    BY <2>1, SelectionStable DEF MtimeLocal, fileVars, callVars, TypeOK
  <2>2. CASE MtimeGlobal(t)
    <3>1. /\ pc[t] = "mtimeGlobal"
          /\ \/ pc' = [pc EXCEPT ![t] = "done"]
             \/ pc' = [pc EXCEPT ![t] = "reading"]
          /\ base' = [base EXCEPT ![t] = base'[t]]
          /\ file' = file /\ kind' = kind /\ read' = read
      BY <2>2 DEF MtimeGlobal, fileVars, callVars, TypeOK
    <3>2. read[t] = Unread /\ \A f \in File : read[t][f] = Blank("unread")
      BY <3>1 DEF Unread
    <3>3. \A u \in Task \ {t} : pc'[u] = pc[u] /\ base'[u] = base[u]
      BY <3>1 DEF TypeOK
    <3>4. pc'[t] \in {"done", "reading"}
      BY <3>1 DEF TypeOK
    <3> QED
      BY <3>1, <3>2, <3>3, <3>4, SelectionStable
  <2>3. ASSUME NEW f \in File, ReadFile(t, f) PROVE ReadsSound'
    <3>1. /\ pc[t] = "reading" /\ UNCHANGED <<pc, kind, base, file>>
          /\ read' = [read EXCEPT ![t][f] = Parsed(f)]
      BY <2>3, <1>0 DEF ReadFile, callVars
    <3>2. \A g \in File : read'[t][g] \in {read[t][g], Parsed(g)}
      BY <3>1 DEF TypeOK
    <3>3. \A u \in Task \ {t} : read'[u] = read[u]
      BY <3>1 DEF TypeOK
    <3> QED
      BY <3>1, <3>2, <3>3, SelectionStable
  <2>4. CASE Select(t)
    <3>1. /\ pc[t] = "reading" /\ \A f \in File : read[t][f].kind # "unread"
          /\ pc' = [pc EXCEPT ![t] = IF kind[t] = "read" THEN "done"
                                                        ELSE "decide"]
          /\ base' = [base EXCEPT ![t] = SelectCandidate(read[t]["local"],
                                                         read[t]["global"])]
          /\ read' = [read EXCEPT ![t] = Unread]
          /\ UNCHANGED <<kind, file>>
      BY <2>4 DEF Select, fileVars, callVars
    <3>2. InTransaction(t) => base'[t] = Authoritative
      <4> SUFFICES ASSUME InTransaction(t) PROVE base'[t] = Authoritative
        OBVIOUS
      <4>1. \A f \in File : read[t][f] = Parsed(f)
        BY <3>1 DEF Blank
      <4> QED
        BY <3>1, <4>1 DEF Authoritative, File, TypeOK
    <3>3. \A u \in Task \ {t} : /\ read'[u] = read[u] /\ base'[u] = base[u]
                               /\ pc'[u] = pc[u]
      BY <3>1 DEF TypeOK
    <3>4. read'[t] = Unread /\ pc'[t] \in {"done", "decide"}
      BY <3>1 DEF TypeOK
    <3>5. pc'[t] = "decide" => InTransaction(t)
      BY <3>1 DEF TypeOK, CallKind
    <3> QED
      BY <3>1, <3>2, <3>3, <3>4, <3>5, SelectionStable
  <2> QED
    BY <1>3, <2>1, <2>2, <2>3, <2>4 DEF Reading
<1>4. ASSUME NEW t \in Task, Deciding(t) PROVE ReadsSound'
  BY <1>4, SelectionStable DEF Deciding, Decline, Commit, CommitInvalid,
     fileVars, readVars, callVars, TypeOK
<1>5. ASSUME NEW t \in Task, Writing(t) PROVE ReadsSound'
  <2>1. CASE FallBack(t) \/ WriteFails(t) \/ Invalidate(t)
    <3>1. /\ UNCHANGED <<file, kind, read, base>>
          /\ \/ pc[t] = "writeLocal" /\ pc' = [pc EXCEPT ![t] = "writeGlobal"]
             \/ pc[t] = "writeGlobal" /\ pc' = [pc EXCEPT ![t] = "invalidate"]
             \/ pc[t] = "invalidate" /\ pc' = [pc EXCEPT ![t] = "release"]
      BY <2>1 DEF FallBack, WriteFails, Invalidate, fileVars, readVars, callVars
    <3> QED
      BY <3>1, SelectionStable DEF TypeOK
  <2>2. CASE WriteLocal(t) \/ WriteGlobal(t)
    <3>1. /\ pc[t] \in WritingPC /\ pc' = [pc EXCEPT ![t] = "invalidate"]
          /\ UNCHANGED <<kind, read, base>>
      BY <2>2 DEF WriteLocal, WriteGlobal, Written, callVars, readVars
    <3>2. InTransaction(t)
      BY <3>1 DEF LockDiscipline
    <3>3. \A u \in Task : InTransaction(u) => u = t
      BY <3>2, OneTransaction
    <3> QED
      BY <3>1, <3>3 DEF TypeOK
  <2> QED
    BY <1>5, <2>1, <2>2 DEF Writing
<1>6. ASSUME Environment PROVE ReadsSound'
  <2>1. file' = file
    BY <1>6 DEF Environment, MakeReadonly, MakeWritable, MakeUnreadable,
       MakeReadable, Corrupt, Crash, RecoverLock, Fault, fileVars
  <2>2. ASSUME NEW p \in Pid, Crash(p) PROVE ReadsSound'
    BY <2>1, <2>2, SelectionStable DEF Crash, readVars, callVars, TypeOK
  <2>3. CASE ~\E p \in Pid : Crash(p)
    <3>1. UNCHANGED <<kind, read, base, pc>>
      BY <1>6, <2>3 DEF Environment, MakeReadonly, MakeWritable,
         MakeUnreadable, MakeReadable, Corrupt, RecoverLock, Unaffected,
         readVars, callVars
    <3> QED
      BY <2>1, <3>1, SelectionStable
  <2> QED
    BY <2>2, <2>3
<1>7. CASE UNCHANGED vars
  BY <1>7, SelectionStable DEF vars, fileVars, readVars, callVars
<1> QED
  BY <1>1, <1>2, <1>3, <1>4, <1>5, <1>6, <1>7 DEF Next, Finished

-----------------------------------------------------------------------------
(* Every step keeps the books: what is in the memory, what was reported.   *)
LEMMA BooksKept ==
    ASSUME EnvFaults \subseteq {"readonly"}, TypeOK, IInv, [Next]_vars
    PROVE  Accounting' /\ Lineage'
<1> USE DEF IInv, LockDiscipline, InTransaction, LockedPC, WritingPC, Goto,
            NoLostUpdate, FailureLeavesNoTrace, RevisionCountsCommits
<1> DEFINE Quiet == UNCHANGED <<file, calls, acked, refused>>
<1>0. /\ Authoritative.ops \subseteq Op /\ Authoritative.rev \in Nat
      /\ \A t \in Task : calls[t] \in Nat
  BY AuthoritativeType, StoreAssumption DEF Result, TypeOK
\* A step that leaves files, calls and reports alone, and under which no
\* call enters a transaction or changes sides about its commit.
<1>1. ASSUME Quiet,
             \A t \in Task : (pc[t] = "lock" \/ InTransaction(t))' =>
                /\ pc[t] = "lock" \/ InTransaction(t)
                /\ (pc[t] \in {"invalidate", "release"} /\ outcome[t] = "committed")'
                      <=> (pc[t] \in {"invalidate", "release"} /\ outcome[t] = "committed")
      PROVE  Accounting' /\ Lineage'
  BY <1>1, SelectionStable DEF Accounting, Lineage, CurrentOp
<1>2. ASSUME NEW t \in Task, NEW k \in Uses[t], Begin(t, k)
      PROVE  Accounting' /\ Lineage'
  <2>1. /\ pc[t] \in {"idle", "done"} /\ UNCHANGED <<file, acked, refused>>
        /\ pc' = [pc EXCEPT ![t] = IF k = "read" THEN "mtimeLocal" ELSE "lock"]
        /\ calls' = [calls EXCEPT ![t] = @ + 1]
        /\ kind' = [kind EXCEPT ![t] = k]
        /\ outcome' = outcome
    BY <1>2 DEF Begin, fileVars, reports
  <2>2. Lineage'
    BY <2>1, SelectionStable DEF Lineage
  <2>3. acked \subseteq Op /\ refused \subseteq Op
    BY DEF TypeOK
  <2>4. \A o \in Op : o[2] <= calls[o[1]] => o[2] <= calls'[o[1]]
    BY <1>0, <2>1 DEF Op, TypeOK
  <2>5. <<t, calls[t] + 1>> \notin Authoritative.ops \cup acked \cup refused
    BY <1>0 DEF Accounting
  <2>6. CurrentOp(t)' = <<t, calls[t] + 1>>
    BY <2>1 DEF CurrentOp, TypeOK
  <2>7. \A u \in Task \ {t} : /\ CurrentOp(u)' = CurrentOp(u) /\ pc'[u] = pc[u]
                             /\ kind'[u] = kind[u] /\ outcome'[u] = outcome[u]
    BY <2>1 DEF CurrentOp, TypeOK
  <2>8. \A o \in (Authoritative.ops \cup acked \cup refused)' :
           o[2] <= calls'[o[1]]
    BY <1>0, <2>1, <2>3, <2>4, SelectionStable DEF Accounting
  <2>9. pc'[t] \notin {"invalidate", "release"}
    BY <2>1 DEF TypeOK
  <2> QED
    BY <2>1, <2>2, <2>5, <2>6, <2>7, <2>8, <2>9, SelectionStable DEF Accounting
<1>3. ASSUME NEW t \in Task, LockTimeout(t) \/ Release(t)
      PROVE  Accounting' /\ Lineage'
  <2>1. /\ pc[t] = "lock" \/ InTransaction(t)
        /\ pc' = [pc EXCEPT ![t] = "done"]
        /\ UNCHANGED <<file, calls, kind>>
    BY <1>3 DEF LockTimeout, Release, fileVars, callVars
  <2>2. \/ /\ CurrentOp(t) \in Authoritative.ops
           /\ acked' = acked \cup {CurrentOp(t)} /\ refused' = refused
        \/ /\ CurrentOp(t) \notin Authoritative.ops
           /\ refused' = refused \cup {CurrentOp(t)} /\ acked' = acked
    BY <1>3, <2>1 DEF LockTimeout, Release, Accounting
  <2>3. \A u \in Task \ {t} : outcome'[u] = outcome[u] /\ pc'[u] = pc[u]
    BY <1>3, <2>1 DEF LockTimeout, Release, TypeOK
  <2>4. \A u \in Task : CurrentOp(u)' = CurrentOp(u)
    BY <2>1 DEF CurrentOp
  <2>5. \A u \in Task \ {t} : CurrentOp(u) # CurrentOp(t)
    BY DEF CurrentOp
  <2>6. CurrentOp(t)[2] <= calls[CurrentOp(t)[1]]
    BY <1>0 DEF CurrentOp
  <2>7. pc'[t] = "done"
    BY <2>1 DEF TypeOK
  <2>8. Lineage'
    BY <2>1, <2>2, SelectionStable DEF Lineage, Accounting
  <2>9. Accounting'
    <3> HIDE DEF IInv
    <3>0. Accounting /\ Authoritative' = Authoritative
      BY <2>1, SelectionStable DEF IInv
    <3>1. \A o \in (Authoritative.ops \cup acked \cup refused)' :
             o[2] <= calls'[o[1]]
      BY <3>0, <2>1, <2>2, <2>6 DEF Accounting
    <3>2. \A u \in Task \ {t} : (CurrentOp(u) \notin acked \cup refused)' <=>
                                CurrentOp(u) \notin acked \cup refused
      BY <2>2, <2>4, <2>5
    <3> QED
      BY <3>0, <3>1, <3>2, <2>1, <2>3, <2>4, <2>7 DEF Accounting
  <2> QED
    BY <2>8, <2>9
<1>4. ASSUME NEW t \in Task, Acquire(t) \/ Reading(t)
      PROVE  Accounting' /\ Lineage'
  <2>1. Quiet /\ UNCHANGED <<kind, outcome>>
    BY <1>4 DEF Acquire, Reading, MtimeLocal, MtimeGlobal, ReadFile, Select,
       fileVars, callVars, reports
  <2>2. /\ pc[t] \in {"lock", "mtimeLocal", "mtimeGlobal", "reading"}
        /\ pc' = [pc EXCEPT ![t] = pc'[t]]
        /\ pc'[t] \notin {"lock", "invalidate", "release"}
    BY <1>4 DEF Acquire, Reading, MtimeLocal, MtimeGlobal, ReadFile, Select,
       TypeOK
  <2>3. \A u \in Task \ {t} : pc'[u] = pc[u]
    BY <2>2 DEF TypeOK
  <2>4. (pc[t] = "lock" \/ InTransaction(t))' => pc[t] = "lock" \/ InTransaction(t)
    BY <2>1, <2>2
  <2> QED
    BY <1>1, <2>1, <2>2, <2>3, <2>4
<1>5. ASSUME NEW t \in Task, \/ Deciding(t)
                             \/ FallBack(t) \/ WriteFails(t) \/ Invalidate(t)
      PROVE  Accounting' /\ Lineage'
  <2>1. Quiet /\ kind' = kind
    BY <1>5 DEF Deciding, Decline, Commit, CommitInvalid, FallBack, WriteFails,
       Invalidate, fileVars, callVars, reports
  <2>2. /\ pc[t] \in {"decide", "invalidate"} \cup WritingPC
        /\ pc' = [pc EXCEPT ![t] = pc'[t]]
        /\ \/ pc[t] = "invalidate" /\ pc'[t] = "release" /\ outcome' = outcome
           \/ pc[t] # "invalidate" /\ pc'[t] \in WritingPC /\ outcome' = outcome
           \/ /\ pc[t] # "invalidate" /\ pc'[t] \in {"invalidate", "release"}
              /\ outcome' = [outcome EXCEPT ![t] = outcome'[t]]
              /\ outcome'[t] # "committed"
    BY <1>5 DEF Deciding, Decline, Commit, CommitInvalid, FallBack, WriteFails,
       Invalidate, TypeOK
  <2> QED
    BY <1>1, <2>1, <2>2 DEF TypeOK
<1>6. ASSUME NEW t \in Task, WriteLocal(t) \/ WriteGlobal(t)
      PROVE  Accounting' /\ Lineage'
  <2>1. /\ pc[t] \in WritingPC /\ pc' = [pc EXCEPT ![t] = "invalidate"]
        /\ outcome' = [outcome EXCEPT ![t] = "committed"]
        /\ UNCHANGED <<kind, calls, acked, refused>>
        /\ Replace(t, "local") \/ Replace(t, "global")
    BY <1>6 DEF WriteLocal, WriteGlobal, Written, callVars, reports
  <2>2. InTransaction(t) /\ base[t] = Authoritative
    BY <2>1 DEF ReadsSound
  <2>3. Authoritative' = [status |-> "ok", rev |-> Authoritative.rev + 1,
                          ops |-> Authoritative.ops \cup {CurrentOp(t)}]
    BY <2>1, <2>2, ReplaceSelects DEF File
  <2>4. CurrentOp(t) \notin Authoritative.ops \cup acked \cup refused
    BY <2>1, <2>2 DEF Accounting
  <2>5. Lineage'
    <3>1. /\ IsFiniteSet(Authoritative'.ops)
          /\ Cardinality(Authoritative'.ops) = Cardinality(Authoritative.ops) + 1
      BY <2>3, <2>4, FS_AddElement DEF Lineage
    <3> QED
      BY <2>1, <2>3, <2>4, <3>1 DEF Lineage
  <2>6. \A u \in Task : CurrentOp(u)' = CurrentOp(u)
    BY <2>1 DEF CurrentOp
  <2>7. \A u \in Task \ {t} : /\ CurrentOp(u) # CurrentOp(t)
                             /\ outcome'[u] = outcome[u] /\ pc'[u] = pc[u]
    BY <2>1 DEF CurrentOp, TypeOK
  <2>8. CurrentOp(t)[2] <= calls[CurrentOp(t)[1]]
    BY <1>0 DEF CurrentOp
  <2>9. pc'[t] = "invalidate" /\ outcome'[t] = "committed"
    BY <2>1 DEF TypeOK
  <2>10. Accounting'
    <3> HIDE DEF IInv
    <3>0. Accounting
      BY DEF IInv
    <3>1. \A o \in (Authoritative.ops \cup acked \cup refused)' :
             o[2] <= calls'[o[1]]
      BY <3>0, <2>1, <2>3, <2>8 DEF Accounting
    <3> QED
      BY <3>0, <3>1, <2>1, <2>2, <2>3, <2>4, <2>6, <2>7, <2>9 DEF Accounting
  <2> QED
    BY <2>5, <2>10
<1>7. ASSUME Environment PROVE Accounting' /\ Lineage'
  <2>1. Quiet /\ UNCHANGED <<kind, outcome>>
    BY <1>7 DEF Environment, MakeReadonly, MakeWritable, MakeUnreadable,
       MakeReadable, Corrupt, Crash, RecoverLock, Fault, Unaffected,
       fileVars, callVars, reports
  <2>2. \A t \in Task : pc'[t] \in {pc[t], "dead"}
    BY <1>7 DEF Environment, MakeReadonly, MakeWritable, MakeUnreadable,
       MakeReadable, Corrupt, Crash, RecoverLock, Unaffected
  <2> QED
    BY <1>1, <2>1, <2>2
<1>8. CASE UNCHANGED vars
  BY <1>1, <1>8 DEF vars, fileVars, callVars, reports
<1> QED
  BY <1>2, <1>3, <1>4, <1>5, <1>6, <1>7, <1>8
     DEF Next, Locking, Writing, Finished
-----------------------------------------------------------------------------
(* The inductive invariant of the store: lock discipline, sound reads and  *)
(* exact books.                                                            *)
THEOREM StoreInvariance ==
    ASSUME EnvFaults \subseteq {"readonly"}
    PROVE  Spec => []IInv
<1>1. Init => IInv
  <2> SUFFICES ASSUME Init PROVE IInv
    OBVIOUS
  <2> USE DEF Init, Lock!Init
  <2>1. Authoritative = NoResult("missing")
    BY DEF Authoritative, SelectCandidate, Parsed, NoFile, Blank, File
  <2>2. Authoritative.ops = {} /\ Authoritative.rev = 0
    BY <2>1 DEF NoResult
  <2>3. LockDiscipline
    BY StoreAssumption DEF LockDiscipline, InTransaction, LockedPC, WritingPC
  <2>4. FilesSound /\ ReadsSound
    BY DEF FilesSound, ReadsSound, InTransaction, LockedPC, WritingPC, NoFile
  <2>5. Accounting
    BY <2>2 DEF Accounting, InTransaction, LockedPC, WritingPC
  <2>6. Lineage
    BY <2>2, FS_EmptySet DEF Lineage, RevisionCountsCommits, NoLostUpdate,
       FailureLeavesNoTrace
  <2> QED
    BY <2>3, <2>4, <2>5, <2>6 DEF IInv
<1>2. TypeOK /\ IInv /\ [Next]_vars => IInv'
  BY LockDisciplined, FilesStaySound, ReadsStaySound, BooksKept DEF IInv
<1> QED
  BY <1>1, <1>2, StoreTypeCorrect, PTL DEF Spec

(* Every mutation reported as committed is in the memory readers select,   *)
(* over any history of fallbacks, crashes and contention.                  *)
THEOREM CommitsAreKept ==
    ASSUME EnvFaults \subseteq {"readonly"}
    PROVE  Spec => []NoLostUpdate
<1>1. IInv => NoLostUpdate
  BY DEF IInv, Lineage
<1> QED
  BY <1>1, StoreInvariance, PTL

(* No mutation reported as failed, refused or timed out is in the memory.  *)
THEOREM FailuresAreClean ==
    ASSUME EnvFaults \subseteq {"readonly"}
    PROVE  Spec => []FailureLeavesNoTrace
<1>1. IInv => FailureLeavesNoTrace
  BY DEF IInv, Lineage
<1> QED
  BY <1>1, StoreInvariance, PTL

(* The revision is the number of mutations in the memory.                  *)
THEOREM RevisionCounts ==
    ASSUME EnvFaults \subseteq {"readonly"}
    PROVE  Spec => []RevisionCountsCommits
<1>1. IInv => RevisionCountsCommits
  BY DEF IInv, Lineage
<1> QED
  BY <1>1, StoreInvariance, PTL

-----------------------------------------------------------------------------
(* What a step does to the selected memory: nothing, or the rename of one  *)
(* transaction adds its own mutation and one revision.                     *)
LEMMA StepOnMemory ==
    ASSUME EnvFaults \subseteq {"readonly"}, TypeOK, IInv, [Next]_vars
    PROVE  \/ Authoritative' = Authoritative
           \/ /\ UNCHANGED <<acked, refused>>
              /\ \E t \in Task :
                    /\ CurrentOp(t) \notin Authoritative.ops \cup acked \cup refused
                    /\ Authoritative' =
                         [status |-> "ok", rev |-> Authoritative.rev + 1,
                          ops |-> Authoritative.ops \cup {CurrentOp(t)}]
<1>1. ASSUME NEW t \in Task, WriteLocal(t) \/ WriteGlobal(t)
      PROVE  /\ UNCHANGED <<acked, refused>>
             /\ CurrentOp(t) \notin Authoritative.ops \cup acked \cup refused
             /\ Authoritative' =
                  [status |-> "ok", rev |-> Authoritative.rev + 1,
                   ops |-> Authoritative.ops \cup {CurrentOp(t)}]
  <2>1. /\ pc[t] \in WritingPC /\ UNCHANGED <<acked, refused>>
        /\ Replace(t, "local") \/ Replace(t, "global")
    BY <1>1 DEF WriteLocal, WriteGlobal, Written, Goto, WritingPC, reports
  <2>2. InTransaction(t)
    BY <2>1 DEF IInv, LockDiscipline, InTransaction, LockedPC, WritingPC
  <2>3. base[t] = Authoritative
    BY <2>1, <2>2 DEF IInv, ReadsSound
  <2>4. CurrentOp(t) \notin Authoritative.ops \cup acked \cup refused
    BY <2>1, <2>2 DEF IInv, Accounting, WritingPC
  <2> QED
    BY <2>1, <2>3, <2>4, ReplaceSelects DEF File
<1>2. ASSUME NEW t \in Task,
             ~(WriteLocal(t) \/ WriteGlobal(t)),
             \/ \E k \in Uses[t] : Begin(t, k)
             \/ Reading(t) \/ Locking(t) \/ Deciding(t) \/ Writing(t)
      PROVE  file' = file
  BY <1>2 DEF Begin, Reading, MtimeLocal, MtimeGlobal, ReadFile, Select,
     Locking, LockTimeout, Acquire, Release, Deciding, Decline, Commit,
     CommitInvalid, Writing, FallBack, WriteFails, Invalidate, fileVars
<1>3. ASSUME Environment PROVE file' = file
  BY <1>3 DEF Environment, MakeReadonly, MakeWritable, MakeUnreadable,
     MakeReadable, Corrupt, Crash, RecoverLock, Fault, fileVars
<1>4. CASE UNCHANGED vars
  BY <1>4, SelectionStable DEF vars, fileVars
<1>5. CASE \E t \in Task : WriteLocal(t) \/ WriteGlobal(t)
  BY <1>1, <1>5
<1>6. CASE ~\E t \in Task : WriteLocal(t) \/ WriteGlobal(t)
  BY <1>2, <1>3, <1>4, <1>6, SelectionStable DEF Next, Finished
<1> QED
  BY <1>5, <1>6

(* The revision a reader selects never decreases, over both files.         *)
THEOREM RevisionMonotonic ==
    ASSUME EnvFaults \subseteq {"readonly"}
    PROVE  Spec => RevisionIsMonotonic
<1>1. TypeOK /\ IInv /\ [Next]_vars =>
         [Authoritative'.rev >= Authoritative.rev]_vars
  <2>1. ASSUME TypeOK, IInv, [Next]_vars
        PROVE  Authoritative'.rev >= Authoritative.rev
    <3>1. Authoritative.rev \in Nat
      BY <2>1, AuthoritativeType DEF Result
    <3> QED
      BY <2>1, <3>1, StepOnMemory
  <2> QED
    BY <2>1
<1> QED
  BY <1>1, StoreTypeCorrect, StoreInvariance, PTL DEF Spec, RevisionIsMonotonic

(* The two files, their caches and the transactions implement one memory   *)
(* that mutations change one at a time, with truthful reports.             *)
THEOREM ImplementsRegister ==
    ASSUME EnvFaults \subseteq {"readonly"}
    PROVE  Spec => RegisterSpec
<1>1. Init => Register!Init
  <2> SUFFICES ASSUME Init PROVE Register!Init
    OBVIOUS
  <2>1. Authoritative.ops = {}
    BY DEF Init, Authoritative, SelectCandidate, Parsed, NoFile, Blank, File,
       NoResult
  <2> QED
    BY <2>1 DEF Init, Register!Init
<1>2. TypeOK /\ IInv /\ [Next]_vars => [Register!Next]_(Register!registerVars)
  <2> SUFFICES ASSUME TypeOK, IInv, [Next]_vars
               PROVE  Register!Next \/ UNCHANGED Register!registerVars
    OBVIOUS
  <2>0. \A t \in Task : CurrentOp(t) \in Op
    BY DEF CurrentOp, Op, TypeOK
  <2>1. CASE Authoritative' # Authoritative
    <3>1. PICK t \in Task :
             /\ UNCHANGED <<acked, refused>>
             /\ CurrentOp(t) \notin Authoritative.ops \cup acked \cup refused
             /\ Authoritative'.ops = Authoritative.ops \cup {CurrentOp(t)}
      BY <2>1, StepOnMemory
    <3>2. Register!Commit(CurrentOp(t))
      BY <3>1 DEF Register!Commit
    <3> QED
      BY <2>0, <3>2 DEF Register!Next
  <2>2. CASE Authoritative' = Authoritative
    <3>1. ASSUME NEW t \in Task, LockTimeout(t) \/ Release(t)
          PROVE  Register!Next
      <4>1. pc[t] = "lock" \/ (pc[t] = "release" /\ InTransaction(t))
        BY <3>1 DEF LockTimeout, Release, Goto, IInv, LockDiscipline,
           InTransaction, LockedPC
      <4>2. /\ CurrentOp(t) \notin acked \cup refused
            /\ CurrentOp(t) \in Authoritative.ops
                  <=> pc[t] = "release" /\ outcome[t] = "committed"
        BY <4>1 DEF IInv, Accounting, InTransaction
      <4>3. Register!Acknowledge(CurrentOp(t)) \/ Register!Refuse(CurrentOp(t))
        BY <2>2, <3>1, <4>2 DEF LockTimeout, Release, Goto,
           Register!Acknowledge, Register!Refuse
      <4> QED
        BY <2>0, <4>3 DEF Register!Next
    <3>2. ASSUME NEW t \in Task,
                 \/ \E k \in Uses[t] : Begin(t, k)
                 \/ Reading(t) \/ Acquire(t) \/ Deciding(t) \/ Writing(t)
          PROVE  UNCHANGED <<acked, refused>>
      BY <3>2 DEF Begin, Reading, MtimeLocal, MtimeGlobal, ReadFile, Select,
         Acquire, Deciding, Decline, Commit, CommitInvalid, Writing,
         WriteLocal, FallBack, WriteGlobal, WriteFails, Invalidate, Written,
         reports
    <3>3. ASSUME Environment PROVE UNCHANGED <<acked, refused>>
      BY <3>3 DEF Environment, MakeReadonly, MakeWritable, MakeUnreadable,
         MakeReadable, Corrupt, Crash, RecoverLock, Unaffected, reports
    <3>4. ASSUME UNCHANGED vars PROVE UNCHANGED <<acked, refused>>
      BY <3>4 DEF vars, reports
    <3>5. Register!Next \/ UNCHANGED <<acked, refused>>
      BY <3>1, <3>2, <3>3, <3>4 DEF Next, Locking, Finished
    <3> QED
      BY <2>2, <3>5 DEF Register!registerVars
  <2> QED
    BY <2>1, <2>2
<1> QED
  BY <1>1, <1>2, StoreTypeCorrect, StoreInvariance, PTL
     DEF Spec, RegisterSpec, Register!Spec

-----------------------------------------------------------------------------
(* A transaction that found no memory.                                     *)

Absent(f) == \/ file[f].kind = "none"
             \/ file[f].kind = "corrupt" /\ f \in saved

\* A call has read nothing until it reads.
NothingRead == \A t \in Task : pc[t] \notin {"reading", "dead"} => read[t] = Unread

\* Where a transaction found none, there is none until it writes.
FoundAbsent ==
    \A t \in Task : InTransaction(t) =>
        /\ pc[t] = "reading" => \A f \in File : read[t][f].kind = "none" => Absent(f)
        /\ pc[t] \in {"decide"} \cup WritingPC /\ base[t].status = "missing"
              => \A f \in File : Absent(f)

\* Faults that do not happen leave no trace.
NoReadonly == "readonly" \notin EnvFaults => readonly = {}
NoCorrupt == "corrupt" \notin EnvFaults => \A f \in File : file[f].kind # "corrupt"

EInv == NoReadonly /\ NoCorrupt /\ NothingRead /\ LockDiscipline /\ FoundAbsent

-----------------------------------------------------------------------------
(* How fresh a reader's answer is.                                         *)

\* Every mtime that was found is in the past.
Past == /\ \A f \in File : file[f].mtime <= clock
        /\ \A t \in Task, f \in File : mtime[t][f] <= clock
        /\ \A p \in Pid, f \in File : cache[p].mtime[f] <= clock

\* Without read-only directories nothing is ever written to the global file;
\* without unreadable files no call finds one.
Global == "readonly" \notin EnvFaults =>
    /\ file["global"].kind = "none" /\ "global" \notin unreadable
    /\ \A t \in Task : pc[t] # "writeGlobal" /\ read[t]["global"].kind \in {"unread", "none"}
Readable == "unreadable" \notin EnvFaults =>
    unreadable = {} /\ \A t \in Task, f \in File : read[t][f].kind # "error"

Found(t, f) == read[t][f].kind \notin {"unread", "error"}

\* What is not a memory has no revision; what was found in a file that has not
\* been written since is what it holds.
ReadsTrue ==
    /\ \A t \in Task, f \in File : read[t][f].kind # "memory" => read[t][f].rev = 0
    /\ \A t \in Task : pc[t] = "reading" => \A f \in File :
          Found(t, f) /\ mtime[t][f] = file[f].mtime => read[t][f].rev = Parsed(f).rev

\* A transaction commits over no newer memory than it read.
TransactionsTrue == \A t \in Task : InTransaction(t) =>
    /\ pc[t] = "reading" => \A f \in File : Found(t, f) => Parsed(f).rev <= read[t][f].rev
    /\ pc[t] = "decide" =>
          base[t].status = "unavailable" \/ Authoritative.rev <= base[t].rev
    /\ pc[t] \in WritingPC => Authoritative.rev <= base[t].rev

\* A cached selection is right as long as both files are as they were.
CachesTrue == \A p \in Pid :
    /\ cache[p].state = "sound"
    /\ \A f \in File : cache[p].mtime[f] = file[f].mtime
    => cache[p].selected.rev = Authoritative.rev

\* What was committed when a call began is still there, and can be read.
FloorsHold == \A t \in Task : 0 < floor[t] => unreadable = {} /\ floor[t] <= Authoritative.rev

\* What a reader has found, with what it has still to read, is new enough.
Reader(t) == kind[t] = "read" /\ 0 < floor[t]
Rev(t, f) == IF read[t][f].kind = "unread" THEN Parsed(f).rev ELSE read[t][f].rev
ReadersTrue == \A t \in Task :
    Reader(t) /\ pc[t] = "reading" => \E f \in File : floor[t] <= Rev(t, f)

\* A selection that is or will be cached is new enough for a reader whose
\* mtimes it will match: of the local file it has the mtime that the reader
\* found, although the file may have changed since.
Between(t) == Reader(t) /\ pc[t] = "mtimeGlobal"
HitOf(t) ==
    LET e == cache[PidOf[t]] IN
    /\ e.state = "sound" /\ e.mtime["local"] = mtime[t]["local"]
    /\ e.mtime["global"] = file["global"].mtime
    => floor[t] <= e.selected.rev
FoundBy(t, u) ==
    /\ pc[u] = "reading" /\ Found(u, "local") /\ mtime[u]["local"] = mtime[t]["local"]
    => floor[t] <= read[u]["local"].rev \/ floor[t] <= Parsed("global").rev
HitsTrue == \A t \in Task : Between(t) => HitOf(t) /\ \A u \in Task : FoundBy(t, u)

FInv ==
    /\ LockDiscipline /\ NothingRead /\ NoReadonly /\ NoCorrupt
    /\ Past /\ Global /\ Readable
    /\ ReadsTrue /\ TransactionsTrue /\ CachesTrue /\ FloorsHold /\ ReadersTrue
    /\ HitsTrue /\ ReadsAreFresh
-----------------------------------------------------------------------------
(* Steps.                                                                  *)

\* The steps of a task, by what they do to the files.
Wrote(t) == WriteLocal(t) \/ WriteGlobal(t)
Other(t) == \/ \E k \in Uses[t] : Begin(t, k)
            \/ Reading(t) \/ Locking(t) \/ Deciding(t)
            \/ FallBack(t) \/ WriteFails(t) \/ Invalidate(t)
FileFault == \E f \in File : \/ MakeReadonly(f) \/ MakeWritable(f)
                             \/ MakeUnreadable(f) \/ MakeReadable(f) \/ Corrupt(f)

\* Every step is a task's, a fault, a crash or the recovery of the lock.
LEMMA Steps ==
    ASSUME [Next]_vars
    PROVE  \/ \E t \in Task : Wrote(t) \/ Other(t)
           \/ FileFault \/ (\E p \in Pid : Crash(p)) \/ RecoverLock \/ UNCHANGED vars
  BY DEF Next, Environment, Finished, Writing, Wrote, Other, FileFault

\* A step of t concerns the call of t alone.
LEMMA OwnCall ==
    ASSUME TypeOK, NEW t \in Task, Wrote(t) \/ Other(t), NEW u \in Task, u # t
    PROVE  /\ pc'[u] = pc[u] /\ kind'[u] = kind[u] /\ read'[u] = read[u]
           /\ base'[u] = base[u] /\ mtime'[u] = mtime[u] /\ floor'[u] = floor[u]
<1> USE DEF Goto, callVars, readVars, TypeOK
<1>1. CASE Wrote(t)
  BY <1>1 DEF Wrote, WriteLocal, WriteGlobal, Written
<1>2. CASE \E k \in Uses[t] : Begin(t, k)
  BY <1>2 DEF Begin
<1>3. CASE MtimeLocal(t) \/ (\E f \in File : ReadFile(t, f))
  BY <1>3 DEF MtimeLocal, ReadFile
<1>4. CASE MtimeGlobal(t)
  BY <1>4 DEF MtimeGlobal
<1>5. CASE Select(t)
  BY <1>5 DEF Select
<1>6. CASE Locking(t)
  BY <1>6 DEF Locking, LockTimeout, Acquire, Release
<1>7. CASE Deciding(t)
  BY <1>7 DEF Deciding, Decline, Commit, CommitInvalid
<1>8. CASE FallBack(t) \/ WriteFails(t) \/ Invalidate(t)
  BY <1>8 DEF FallBack, WriteFails, Invalidate
<1> QED
  BY <1>1, <1>2, <1>3, <1>4, <1>5, <1>6, <1>7, <1>8 DEF Other, Reading

\* A call whose local state a step of another task or of the environment
\* leaves, but for a crash.
LEMMA NoCall ==
    ASSUME FileFault \/ RecoverLock \/ UNCHANGED vars
    PROVE  UNCHANGED <<pc, kind, read, base, mtime, cache>>
  BY DEF FileFault, MakeReadonly, MakeWritable, MakeUnreadable, MakeReadable,
     Corrupt, Unaffected, RecoverLock, vars, callVars, readVars

\* What a step that does not write does to the files.
LEMMA OtherFiles ==
    ASSUME NEW t \in Task, Other(t)
    PROVE  /\ file' = file /\ clock' = clock /\ readonly' = readonly
           /\ unreadable' = unreadable /\ saved \subseteq saved'
  BY DEF Other, Begin, Reading, MtimeLocal, MtimeGlobal, ReadFile, Select,
     Locking, LockTimeout, Acquire, Release, Deciding, Decline, Commit,
     CommitInvalid, FallBack, WriteFails, Invalidate, fileVars, envVars

\* What a write does to them.
LEMMA WriteDoes ==
    ASSUME TypeOK, NEW t \in Task, Wrote(t)
    PROVE  \E f \in File :
              /\ Replace(t, f) /\ pc[t] = IF f = "local" THEN "writeLocal" ELSE "writeGlobal"
              /\ file'[f] = NextMemory(t, clock')
              /\ \A g \in File \ {f} : file'[g] = file[g]
              /\ \A g \in File : file'[g].kind \in {"memory", file[g].kind}
              /\ clock' \in WriteTimes /\ readonly' = readonly
              /\ unreadable' = unreadable \ {f}
              /\ pc' = [pc EXCEPT ![t] = "invalidate"]
              /\ UNCHANGED <<kind, read, base, mtime, floor, cache>>
<1>1. PICK f \in File :
         /\ Replace(t, f) /\ pc[t] = IF f = "local" THEN "writeLocal" ELSE "writeGlobal"
         /\ pc' = [pc EXCEPT ![t] = "invalidate"] /\ Written(t)
  BY DEF Wrote, WriteLocal, WriteGlobal, Goto, File
<1>2. /\ file' = [file EXCEPT ![f] = NextMemory(t, clock')]
      /\ clock' \in WriteTimes /\ readonly' = readonly /\ unreadable' = unreadable \ {f}
  BY <1>1 DEF Replace
<1>3. NextMemory(t, clock').kind = "memory"
  BY DEF NextMemory
<1>4. UNCHANGED <<kind, read, base, mtime, floor, cache>>
  BY <1>1 DEF Written, callVars, readVars
<1> HIDE DEF WriteTimes
<1> QED
  BY <1>1, <1>2, <1>3, <1>4 DEF TypeOK

\* A crash ends the calls of its process and forgets its cache.
LEMMA CrashDoes ==
    ASSUME NEW p \in Pid, Crash(p)
    PROVE  /\ UNCHANGED <<file, saved, clock, readonly, unreadable, kind, read,
                          base, mtime, floor>>
           /\ \A t \in Task : pc'[t] = pc[t] \/ pc'[t] = "dead"
           /\ cache' = [cache EXCEPT ![p] = EmptyCache]
  BY DEF Crash, fileVars, envVars, callVars, readVars

\* A call that is not reading has nothing read.
LEMMA ReadStarts ==
    ASSUME TypeOK, NothingRead, [Next]_vars PROVE NothingRead'
<1> USE DEF NothingRead
<1>1. ASSUME NEW t \in Task, Wrote(t) \/ Other(t) PROVE NothingRead'
  <2>1. pc'[t] \notin {"reading", "dead"} => read'[t] = Unread
    <3> USE DEF Goto, callVars, readVars, TypeOK
    <3>1. CASE Wrote(t)
      BY <3>1 DEF Wrote, WriteLocal, WriteGlobal, Written
    <3>2. CASE \E k \in Uses[t] : Begin(t, k)
      BY <3>2 DEF Begin
    <3>3. CASE MtimeLocal(t) \/ (\E f \in File : ReadFile(t, f))
      BY <3>3 DEF MtimeLocal, ReadFile
    <3>4. CASE MtimeGlobal(t)
      BY <3>4 DEF MtimeGlobal
    <3>5. CASE Select(t)
      BY <3>5 DEF Select
    <3>6. CASE Locking(t)
      BY <3>6 DEF Locking, LockTimeout, Acquire, Release
    <3>7. CASE Deciding(t)
      BY <3>7 DEF Deciding, Decline, Commit, CommitInvalid
    <3>8. CASE FallBack(t) \/ WriteFails(t) \/ Invalidate(t)
      BY <3>8 DEF FallBack, WriteFails, Invalidate
    <3> QED
      BY <1>1, <3>1, <3>2, <3>3, <3>4, <3>5, <3>6, <3>7, <3>8 DEF Other, Reading
  <2> QED
    BY <1>1, <2>1, OwnCall
<1>2. ASSUME NEW p \in Pid, Crash(p) PROVE NothingRead'
  BY <1>2, CrashDoes
<1> QED
  BY <1>1, <1>2, NoCall, Steps

\* A fault outside EnvFaults never happens.
LEMMA FaultsNeverMade ==
    ASSUME TypeOK, NoReadonly, NoCorrupt, [Next]_vars PROVE NoReadonly' /\ NoCorrupt'
<1> USE DEF NoReadonly, NoCorrupt
<1>1. ASSUME NEW t \in Task, Wrote(t) PROVE NoReadonly' /\ NoCorrupt'
  BY <1>1, WriteDoes
<1>2. CASE FileFault
  BY <1>2 DEF FileFault, MakeReadonly, MakeWritable, MakeUnreadable,
     MakeReadable, Corrupt, Fault, fileVars
<1>3. CASE RecoverLock \/ UNCHANGED vars
  BY <1>3 DEF RecoverLock, vars, fileVars, envVars
<1> QED
  BY <1>1, <1>2, <1>3, OtherFiles, CrashDoes, Steps
-----------------------------------------------------------------------------
(* No transaction starts over where there is a memory.                     *)

\* Only a write ends the absence of a file.
LEMMA AbsentStays ==
    ASSUME TypeOK, [Next]_vars, ~\E t \in Task : Wrote(t), NEW f \in File, Absent(f)
    PROVE  Absent(f)'
<1>1. ASSUME NEW t \in Task, Other(t) PROVE Absent(f)'
  BY <1>1, OtherFiles DEF Absent
<1>2. CASE FileFault
  BY <1>2 DEF FileFault, MakeReadonly, MakeWritable, MakeUnreadable,
     MakeReadable, Corrupt, fileVars, Absent, TypeOK
<1>3. CASE RecoverLock \/ UNCHANGED vars
  BY <1>3 DEF RecoverLock, vars, fileVars, Absent
<1>4. ASSUME NEW p \in Pid, Crash(p) PROVE Absent(f)'
  BY <1>4, CrashDoes DEF Absent
<1> QED
  BY <1>1, <1>2, <1>3, <1>4, Steps

\* A corrupt file that is read is saved, unless its directory is read-only.
LEMMA ReadNone ==
    ASSUME TypeOK, NoReadonly, NoCorrupt, ~({"readonly", "corrupt"} \subseteq EnvFaults),
           NEW t \in Task, NEW f \in File, ReadFile(t, f), read'[t][f].kind = "none"
    PROVE  Absent(f)'
<1>1. /\ f \notin unreadable /\ file' = file
      /\ file[f].kind # "memory"
  BY DEF ReadFile, CandidateFrom, Parsed, Blank, TypeOK
<1>2. file[f].kind = "corrupt" => f \notin readonly
  BY DEF NoReadonly, NoCorrupt
<1>3. file[f].kind \in {"none", "memory", "corrupt"}
  BY DEF TypeOK, FileState
<1>4. file[f].kind = "corrupt" => f \in saved'
  BY <1>1, <1>2 DEF ReadFile
<1> QED
  BY <1>1, <1>3, <1>4 DEF Absent

\* What is selected is no memory only where neither file is.
LEMMA MissingSelected ==
    ASSUME NEW l, NEW g, SelectCandidate(l, g).status = "missing",
           l.kind \in {"none", "error", "memory"}, g.kind \in {"none", "error", "memory"}
    PROVE  l.kind = "none" /\ g.kind = "none"
  BY DEF SelectCandidate, ResultFrom, NoResult

\* What a transaction found absent stays absent while it holds the lock.
LEMMA AbsenceFound ==
    ASSUME TypeOK, EInv, ~({"readonly", "corrupt"} \subseteq EnvFaults), [Next]_vars
    PROVE  FoundAbsent'
<1> USE DEF EInv
<1>1. ASSUME NEW t \in Task, Wrote(t) PROVE FoundAbsent'
  <2>1. pc[t] \in WritingPC /\ pc' = [pc EXCEPT ![t] = "invalidate"] /\ kind' = kind
    BY <1>1, WriteDoes DEF WritingPC
  <2>2. InTransaction(t)
    BY <2>1 DEF LockDiscipline, InTransaction, LockedPC
  <2>3. \A u \in Task : InTransaction(u)' => u = t
    BY <2>1, <2>2, OneTransaction DEF InTransaction, TypeOK
  <2>4. pc'[t] = "invalidate"
    BY <2>1 DEF TypeOK
  <2> QED
    BY <2>3, <2>4 DEF FoundAbsent, WritingPC
<1>2. ASSUME ~\E t \in Task : Wrote(t) PROVE \A f \in File : Absent(f) => Absent(f)'
  BY <1>2, AbsentStays
<1>3. ASSUME NEW t \in Task, Other(t), ~\E u \in Task : Wrote(u) PROVE FoundAbsent'
  <2>1. \A u \in Task : u # t => pc'[u] = pc[u] /\ kind'[u] = kind[u]
                                 /\ read'[u] = read[u] /\ base'[u] = base[u]
    BY <1>3, OwnCall
  <2>2. SUFFICES ASSUME InTransaction(t)'
                 PROVE  /\ pc'[t] = "reading" => \A f \in File :
                              read'[t][f].kind = "none" => Absent(f)'
                        /\ pc'[t] \in {"decide"} \cup WritingPC /\ base'[t].status = "missing"
                              => \A f \in File : Absent(f)'
    BY <1>2, <1>3, <2>1 DEF FoundAbsent, InTransaction
  <2> USE DEF Goto, callVars, readVars, TypeOK, WritingPC
  <2>3. CASE \E k \in Uses[t] : Begin(t, k)
    BY <2>3 DEF Begin
  <2>4. CASE MtimeLocal(t)
    BY <2>4 DEF MtimeLocal
  <2>5. CASE MtimeGlobal(t)
    <3>1. pc[t] = "mtimeGlobal" /\ pc'[t] \in {"done", "reading"} /\ read' = read
      BY <2>5 DEF MtimeGlobal
    <3>2. read'[t] = Unread
      BY <3>1 DEF NothingRead
    <3>3. \A f \in File : Unread[f].kind = "unread"
      BY DEF Unread, Blank
    <3> QED
      BY <3>1, <3>2, <3>3
  <2>6. ASSUME NEW f \in File, ReadFile(t, f)
        PROVE  pc'[t] = "reading" /\ \A g \in File : read'[t][g].kind = "none" => Absent(g)'
    <3>1. /\ pc' = pc /\ pc[t] = "reading" /\ kind' = kind
          /\ \A g \in File \ {f} : read'[t][g] = read[t][g]
      BY <2>6 DEF ReadFile
    <3>2. InTransaction(t)
      BY <2>2, <3>1 DEF InTransaction
    <3>3. read'[t][f].kind = "none" => Absent(f)'
      BY <2>6, ReadNone
    <3> QED
      BY <1>2, <1>3, <3>1, <3>2, <3>3 DEF FoundAbsent
  <2>7. CASE Select(t)
    <3>1. /\ pc[t] = "reading" /\ pc'[t] \in {"done", "decide"} /\ kind' = kind
          /\ \A f \in File : read[t][f].kind # "unread"
          /\ base'[t] = SelectCandidate(read[t]["local"], read[t]["global"])
      BY <2>7 DEF Select
    <3>2. InTransaction(t)
      BY <2>2, <3>1 DEF InTransaction, LockedPC
    <3>3. \A f \in File : read[t][f].kind \in {"none", "error", "memory"}
      BY <3>1 DEF Candidate
    <3>4. base'[t].status = "missing" => \A f \in File : read[t][f].kind = "none"
      BY <3>1, <3>3, MissingSelected DEF File
    <3> QED
      BY <1>2, <1>3, <3>1, <3>2, <3>4 DEF FoundAbsent
  <2>8. CASE Locking(t)
    BY <2>8 DEF Locking, LockTimeout, Acquire, Release
  <2>9. CASE Deciding(t)
    <3>1. pc[t] = "decide" /\ pc'[t] \in {"release", "writeLocal", "invalidate"}
          /\ base' = base /\ kind' = kind
      BY <2>9 DEF Deciding, Decline, Commit, CommitInvalid
    <3> QED
      BY <1>2, <1>3, <2>2, <3>1 DEF FoundAbsent, InTransaction, LockedPC
  <2>10. CASE FallBack(t) \/ WriteFails(t) \/ Invalidate(t)
    <3>1. \/ pc'[t] \in {"invalidate", "release"}
          \/ pc[t] = "writeLocal" /\ pc'[t] = "writeGlobal" /\ base' = base /\ kind' = kind
      BY <2>10 DEF FallBack, WriteFails, Invalidate
    <3> QED
      BY <1>2, <1>3, <2>2, <3>1 DEF FoundAbsent, InTransaction, LockedPC
  <2> QED
    BY <1>3, <2>3, <2>4, <2>5, <2>6, <2>7, <2>8, <2>9, <2>10 DEF Other, Reading
<1>4. ASSUME NEW p \in Pid, Crash(p), ~\E u \in Task : Wrote(u) PROVE FoundAbsent'
  <2>1. /\ UNCHANGED <<kind, read, base>>
        /\ \A t \in Task : pc'[t] = pc[t] \/ pc'[t] = "dead"
    BY <1>4, CrashDoes
  <2> QED
    BY <1>2, <1>4, <2>1 DEF FoundAbsent, InTransaction, LockedPC, WritingPC
<1>5. ASSUME FileFault \/ RecoverLock \/ UNCHANGED vars, ~\E u \in Task : Wrote(u)
      PROVE  FoundAbsent'
  BY <1>2, <1>5, NoCall DEF FoundAbsent, InTransaction
<1> QED
  BY <1>1, <1>3, <1>4, <1>5, Steps

\* A read error or a damaged file never lets a transaction begin from the empty
\* memory: where it does, there is none, or what is damaged was saved
\* (readMemoryState's "unavailable", the backup of readFileResult).
THEOREM StartsOnlyWhereAbsent ==
    ASSUME ~({"readonly", "corrupt"} \subseteq EnvFaults)
    PROVE  Spec => []EmptyInitOnlyWhenAbsent
<1>1. Init => EInv
  <2> SUFFICES ASSUME Init PROVE EInv
    OBVIOUS
  <2>1. NoReadonly /\ NoCorrupt /\ NothingRead
    BY DEF Init, NoReadonly, NoCorrupt, NothingRead, NoFile
  <2>2. LockDiscipline /\ FoundAbsent
    BY StoreAssumption DEF Init, FoundAbsent, LockDiscipline, InTransaction, LockedPC,
       WritingPC, Lock!Init
  <2> QED
    BY <2>1, <2>2 DEF EInv
<1>2. TypeOK /\ EInv /\ [Next]_vars => EInv'
  <2>1. SUFFICES ASSUME TypeOK, EInv, [Next]_vars PROVE EInv'
    OBVIOUS
  <2>2. NoReadonly /\ NoCorrupt /\ NothingRead /\ LockDiscipline
    BY <2>1 DEF EInv
  <2> QED
    BY <2>1, <2>2, FaultsNeverMade, ReadStarts, LockDisciplined, AbsenceFound DEF EInv
<1>3. EInv => EmptyInitOnlyWhenAbsent
  BY DEF EInv, FoundAbsent, Absent, EmptyInitOnlyWhenAbsent, LockDiscipline,
     InTransaction, LockedPC, WritingPC
<1> QED
  BY <1>1, <1>2, <1>3, StoreTypeCorrect, PTL DEF Spec
-----------------------------------------------------------------------------
(* The revisions of what is selected and of what the files hold.           *)

\* The newer of two candidates is selected.
LEMMA SelectedRev ==
    ASSUME NEW l \in Candidate, NEW g \in Candidate,
           l.kind # "memory" => l.rev = 0, g.kind # "memory" => g.rev = 0
    PROVE  LET s == SelectCandidate(l, g) IN
           /\ s.rev \in {l.rev, g.rev} /\ l.rev <= s.rev /\ g.rev <= s.rev
           /\ s.rev \in Nat
  BY DEF SelectCandidate, GlobalWins, ResultFrom, NoResult, Candidate

\* What a file that can be read holds is what a call finds in it.
LEMMA ParsedRev ==
    ASSUME TypeOK, NEW f \in File
    PROVE  /\ Parsed(f) \in Candidate /\ Parsed(f).rev \in Nat
           /\ Parsed(f).kind # "memory" => Parsed(f).rev = 0
           /\ CandidateFrom(f).kind # "memory" => CandidateFrom(f).rev = 0
           /\ f \notin unreadable => CandidateFrom(f) = Parsed(f)
           /\ CandidateFrom(f).kind # "error" => CandidateFrom(f) = Parsed(f)
           /\ CandidateFrom(f).kind # "unread" /\ CandidateFrom(f) \in Candidate
<1>1. Parsed(f) \in Candidate /\ CandidateFrom(f) \in Candidate
  BY ParsedType
<1>2. Parsed(f).kind # "memory" => Parsed(f).rev = 0
  BY DEF Parsed, Blank
<1>3. Parsed(f).kind \in {"none", "memory"}
  BY DEF Parsed, Blank
<1>4. CandidateFrom(f) = IF f \in unreadable THEN Blank("error") ELSE Parsed(f)
  BY DEF CandidateFrom
<1>5. Blank("error").kind = "error" /\ Blank("error").rev = 0
  BY DEF Blank
<1>6. Parsed(f).rev \in Nat
  BY <1>1 DEF Candidate
<1> QED
  BY <1>1, <1>2, <1>3, <1>4, <1>5, <1>6

\* The memory of the highest revision is the authoritative one.
NewestWins ==
    /\ Authoritative.rev \in Nat
    /\ \A f \in File : Parsed(f).rev \in Nat /\ Parsed(f).rev <= Authoritative.rev
    /\ \E f \in File : Parsed(f).rev = Authoritative.rev

\* Selection finds the newest memory.
LEMMA AuthoritativeRev == TypeOK => NewestWins
<1> SUFFICES ASSUME TypeOK PROVE NewestWins
  OBVIOUS
<1>1. "local" \in File /\ "global" \in File
  BY DEF File
<1>2. /\ Authoritative.rev \in {Parsed("local").rev, Parsed("global").rev}
      /\ Parsed("local").rev <= Authoritative.rev
      /\ Parsed("global").rev <= Authoritative.rev
      /\ Authoritative.rev \in Nat
  BY <1>1, ParsedRev, SelectedRev DEF Authoritative
<1> QED
  BY <1>1, <1>2, ParsedRev DEF File, NewestWins

\* Files that go forward take the authoritative revision along.
LEMMA ReplacedRev ==
    ASSUME TypeOK, TypeOK', \A f \in File : Parsed(f).rev <= Parsed(f)'.rev
    PROVE  Authoritative.rev <= Authoritative'.rev
<1>1. NewestWins /\ NewestWins'
  BY AuthoritativeRev, PTL
<1> QED
  BY <1>1 DEF NewestWins
-----------------------------------------------------------------------------
(* What the steps mean for a reader.                                       *)

\* The steps of a call that neither begin it nor concern its mtimes and reads.
Rest(t) == Locking(t) \/ Deciding(t) \/ FallBack(t) \/ WriteFails(t) \/ Invalidate(t)

\* None of them touches a file, an mtime or what was read.
LEMMA RestDoes ==
    ASSUME TypeOK, LockDiscipline, NEW t \in Task, Rest(t)
    PROVE  /\ UNCHANGED <<file, unreadable, clock, kind, floor, read, mtime>>
           /\ pc'[t] \notin {"mtimeGlobal", "reading"}
           /\ pc'[t] = "done" => kind[t] = "mutate"
           /\ cache' = cache \/ cache' = [cache EXCEPT ![PidOf[t]] = EmptyCache]
<1> USE DEF Goto, fileVars, envVars, callVars, readVars, TypeOK, LockDiscipline
<1>1. CASE Locking(t)
  BY <1>1 DEF Locking, LockTimeout, Acquire, Release
<1>2. CASE Deciding(t)
  BY <1>2 DEF Deciding, Decline, Commit, CommitInvalid
<1>3. CASE FallBack(t) \/ WriteFails(t) \/ Invalidate(t)
  BY <1>3 DEF FallBack, WriteFails, Invalidate
<1> QED
  BY <1>1, <1>2, <1>3 DEF Rest

\* A file that a fault changes has a new mtime, and no call has a floor then.
LEMMA FaultDoes ==
    ASSUME TypeOK, FileFault \/ RecoverLock \/ UNCHANGED vars
    PROVE  /\ UNCHANGED <<pc, kind, read, base, mtime, cache>>
           /\ clock' \in Nat /\ clock <= clock'
           /\ \/ floor' = floor /\ file' = file /\ unreadable' \subseteq unreadable
              \/ floor' = [t \in Task |-> 0]
           /\ \A f \in File : \/ file'[f] = file[f]
                              \/ /\ file[f].kind = "memory" /\ file'[f].kind = "corrupt"
                                 /\ file'[f].mtime = clock' /\ clock' = clock + 1
<1>1. UNCHANGED <<pc, kind, read, base, mtime, cache>>
  BY NoCall
<1>2. CASE RecoverLock \/ UNCHANGED vars
  BY <1>1, <1>2 DEF RecoverLock, vars, fileVars, envVars, callVars, TypeOK
<1>3. ASSUME NEW f \in File, MakeReadonly(f) \/ MakeWritable(f) \/ MakeUnreadable(f)
                             \/ MakeReadable(f)
      PROVE  /\ file' = file /\ clock' = clock
             /\ \/ floor' = floor /\ unreadable' \subseteq unreadable
                \/ floor' = [t \in Task |-> 0]
  BY <1>3 DEF MakeReadonly, MakeWritable, MakeUnreadable, MakeReadable, fileVars
<1>4. ASSUME NEW f \in File, Corrupt(f)
      PROVE  /\ floor' = [t \in Task |-> 0] /\ clock' = clock + 1
             /\ \A g \in File : \/ file'[g] = file[g]
                                \/ /\ file[g].kind = "memory" /\ file'[g].kind = "corrupt"
                                   /\ file'[g].mtime = clock'
  BY <1>4 DEF Corrupt, TypeOK
<1> QED
  BY <1>1, <1>2, <1>3, <1>4 DEF FileFault, TypeOK

\* A write puts a newer memory in one place, with an mtime nobody has seen.
LEMMA WriteRenews ==
    ASSUME TypeOK, TypeOK', FineClock, TransactionsTrue, LockDiscipline,
           NEW t \in Task, Wrote(t)
    PROVE  /\ UNCHANGED <<kind, read, base, mtime, floor, cache>>
           /\ pc' = [pc EXCEPT ![t] = "invalidate"] /\ kind[t] = "mutate"
           /\ clock' = clock + 1 /\ unreadable' \subseteq unreadable
           /\ \A f \in File : \/ file'[f] = file[f]
                              \/ file'[f].mtime = clock' /\ file'[f].kind = "memory"
           /\ \A f \in File : Parsed(f).rev <= Parsed(f)'.rev
           /\ Authoritative.rev <= Authoritative'.rev
<1>1. PICK f \in File :
         /\ pc[t] = IF f = "local" THEN "writeLocal" ELSE "writeGlobal"
         /\ file'[f] = NextMemory(t, clock')
         /\ \A g \in File \ {f} : file'[g] = file[g]
         /\ clock' \in WriteTimes /\ unreadable' = unreadable \ {f}
         /\ pc' = [pc EXCEPT ![t] = "invalidate"]
         /\ UNCHANGED <<kind, read, base, mtime, floor, cache>>
  BY WriteDoes
<1>2. pc[t] \in WritingPC
  BY <1>1 DEF WritingPC
<1>3. kind[t] = "mutate" /\ InTransaction(t)
  BY <1>2 DEF LockDiscipline, InTransaction, LockedPC
<1>4. Authoritative.rev <= base[t].rev
  BY <1>2, <1>3 DEF TransactionsTrue
<1>5. NewestWins /\ base[t].rev \in Nat
  BY AuthoritativeRev DEF TypeOK, Result
<1>6. Parsed(f)' = NextMemory(t, clock') /\ \A g \in File \ {f} : Parsed(g)' = Parsed(g)
  BY <1>1 DEF Parsed, NextMemory
<1>7. NextMemory(t, clock').rev = base[t].rev + 1 /\ NextMemory(t, clock').kind = "memory"
      /\ NextMemory(t, clock').mtime = clock'
  BY DEF NextMemory
<1>8. \A g \in File : Parsed(g).rev <= Parsed(g)'.rev
  BY <1>4, <1>5, <1>6, <1>7 DEF NewestWins
<1>9. Authoritative.rev <= Authoritative'.rev
  BY <1>8, ReplacedRev
<1>10. clock' = clock + 1
  BY <1>1 DEF WriteTimes
<1> QED
  BY <1>1, <1>3, <1>7, <1>8, <1>9, <1>10
-----------------------------------------------------------------------------
(* The conjuncts of the invariant, one after the other.                    *)

\* The steps of a call that do not write.
LEMMA OtherSplits ==
    ASSUME NEW t \in Task, Other(t)
    PROVE  \/ \E k \in Uses[t] : Begin(t, k)
           \/ MtimeLocal(t) \/ MtimeGlobal(t) \/ (\E f \in File : ReadFile(t, f)) \/ Select(t)
           \/ Rest(t)
  BY DEF Other, Reading, Rest

\* Every new mtime is one of the past when it is taken.
LEMMA PastStays ==
    ASSUME TypeOK, TypeOK', FineClock, TransactionsTrue, LockDiscipline, Past, [Next]_vars
    PROVE  Past'
<1> USE DEF Past
<1>1. ASSUME NEW t \in Task, Wrote(t) PROVE Past'
  <2>1. /\ UNCHANGED <<mtime, cache>> /\ clock' = clock + 1
        /\ \A f \in File : file'[f] = file[f] \/ file'[f].mtime = clock'
    BY <1>1, WriteRenews
  <2>2. clock \in Nat /\ \A f \in File : file[f].mtime \in Nat
    BY DEF TypeOK, FileState
  <2>3. \A u \in Task, f \in File : mtime[u][f] \in Nat
    BY DEF TypeOK
  <2>4. \A p \in Pid, f \in File : cache[p].mtime[f] \in Nat
    BY DEF TypeOK, CacheEntry
  <2> QED
    BY <2>1, <2>2, <2>3, <2>4
<1>2. ASSUME NEW t \in Task, Other(t) PROVE Past'
  <2>1. file' = file /\ clock' = clock
    BY <1>2, OtherFiles
  <2>2. \A f \in File : NoMtimes[f] = 0 /\ EmptyCache.mtime[f] = 0 /\ clock \in Nat
    BY DEF NoMtimes, EmptyCache, TypeOK
  <2>3. CASE (\E k \in Uses[t] : Begin(t, k)) \/ (\E f \in File : ReadFile(t, f))
    BY <2>1, <2>3 DEF Begin, ReadFile
  <2>4. CASE MtimeLocal(t)
    BY <2>1, <2>4 DEF MtimeLocal, TypeOK
  <2>5. CASE MtimeGlobal(t)
    <3>1. cache' = cache /\ \A f \in File : mtime'[t][f] \in {0, mtime[t][f], file[f].mtime}
      BY <2>2, <2>5 DEF MtimeGlobal, TypeOK
    <3>2. \A u \in Task \ {t} : mtime'[u] = mtime[u]
      BY <2>5 DEF MtimeGlobal, TypeOK
    <3> QED
      BY <2>1, <2>2, <3>1, <3>2
  <2>6. CASE Select(t)
    <3>1. /\ mtime' = [mtime EXCEPT ![t] = NoMtimes]
          /\ \A p \in Pid : cache'[p].mtime \in {cache[p].mtime, mtime[t]}
      BY <2>6 DEF Select, Stamp, TypeOK
    <3>2. \A u \in Task, f \in File : mtime'[u][f] <= clock
      <4>1. \A u \in Task : mtime'[u] = NoMtimes \/ mtime'[u] = mtime[u]
        BY <3>1 DEF TypeOK
      <4> QED
        BY <2>2, <4>1
    <3>3. \A p \in Pid, f \in File : cache'[p].mtime[f] <= clock
      BY <3>1
    <3> QED
      BY <2>1, <3>2, <3>3
  <2>7. CASE Rest(t)
    <3>1. mtime' = mtime /\ \A p \in Pid : cache'[p] \in {cache[p], EmptyCache}
      BY <2>7, RestDoes DEF TypeOK
    <3> QED
      BY <2>1, <2>2, <3>1
  <2> QED
    BY <1>2, <2>3, <2>4, <2>5, <2>6, <2>7, OtherSplits
<1>3. CASE FileFault \/ RecoverLock \/ UNCHANGED vars
  <2>1. /\ UNCHANGED <<mtime, cache>> /\ clock <= clock' /\ clock' \in Nat
        /\ \A f \in File : file'[f] = file[f] \/ file'[f].mtime = clock'
    BY <1>3, FaultDoes
  <2>2. clock \in Nat /\ \A f \in File : file[f].mtime \in Nat
    BY DEF TypeOK, FileState
  <2>3. \A u \in Task, f \in File : mtime[u][f] \in Nat
    BY DEF TypeOK
  <2>4. \A p \in Pid, f \in File : cache[p].mtime[f] \in Nat
    BY DEF TypeOK, CacheEntry
  <2> QED
    BY <2>1, <2>2, <2>3, <2>4
<1>4. ASSUME NEW p \in Pid, Crash(p) PROVE Past'
  <2>1. /\ UNCHANGED <<file, clock, mtime>> /\ cache' = [cache EXCEPT ![p] = EmptyCache]
    BY <1>4, CrashDoes
  <2>2. \A f \in File : EmptyCache.mtime[f] = 0 /\ clock \in Nat
    BY DEF NoMtimes, EmptyCache, TypeOK
  <2> QED
    BY <2>1, <2>2 DEF TypeOK
<1> QED
  BY <1>1, <1>2, <1>3, <1>4, Steps

\* The global file is written only where the local directory refuses.
LEMMA GlobalStays ==
    ASSUME TypeOK, NoReadonly, NoCorrupt, Global, LockDiscipline, [Next]_vars
    PROVE  Global'
<1> USE DEF Global
<1> SUFFICES ASSUME "readonly" \notin EnvFaults PROVE Global'
  OBVIOUS
<1>1. ASSUME NEW t \in Task, Wrote(t) PROVE Global'
  <2>1. pc[t] # "writeGlobal"
    OBVIOUS
  <2>2. PICK f \in File : /\ pc[t] = IF f = "local" THEN "writeLocal" ELSE "writeGlobal"
                          /\ \A g \in File \ {f} : file'[g] = file[g]
                          /\ unreadable' = unreadable \ {f}
                          /\ pc' = [pc EXCEPT ![t] = "invalidate"] /\ read' = read
    BY <1>1, WriteDoes
  <2>3. file'["global"] = file["global"]
    BY <2>1, <2>2 DEF File
  <2> QED
    BY <2>2, <2>3 DEF TypeOK
<1>2. ASSUME NEW t \in Task, Other(t) PROVE Global'
  <2>1. file' = file /\ unreadable' = unreadable /\ readonly = {}
    BY <1>2, OtherFiles DEF NoReadonly
  <2>2. "global" \in File /\ Blank("none").kind = "none" /\ Blank("unread").kind = "unread"
    BY DEF File, Blank
  <2>3. pc'[t] # "writeGlobal" /\ read'[t]["global"].kind \in {"unread", "none"}
    <3> USE DEF Goto, TypeOK, readVars
    <3>1. CASE (\E k \in Uses[t] : Begin(t, k)) \/ MtimeLocal(t) \/ MtimeGlobal(t)
      BY <3>1 DEF Begin, MtimeLocal, MtimeGlobal
    <3>2. ASSUME NEW f \in File, ReadFile(t, f)
          PROVE  pc'[t] # "writeGlobal" /\ read'[t]["global"].kind \in {"unread", "none"}
      BY <2>2, <3>2 DEF ReadFile, CandidateFrom, Parsed, File
    <3>3. CASE Select(t)
      BY <2>2, <3>3 DEF Select, Unread
    <3>4. CASE Rest(t)
      <4>1. read' = read
        BY <3>4, RestDoes
      <4>2. pc'[t] # "writeGlobal"
        BY <2>1, <3>4 DEF Rest, Locking, LockTimeout, Acquire, Release, Deciding, Decline,
           Commit, CommitInvalid, FallBack, WriteFails, Invalidate
      <4> QED
        BY <4>1, <4>2
    <3> QED
      BY <1>2, <3>1, <3>2, <3>3, <3>4, OtherSplits
  <2> QED
    BY <1>2, <2>1, <2>3, OwnCall
<1>3. CASE FileFault \/ RecoverLock \/ UNCHANGED vars
  <2>1. UNCHANGED <<pc, read>> /\ file'["global"] = file["global"]
    BY <1>3, FaultDoes DEF File
  <2>2. "global" \notin unreadable'
    BY <1>3 DEF FileFault, MakeReadonly, MakeWritable, MakeUnreadable, MakeReadable,
       Corrupt, RecoverLock, vars, envVars, fileVars
  <2> QED
    BY <2>1, <2>2
<1>4. ASSUME NEW p \in Pid, Crash(p) PROVE Global'
  BY <1>4, CrashDoes
<1> QED
  BY <1>1, <1>2, <1>3, <1>4, Steps

\* No call meets an error where no file becomes unreadable.
LEMMA ReadableStays ==
    ASSUME TypeOK, Readable, LockDiscipline, [Next]_vars PROVE Readable'
<1> USE DEF Readable
<1> SUFFICES ASSUME "unreadable" \notin EnvFaults PROVE Readable'
  OBVIOUS
<1>1. ASSUME NEW t \in Task, Wrote(t) PROVE Readable'
  BY <1>1, WriteDoes
<1>2. ASSUME NEW t \in Task, Other(t) PROVE Readable'
  <2>1. unreadable' = unreadable
    BY <1>2, OtherFiles
  <2>2. \A f \in File : read'[t][f].kind # "error"
    <3>1. CASE \/ \E k \in Uses[t] : Begin(t, k)
               \/ MtimeLocal(t) \/ MtimeGlobal(t)
      BY <3>1 DEF Begin, MtimeLocal, MtimeGlobal, readVars
    <3>2. ASSUME NEW f \in File, ReadFile(t, f) PROVE \A g \in File : read'[t][g].kind # "error"
      BY <3>2 DEF ReadFile, CandidateFrom, Parsed, Blank, TypeOK
    <3>3. CASE Select(t)
      BY <3>3 DEF Select, Unread, Blank, TypeOK
    <3>4. CASE Rest(t)
      BY <3>4, RestDoes
    <3> QED
      BY <1>2, <3>1, <3>2, <3>3, <3>4, OtherSplits
  <2> QED
    BY <1>2, <2>1, <2>2, OwnCall
<1>3. CASE FileFault \/ RecoverLock \/ UNCHANGED vars
  <2>1. read' = read
    BY <1>3, NoCall
  <2>2. unreadable' = {}
    BY <1>3 DEF FileFault, MakeReadonly, MakeWritable, MakeUnreadable, MakeReadable,
       Corrupt, RecoverLock, vars, envVars, fileVars, Fault
  <2> QED
    BY <2>1, <2>2
<1>4. ASSUME NEW p \in Pid, Crash(p) PROVE Readable'
  BY <1>4, CrashDoes
<1> QED
  BY <1>1, <1>2, <1>3, <1>4, Steps
\* No fault adds to what the files hold.
LEMMA FaultLowers ==
    ASSUME TypeOK, TypeOK', FileFault \/ RecoverLock \/ UNCHANGED vars
    PROVE  /\ \A f \in File : Parsed(f)'.rev <= Parsed(f).rev
           /\ Authoritative'.rev <= Authoritative.rev
<1>1. NewestWins /\ NewestWins'
  BY AuthoritativeRev, PTL
<1>2. \A f \in File : Parsed(f)'.rev <= Parsed(f).rev
  <2> SUFFICES ASSUME NEW f \in File PROVE Parsed(f)'.rev <= Parsed(f).rev
    OBVIOUS
  <2>1. file'[f] = file[f] \/ file'[f].kind = "corrupt"
    BY FaultDoes
  <2>2. file'[f] = file[f] => Parsed(f)' = Parsed(f)
    BY DEF Parsed
  <2>3. file'[f].kind = "corrupt" => Parsed(f)'.rev = 0
    BY DEF Parsed, Blank
  <2> QED
    BY <1>1, <2>1, <2>2, <2>3 DEF NewestWins
<1> QED
  BY <1>1, <1>2 DEF NewestWins

\* Nobody else writes while a transaction works from what it read.
LEMMA TransactionsStay ==
    ASSUME TypeOK, TypeOK', ~({"readonly", "unreadable"} \subseteq EnvFaults),
           LockDiscipline, LockDiscipline', NothingRead, Global, Readable, ReadsTrue,
           TransactionsTrue, [Next]_vars
    PROVE  TransactionsTrue'
<1>1. ASSUME NEW t \in Task, Wrote(t) PROVE TransactionsTrue'
  <2>1. pc[t] \in WritingPC /\ pc' = [pc EXCEPT ![t] = "invalidate"] /\ kind' = kind
    BY <1>1, WriteDoes DEF WritingPC
  <2>2. InTransaction(t)
    BY <2>1 DEF LockDiscipline, InTransaction, LockedPC
  <2>3. \A u \in Task : InTransaction(u)' => u = t
    BY <2>1, <2>2, OneTransaction DEF InTransaction, TypeOK
  <2>4. pc'[t] = "invalidate"
    BY <2>1 DEF TypeOK
  <2> QED
    BY <2>3, <2>4 DEF TransactionsTrue, WritingPC
<1>2. ASSUME NEW t \in Task, Other(t) PROVE TransactionsTrue'
  <2>1. Authoritative' = Authoritative /\ \A f \in File : Parsed(f)' = Parsed(f)
    BY <1>2, OtherFiles, SelectionStable
  <2>2. \A u \in Task : u # t => pc'[u] = pc[u] /\ kind'[u] = kind[u]
                                 /\ read'[u] = read[u] /\ base'[u] = base[u]
    BY <1>2, OwnCall
  <2>3. SUFFICES ASSUME InTransaction(t)'
                 PROVE  /\ pc'[t] = "reading" => \A f \in File :
                              read'[t][f].kind \notin {"unread", "error"}
                                 => Parsed(f).rev <= read'[t][f].rev
                        /\ pc'[t] = "decide" =>
                              \/ base'[t].status = "unavailable"
                              \/ Authoritative.rev <= base'[t].rev
                        /\ pc'[t] \in WritingPC => Authoritative.rev <= base'[t].rev
    BY <2>1, <2>2 DEF TransactionsTrue, InTransaction, Found
  <2> USE DEF Goto, callVars, readVars, TypeOK
  <2>4. CASE (\E k \in Uses[t] : Begin(t, k)) \/ MtimeLocal(t)
    BY <2>4 DEF Begin, MtimeLocal, WritingPC
  <2>5. CASE MtimeGlobal(t)
    <3>1. pc[t] = "mtimeGlobal" /\ pc'[t] \in {"done", "reading"} /\ read' = read
      BY <2>5 DEF MtimeGlobal
    <3>2. read'[t] = Unread
      BY <3>1 DEF NothingRead
    <3>3. \A f \in File : Unread[f].kind = "unread"
      BY DEF Unread, Blank
    <3> QED
      BY <3>1, <3>2, <3>3 DEF WritingPC
  <2>6. ASSUME NEW f \in File, ReadFile(t, f)
        PROVE  pc'[t] = "reading" /\ \A g \in File :
                  read'[t][g].kind \notin {"unread", "error"}
                     => Parsed(g).rev <= read'[t][g].rev
    <3>1. /\ pc' = pc /\ pc[t] = "reading" /\ kind' = kind
          /\ \A g \in File \ {f} : read'[t][g] = read[t][g]
          /\ read'[t][f] = CandidateFrom(f)
      BY <2>6 DEF ReadFile
    <3>2. InTransaction(t)
      BY <2>3, <3>1 DEF InTransaction
    <3>3. /\ CandidateFrom(f).kind # "error" => CandidateFrom(f) = Parsed(f)
          /\ Parsed(f).rev \in Nat
      BY ParsedRev
    <3>4. \A g \in File \ {f} : read[t][g].kind \notin {"unread", "error"}
             => Parsed(g).rev <= read[t][g].rev
      BY <3>1, <3>2 DEF TransactionsTrue, Found
    <3>5. read'[t][f].kind \notin {"unread", "error"} => Parsed(f).rev <= read'[t][f].rev
      BY <3>1, <3>3
    <3> HIDE DEF TypeOK
    <3> QED
      BY <3>1, <3>4, <3>5
  <2>7. CASE Select(t)
    <3>1. /\ pc[t] = "reading" /\ pc'[t] \in {"done", "decide"} /\ kind' = kind
          /\ \A f \in File : read[t][f].kind # "unread"
          /\ base'[t] = SelectCandidate(read[t]["local"], read[t]["global"])
      BY <2>7 DEF Select
    <3>2. InTransaction(t)
      BY <2>3, <3>1 DEF InTransaction, LockedPC
    <3>3. "local" \in File /\ "global" \in File
      BY DEF File
    <3>4. CASE \E f \in File : read[t][f].kind = "error"
      <4>1. "readonly" \notin EnvFaults
        BY <3>4 DEF Readable
      <4>2. read[t]["global"].kind = "none"
        BY <3>1, <3>3, <4>1 DEF Global
      <4>3. read[t]["local"].kind = "error"
        BY <3>4, <4>2 DEF File
      <4>4. base'[t].status = "unavailable"
        BY <3>1, <4>2, <4>3 DEF SelectCandidate, NoResult
      <4> QED
        BY <3>1, <4>4 DEF WritingPC
    <3>5. CASE \A f \in File : read[t][f].kind # "error"
      <4>1. \A f \in File : Parsed(f).rev <= read[t][f].rev
        BY <3>1, <3>2, <3>5 DEF TransactionsTrue, Found
      <4>2. \A f \in File : read[t][f] \in Candidate
        OBVIOUS
      <4>3. \A f \in File : read[t][f].kind # "memory" => read[t][f].rev = 0
        BY DEF ReadsTrue
      <4>4. /\ read[t]["local"].rev <= base'[t].rev
            /\ read[t]["global"].rev <= base'[t].rev /\ base'[t].rev \in Nat
        <5> HIDE DEF TypeOK
        <5> QED
          BY <3>1, <3>3, <4>2, <4>3, SelectedRev
      <4>5. NewestWins
        BY AuthoritativeRev
      <4>6. Authoritative.rev <= base'[t].rev
        BY <4>1, <4>2, <4>4, <4>5 DEF NewestWins, File, Candidate
      <4> QED
        BY <3>1, <4>6 DEF WritingPC
    <3> QED
      BY <3>4, <3>5
  <2>8. CASE Locking(t)
    BY <2>8 DEF Locking, LockTimeout, Acquire, Release, WritingPC
  <2>9. CASE Deciding(t)
    <3>1. \/ pc'[t] \in {"release", "invalidate"}
          \/ /\ pc[t] = "decide" /\ pc'[t] = "writeLocal"
             /\ base[t].status # "unavailable" /\ base' = base /\ kind' = kind
      BY <2>9 DEF Deciding, Decline, Commit, CommitInvalid
    <3>2. pc[t] = "decide" /\ kind' = kind => InTransaction(t)
      BY <2>3 DEF InTransaction, LockedPC
    <3> QED
      BY <3>1, <3>2 DEF TransactionsTrue, WritingPC
  <2>10. CASE FallBack(t) \/ WriteFails(t) \/ Invalidate(t)
    <3>1. \/ pc'[t] \in {"invalidate", "release"}
          \/ pc[t] = "writeLocal" /\ pc'[t] = "writeGlobal" /\ base' = base /\ kind' = kind
      BY <2>10 DEF FallBack, WriteFails, Invalidate
    <3>2. pc[t] = "writeLocal" /\ kind' = kind => InTransaction(t)
      BY <2>3 DEF InTransaction, LockedPC, WritingPC
    <3> QED
      BY <3>1, <3>2 DEF TransactionsTrue, WritingPC
  <2> QED
    BY <1>2, <2>4, <2>5, <2>6, <2>7, <2>8, <2>9, <2>10, OtherSplits DEF Rest, WritingPC
<1>3. ASSUME NEW p \in Pid, Crash(p) PROVE TransactionsTrue'
  <2>1. /\ UNCHANGED <<file, kind, read, base>>
        /\ \A t \in Task : pc'[t] = pc[t] \/ pc'[t] = "dead"
    BY <1>3, CrashDoes
  <2>2. Authoritative' = Authoritative /\ \A f \in File : Parsed(f)' = Parsed(f)
    BY <2>1, SelectionStable
  <2> QED
    BY <2>1, <2>2 DEF TransactionsTrue, InTransaction, LockedPC, WritingPC, Found
<1>4. CASE FileFault \/ RecoverLock \/ UNCHANGED vars
  <2>1. UNCHANGED <<pc, kind, read, base>>
    BY <1>4, NoCall
  <2>2. /\ \A f \in File : Parsed(f)'.rev <= Parsed(f).rev
        /\ Authoritative'.rev <= Authoritative.rev
    BY <1>4, FaultLowers
  <2>3. /\ NewestWins /\ NewestWins'
        /\ \A t \in Task : base[t].rev \in Nat /\ \A f \in File : read[t][f].rev \in Nat
    <3>1. NewestWins /\ NewestWins'
      BY AuthoritativeRev, PTL
    <3> QED
      BY <3>1 DEF TypeOK, Result, Candidate
  <2>4. \A t \in Task : InTransaction(t)' <=> InTransaction(t)
    BY <2>1 DEF InTransaction
  <2>5. ASSUME NEW t \in Task, InTransaction(t)
        PROVE  /\ pc[t] = "reading" => \A f \in File :
                     Found(t, f) => Parsed(f)'.rev <= read[t][f].rev
               /\ pc[t] = "decide" => \/ base[t].status = "unavailable"
                                      \/ Authoritative'.rev <= base[t].rev
               /\ pc[t] \in WritingPC => Authoritative'.rev <= base[t].rev
    BY <2>2, <2>3, <2>5 DEF TransactionsTrue, NewestWins
  <2> QED
    BY <2>1, <2>4, <2>5 DEF TransactionsTrue, Found
<1> QED
  BY <1>1, <1>2, <1>3, <1>4, Steps
\* A file that changes under a read changes its mtime.
LEMMA ReadsStayTrue ==
    ASSUME TypeOK, TypeOK', FineClock, LockDiscipline, NothingRead, TransactionsTrue,
           Past, ReadsTrue, [Next]_vars
    PROVE  ReadsTrue'
<1>1. ASSUME NEW t \in Task, Wrote(t) PROVE ReadsTrue'
  <2>1. /\ UNCHANGED <<mtime, read>> /\ clock' = clock + 1
        /\ pc' = [pc EXCEPT ![t] = "invalidate"]
        /\ \A f \in File : file'[f] = file[f] \/ file'[f].mtime = clock'
    BY <1>1, WriteRenews
  <2>2. \A f \in File : file'[f] = file[f] => Parsed(f)' = Parsed(f)
    BY DEF Parsed
  <2>3. \A u \in Task, f \in File : mtime[u][f] \in Nat /\ mtime[u][f] <= clock /\ clock \in Nat
    BY DEF TypeOK, Past
  <2>4. \A u \in Task : pc'[u] = "reading" => pc[u] = "reading"
    BY <2>1 DEF TypeOK
  <2> QED
    BY <2>1, <2>2, <2>3, <2>4 DEF ReadsTrue, Found
<1>2. ASSUME NEW t \in Task, Other(t) PROVE ReadsTrue'
  <2>1. file' = file /\ \A f \in File : Parsed(f)' = Parsed(f)
    BY <1>2, OtherFiles, SelectionStable
  <2>2. \A u \in Task : u # t => /\ pc'[u] = pc[u] /\ read'[u] = read[u]
                                 /\ mtime'[u] = mtime[u]
    BY <1>2, OwnCall
  <2>3. SUFFICES /\ \A f \in File : read'[t][f].kind # "memory" => read'[t][f].rev = 0
                 /\ pc'[t] = "reading" => \A f \in File :
                       /\ read'[t][f].kind \notin {"unread", "error"}
                       /\ mtime'[t][f] = file[f].mtime
                       => read'[t][f].rev = Parsed(f).rev
    BY <2>1, <2>2 DEF ReadsTrue, Found
  <2>4. \A f \in File : Unread[f].kind = "unread" /\ Unread[f].rev = 0
    BY DEF Unread, Blank
  <2> USE DEF Goto, callVars, readVars
  <2>5. CASE (\E k \in Uses[t] : Begin(t, k)) \/ MtimeLocal(t)
    <3>1. read' = read /\ pc'[t] # "reading"
      BY <2>5 DEF Begin, MtimeLocal, TypeOK
    <3> QED
      BY <3>1 DEF ReadsTrue
  <2>6. CASE MtimeGlobal(t)
    <3>1. pc[t] = "mtimeGlobal" /\ read' = read
      BY <2>6 DEF MtimeGlobal
    <3>2. read'[t] = Unread
      BY <3>1 DEF NothingRead
    <3> QED
      BY <2>4, <3>2
  <2>7. ASSUME NEW f \in File, ReadFile(t, f)
        PROVE  /\ \A g \in File : read'[t][g].kind # "memory" => read'[t][g].rev = 0
               /\ \A g \in File :
                     /\ read'[t][g].kind \notin {"unread", "error"}
                     /\ mtime'[t][g] = file[g].mtime
                     => read'[t][g].rev = Parsed(g).rev
    <3>1. /\ pc[t] = "reading" /\ mtime' = mtime
          /\ \A g \in File \ {f} : read'[t][g] = read[t][g]
          /\ read'[t][f] = CandidateFrom(f)
      BY <2>7 DEF ReadFile, TypeOK
    <3>2. /\ CandidateFrom(f).kind # "error" => CandidateFrom(f) = Parsed(f)
          /\ CandidateFrom(f).kind # "memory" => CandidateFrom(f).rev = 0
      BY ParsedRev
    <3>3. \A g \in File \ {f} :
             /\ read[t][g].kind # "memory" => read[t][g].rev = 0
             /\ read[t][g].kind \notin {"unread", "error"} /\ mtime[t][g] = file[g].mtime
                  => read[t][g].rev = Parsed(g).rev
      BY <3>1 DEF ReadsTrue, Found
    <3> QED
      BY <3>1, <3>2, <3>3
  <2>8. CASE Select(t)
    <3>1. read'[t] = Unread
      BY <2>8 DEF Select, TypeOK
    <3> QED
      BY <2>4, <3>1
  <2>9. CASE Rest(t)
    <3>1. read' = read /\ pc'[t] # "reading"
      BY <2>9, RestDoes
    <3> QED
      BY <3>1 DEF ReadsTrue
  <2> QED
    BY <1>2, <2>5, <2>6, <2>7, <2>8, <2>9, OtherSplits
<1>3. CASE FileFault \/ RecoverLock \/ UNCHANGED vars
  <2>1. /\ UNCHANGED <<pc, mtime, read>>
        /\ \A f \in File : \/ file'[f] = file[f]
                           \/ file'[f].mtime = clock' /\ clock' = clock + 1
    BY <1>3, FaultDoes
  <2>2. \A f \in File : file'[f] = file[f] => Parsed(f)' = Parsed(f)
    BY DEF Parsed
  <2>3. \A u \in Task, f \in File : mtime[u][f] \in Nat /\ mtime[u][f] <= clock /\ clock \in Nat
    BY DEF TypeOK, Past
  <2> QED
    BY <2>1, <2>2, <2>3 DEF ReadsTrue, Found
<1>4. ASSUME NEW p \in Pid, Crash(p) PROVE ReadsTrue'
  <2>1. /\ UNCHANGED <<file, mtime, read>>
        /\ \A t \in Task : pc'[t] = pc[t] \/ pc'[t] = "dead"
    BY <1>4, CrashDoes
  <2>2. \A f \in File : Parsed(f)' = Parsed(f)
    BY <2>1, SelectionStable
  <2> QED
    BY <2>1, <2>2 DEF ReadsTrue, Found
<1> QED
  BY <1>1, <1>2, <1>3, <1>4, Steps

\* A selection of what was found with unchanged mtimes is the authoritative one.
LEMMA SelectsTrue ==
    ASSUME TypeOK, ReadsTrue, NEW t \in Task, Select(t)
    PROVE  LET s == SelectCandidate(read[t]["local"], read[t]["global"]) IN
           /\ s.rev \in Nat /\ \A f \in File : read[t][f].rev <= s.rev
           /\ /\ \A f \in File : Found(t, f) /\ mtime[t][f] = file[f].mtime
              => s.rev = Authoritative.rev
<1> DEFINE s == SelectCandidate(read[t]["local"], read[t]["global"])
<1>1. "local" \in File /\ "global" \in File /\ \A f \in File : f = "local" \/ f = "global"
  BY DEF File
<1>2. \A f \in File : read[t][f] \in Candidate /\ read[t][f].rev \in Nat
  BY DEF TypeOK, Candidate
<1>3. \A f \in File : read[t][f].kind # "memory" => read[t][f].rev = 0
  BY DEF ReadsTrue
<1>4. /\ s.rev \in {read[t]["local"].rev, read[t]["global"].rev}
      /\ read[t]["local"].rev <= s.rev /\ read[t]["global"].rev <= s.rev
      /\ s.rev \in Nat
  BY <1>1, <1>2, <1>3, SelectedRev
<1>5. NewestWins
  BY AuthoritativeRev
<1>6. pc[t] = "reading"
  BY DEF Select, Goto
<1>7. ASSUME \A f \in File : Found(t, f) /\ mtime[t][f] = file[f].mtime
      PROVE  s.rev = Authoritative.rev
  <2>1. \A f \in File : read[t][f].rev = Parsed(f).rev
    BY <1>6, <1>7 DEF ReadsTrue
  <2> HIDE DEF s
  <2> QED
    BY <1>1, <1>2, <1>4, <1>5, <2>1 DEF NewestWins
<1> HIDE DEF s
<1>8. s.rev \in Nat /\ \A f \in File : read[t][f].rev <= s.rev
  BY <1>1, <1>4
<1> QED
  BY <1>7, <1>8 DEF s

\* A cache entry is right, or one of its mtimes is out of date.
LEMMA CachesStayTrue ==
    ASSUME TypeOK, TypeOK', FineClock, LockDiscipline, TransactionsTrue, Past, ReadsTrue,
           CachesTrue, [Next]_vars
    PROVE  CachesTrue'
<1>1. EmptyCache.state = "empty"
  BY DEF EmptyCache
<1>2. \A p \in Pid, f \in File : cache[p].mtime[f] \in Nat /\ cache[p].mtime[f] <= clock
                                 /\ clock \in Nat
  BY DEF TypeOK, CacheEntry, Past
<1>3. ASSUME cache' = cache,
             \A f \in File : \/ file'[f] = file[f]
                             \/ file'[f].mtime = clock' /\ clock' = clock + 1
      PROVE  CachesTrue'
  <2>1. CASE \A f \in File : file'[f] = file[f]
    <3>1. file' = file
      BY <2>1 DEF TypeOK
    <3>2. Authoritative' = Authoritative
      BY <3>1, SelectionStable
    <3> QED
      BY <1>3, <3>1, <3>2 DEF CachesTrue
  <2>2. ASSUME NEW f \in File, file'[f].mtime = clock', clock' = clock + 1
        PROVE  CachesTrue'
    BY <1>2, <1>3, <2>2 DEF CachesTrue
  <2> QED
    BY <1>3, <2>1, <2>2
<1>4. ASSUME NEW t \in Task, Wrote(t) PROVE CachesTrue'
  BY <1>3, <1>4, WriteRenews
<1>5. ASSUME file' = file, NEW p \in Pid, cache' = [cache EXCEPT ![p] = EmptyCache]
      PROVE  CachesTrue'
  <2>1. Authoritative' = Authoritative
    BY <1>5, SelectionStable
  <2>2. \A q \in Pid : cache'[q] = cache[q] \/ cache'[q].state = "empty"
    BY <1>1, <1>5 DEF TypeOK
  <2> QED
    BY <1>5, <2>1, <2>2 DEF CachesTrue
<1>6. ASSUME NEW t \in Task, Other(t) PROVE CachesTrue'
  <2>1. file' = file /\ Authoritative' = Authoritative
    BY <1>6, OtherFiles, SelectionStable
  <2>2. CASE cache' = cache
    BY <2>1, <2>2 DEF CachesTrue
  <2>3. CASE Select(t)
    <3> DEFINE s == SelectCandidate(read[t]["local"], read[t]["global"])
               e == cache'[PidOf[t]]
    <3>1. PidOf[t] \in Pid
      BY StoreAssumption
    <3>2. /\ \A f \in File : read[t][f].kind # "unread"
          /\ \A p \in Pid \ {PidOf[t]} : cache'[p] = cache[p]
          /\ e.selected = s /\ e.mtime = mtime[t]
          /\ e.state = "sound" => \A f \in File : read[t][f].kind # "error"
      BY <2>3, <3>1 DEF Select, Stamp, TypeOK
    <3>3. (\A f \in File : Found(t, f) /\ mtime[t][f] = file[f].mtime)
             => s.rev = Authoritative.rev
      BY <2>3, SelectsTrue
    <3> HIDE DEF s
    <3>4. /\ e.state = "sound" /\ \A f \in File : e.mtime[f] = file[f].mtime
          => e.selected.rev = Authoritative.rev
      BY <3>2, <3>3 DEF Found
    <3> QED
      BY <2>1, <3>2, <3>4 DEF CachesTrue
  <2>4. CASE Rest(t)
    <3>1. \/ cache' = cache
          \/ cache' = [cache EXCEPT ![PidOf[t]] = EmptyCache] /\ PidOf[t] \in Pid
      BY <2>4, RestDoes, StoreAssumption
    <3> QED
      BY <1>5, <2>1, <2>2, <3>1
  <2>5. CASE (\E k \in Uses[t] : Begin(t, k)) \/ MtimeLocal(t) \/ MtimeGlobal(t)
             \/ (\E f \in File : ReadFile(t, f))
    BY <2>2, <2>5 DEF Begin, MtimeLocal, MtimeGlobal, ReadFile
  <2> QED
    BY <1>6, <2>3, <2>4, <2>5, OtherSplits
<1>7. CASE FileFault \/ RecoverLock \/ UNCHANGED vars
  BY <1>3, <1>7, FaultDoes
<1>8. ASSUME NEW p \in Pid, Crash(p) PROVE CachesTrue'
  BY <1>5, <1>8, CrashDoes
<1> QED
  BY <1>4, <1>6, <1>7, <1>8, Steps

\* What was committed when a call began is never lost.
LEMMA FloorsStay ==
    ASSUME TypeOK, TypeOK', FineClock, LockDiscipline, TransactionsTrue, FloorsHold,
           [Next]_vars
    PROVE  FloorsHold'
<1>1. NewestWins /\ NewestWins' /\ \A u \in Task : floor[u] \in Nat /\ floor'[u] \in Nat
  <2>1. NewestWins /\ NewestWins'
    BY AuthoritativeRev, PTL
  <2> QED
    BY <2>1 DEF TypeOK
<1>2. ASSUME NEW t \in Task, Wrote(t) PROVE FloorsHold'
  <2>1. floor' = floor /\ unreadable' \subseteq unreadable
        /\ Authoritative.rev <= Authoritative'.rev
    BY <1>2, WriteRenews
  <2> QED
    BY <1>1, <2>1 DEF FloorsHold, NewestWins
<1>3. ASSUME NEW t \in Task, Other(t) PROVE FloorsHold'
  <2>1. unreadable' = unreadable /\ Authoritative' = Authoritative
    BY <1>3, OtherFiles, SelectionStable
  <2>2. CASE \E k \in Uses[t] : Begin(t, k)
    <3>1. floor' = [floor EXCEPT ![t] = IF unreadable = {} THEN Authoritative.rev ELSE 0]
      BY <2>2 DEF Begin
    <3> QED
      BY <1>1, <2>1, <3>1 DEF FloorsHold, NewestWins, TypeOK
  <2>3. CASE floor' = floor
    BY <2>1, <2>3 DEF FloorsHold
  <2>4. CASE MtimeLocal(t) \/ MtimeGlobal(t) \/ (\E f \in File : ReadFile(t, f)) \/ Select(t)
    BY <2>3, <2>4 DEF MtimeLocal, MtimeGlobal, ReadFile, Select, callVars
  <2> QED
    BY <1>3, <2>2, <2>3, <2>4, OtherSplits, RestDoes
<1>4. CASE FileFault \/ RecoverLock \/ UNCHANGED vars
  <2>1. CASE floor' = [t \in Task |-> 0]
    BY <2>1 DEF FloorsHold
  <2>2. CASE floor' = floor /\ file' = file /\ unreadable' \subseteq unreadable
    BY <2>2, SelectionStable DEF FloorsHold
  <2> QED
    BY <1>4, <2>1, <2>2, FaultDoes
<1>5. ASSUME NEW p \in Pid, Crash(p) PROVE FloorsHold'
  BY <1>5, CrashDoes, SelectionStable DEF FloorsHold
<1> QED
  BY <1>2, <1>3, <1>4, <1>5, Steps
\* A reader cannot miss in both files what was there when it began.
LEMMA ReadersStay ==
    ASSUME TypeOK, TypeOK', FineClock, LockDiscipline, NothingRead, TransactionsTrue,
           FloorsHold, ReadersTrue, [Next]_vars
    PROVE  ReadersTrue'
<1>1. NewestWins /\ NewestWins'
  BY AuthoritativeRev, PTL
<1>2. \A u \in Task : floor[u] \in Nat /\ \A f \in File : read[u][f].rev \in Nat
  BY DEF TypeOK, Candidate
<1>3. ASSUME UNCHANGED <<kind, floor, read>>,
             \A f \in File : Parsed(f).rev <= Parsed(f)'.rev,
             NEW u \in Task, pc[u] = "reading", Reader(u)'
      PROVE  \E f \in File : floor'[u] <= Rev(u, f)'
  <2>1. PICK f \in File : floor[u] <= Rev(u, f)
    BY <1>3 DEF ReadersTrue, Reader
  <2>2. Rev(u, f) <= Rev(u, f)' /\ Rev(u, f) \in Nat /\ Rev(u, f)' \in Nat
    BY <1>1, <1>2, <1>3 DEF Rev, NewestWins
  <2> QED
    BY <1>2, <1>3, <2>1, <2>2
<1>4. ASSUME NEW t \in Task, Wrote(t) PROVE ReadersTrue'
  <2>1. /\ UNCHANGED <<kind, floor, read>> /\ pc' = [pc EXCEPT ![t] = "invalidate"]
        /\ \A f \in File : Parsed(f).rev <= Parsed(f)'.rev
    BY <1>4, WriteRenews
  <2>2. \A u \in Task : pc'[u] = "reading" => pc[u] = "reading"
    BY <2>1 DEF TypeOK
  <2> QED
    BY <1>3, <2>1, <2>2 DEF ReadersTrue
<1>5. ASSUME NEW t \in Task, Other(t) PROVE ReadersTrue'
  <2>1. /\ unreadable' = unreadable /\ Authoritative' = Authoritative
        /\ \A f \in File : Parsed(f)' = Parsed(f)
    BY <1>5, OtherFiles, SelectionStable
  <2>2. \A u \in Task : u # t => /\ pc'[u] = pc[u] /\ kind'[u] = kind[u]
                                 /\ read'[u] = read[u] /\ floor'[u] = floor[u]
    BY <1>5, OwnCall
  <2>3. SUFFICES ASSUME Reader(t)', pc'[t] = "reading"
                 PROVE  \E f \in File : floor'[t] <= Rev(t, f)'
    <3>1. \A u \in Task \ {t} : /\ Reader(u)' <=> Reader(u)
                                /\ \A f \in File : Rev(u, f)' = Rev(u, f)
      BY <2>1, <2>2 DEF Reader, Rev
    <3> QED
      BY <2>2, <2>3, <3>1 DEF ReadersTrue
  <2> USE DEF Goto, callVars, readVars
  <2>4. CASE (\E k \in Uses[t] : Begin(t, k)) \/ MtimeLocal(t) \/ Select(t)
    BY <2>3, <2>4 DEF Begin, MtimeLocal, Select, TypeOK
  <2>5. CASE MtimeGlobal(t)
    <3>1. pc[t] = "mtimeGlobal" /\ read' = read /\ floor' = floor
      BY <2>5 DEF MtimeGlobal
    <3>2. read'[t] = Unread
      BY <3>1 DEF NothingRead
    <3>3. \A f \in File : Unread[f].kind = "unread"
      BY DEF Unread, Blank
    <3>4. \A f \in File : Rev(t, f)' = Parsed(f).rev
      BY <2>1, <3>2, <3>3 DEF Rev
    <3>5. floor[t] <= Authoritative.rev
      BY <2>3, <3>1 DEF FloorsHold, Reader
    <3> QED
      BY <1>1, <3>1, <3>4, <3>5 DEF NewestWins
  <2>6. ASSUME NEW g \in File, ReadFile(t, g)
        PROVE  \E f \in File : floor'[t] <= Rev(t, f)'
    <3>1. /\ pc[t] = "reading" /\ UNCHANGED <<kind, floor>>
          /\ \A f \in File \ {g} : read'[t][f] = read[t][f]
          /\ read[t][g].kind = "unread" /\ read'[t][g] = CandidateFrom(g)
      BY <2>6 DEF ReadFile, TypeOK
    <3>2. unreadable = {}
      BY <2>3, <3>1 DEF FloorsHold, Reader
    <3>3. CandidateFrom(g) = Parsed(g) /\ CandidateFrom(g).kind # "unread"
      BY <3>2, ParsedRev
    <3>4. \A f \in File : Rev(t, f)' = Rev(t, f)
      BY <2>1, <3>1, <3>3 DEF Rev
    <3>5. Reader(t)
      BY <2>3, <3>1 DEF Reader
    <3> QED
      BY <3>1, <3>4, <3>5 DEF ReadersTrue
  <2>7. CASE Rest(t)
    BY <2>3, <2>7, RestDoes
  <2> QED
    BY <1>5, <2>4, <2>5, <2>6, <2>7, OtherSplits
<1>6. CASE FileFault \/ RecoverLock \/ UNCHANGED vars
  <2>1. UNCHANGED <<pc, kind, read>>
    BY <1>6, FaultDoes
  <2>2. CASE floor' = [t \in Task |-> 0]
    BY <2>2 DEF ReadersTrue, Reader
  <2>3. CASE floor' = floor /\ file' = file
    <3>1. \A f \in File : Parsed(f)' = Parsed(f)
      BY <2>3, SelectionStable
    <3>2. \A u \in Task : /\ Reader(u)' <=> Reader(u)
                          /\ \A f \in File : Rev(u, f)' = Rev(u, f)
      BY <2>1, <2>3, <3>1 DEF Reader, Rev
    <3> QED
      BY <2>1, <2>3, <3>2 DEF ReadersTrue
  <2> QED
    BY <1>6, <2>2, <2>3, FaultDoes
<1>7. ASSUME NEW p \in Pid, Crash(p) PROVE ReadersTrue'
  <2>1. /\ UNCHANGED <<file, kind, read, floor>>
        /\ \A t \in Task : pc'[t] = pc[t] \/ pc'[t] = "dead"
    BY <1>7, CrashDoes
  <2>2. \A f \in File : Parsed(f)' = Parsed(f)
    BY <2>1, SelectionStable
  <2>3. \A u \in Task : /\ Reader(u)' <=> Reader(u)
                        /\ \A f \in File : Rev(u, f)' = Rev(u, f)
    BY <2>1, <2>2 DEF Reader, Rev
  <2> QED
    BY <2>1, <2>3 DEF ReadersTrue
<1> QED
  BY <1>4, <1>5, <1>6, <1>7, Steps

\* Between its two mtimes a reader may see the local file change and a stale
\* selection be cached; the entry it then matches is still new enough.
LEMMA HitsStay ==
    ASSUME TypeOK, TypeOK', FineClock, LockDiscipline, NothingRead, TransactionsTrue,
           Past, ReadsTrue, CachesTrue, FloorsHold, HitsTrue, [Next]_vars
    PROVE  HitsTrue'
<1>1. NewestWins /\ NewestWins'
  BY AuthoritativeRev, PTL
<1>2. \A u \in Task : /\ floor[u] \in Nat /\ PidOf[u] \in Pid
                      /\ \A f \in File : read[u][f].rev \in Nat
  BY StoreAssumption DEF TypeOK, Candidate
<1>3. \A p \in Pid, f \in File : cache[p].mtime[f] \in Nat /\ cache[p].mtime[f] <= clock
                                 /\ clock \in Nat
  BY DEF TypeOK, CacheEntry, Past
<1>4. "local" \in File /\ "global" \in File
  BY DEF File
<1>5. ASSUME NEW w \in Task, Wrote(w), NEW t \in Task, Between(t)'
      PROVE  HitOf(t)' /\ \A u \in Task : FoundBy(t, u)'
  <2>1. /\ UNCHANGED <<kind, read, mtime, floor, cache>> /\ clock' = clock + 1
        /\ pc' = [pc EXCEPT ![w] = "invalidate"]
        /\ \A f \in File : file'[f] = file[f] \/ file'[f].mtime = clock'
        /\ \A f \in File : Parsed(f).rev <= Parsed(f)'.rev
    BY <1>5, WriteRenews
  <2>2. \A u \in Task : pc'[u] \in {"mtimeGlobal", "reading"} => pc[u] = pc'[u]
    BY <2>1 DEF TypeOK
  <2>3. Between(t)
    BY <1>5, <2>1, <2>2 DEF Between, Reader
  <2>4. HitOf(t) /\ \A u \in Task : FoundBy(t, u)
    BY <2>3 DEF HitsTrue
  <2>5. HitOf(t)'
    BY <1>2, <1>3, <1>4, <2>1, <2>4 DEF HitOf
  <2>6. ASSUME NEW u \in Task PROVE FoundBy(t, u)'
    <3>1. Parsed("global").rev \in Nat /\ Parsed("global")'.rev \in Nat
          /\ Parsed("global").rev <= Parsed("global")'.rev
      BY <1>1, <1>4, <2>1 DEF NewestWins
    <3> QED
      BY <1>2, <2>1, <2>2, <2>4, <3>1 DEF FoundBy, Found
  <2> QED
    BY <2>5, <2>6
<1>6. ASSUME NEW w \in Task, Other(w), NEW t \in Task, Between(t)'
      PROVE  HitOf(t)' /\ \A u \in Task : FoundBy(t, u)'
  <2>1. /\ file' = file /\ Authoritative' = Authoritative
        /\ \A f \in File : Parsed(f)' = Parsed(f)
    BY <1>6, OtherFiles, SelectionStable
  <2>2. \A u \in Task : u # w => /\ pc'[u] = pc[u] /\ kind'[u] = kind[u]
                                 /\ read'[u] = read[u] /\ mtime'[u] = mtime[u]
                                 /\ floor'[u] = floor[u]
    BY <1>6, OwnCall
  <2>3. CASE t = w
    <3>1. MtimeLocal(t)
      <4> USE <2>3 DEF Goto, Between
      <4>1. CASE \/ \E k \in Uses[t] : Begin(t, k)
                 \/ MtimeGlobal(t) \/ (\E f \in File : ReadFile(t, f)) \/ Select(t)
        BY <1>6, <4>1 DEF Begin, MtimeGlobal, ReadFile, Select, TypeOK
      <4>2. CASE Rest(t)
        BY <1>6, <4>2, RestDoes
      <4> QED
        BY <1>6, <4>1, <4>2, OtherSplits
    <3>2. /\ UNCHANGED <<kind, floor, read, cache>> /\ pc'[t] = "mtimeGlobal"
          /\ mtime'[t]["local"] = file["local"].mtime
      BY <1>4, <3>1 DEF MtimeLocal, Goto, TypeOK, callVars
    <3>3. floor[t] <= Authoritative.rev
      BY <1>6, <3>2 DEF FloorsHold, Between, Reader
    <3>4. HitOf(t)'
      <4>1. ASSUME cache[PidOf[t]].state = "sound",
                   \A f \in File : cache[PidOf[t]].mtime[f] = file[f].mtime
            PROVE  floor[t] <= cache[PidOf[t]].selected.rev
        BY <1>2, <3>3, <4>1 DEF CachesTrue
      <4> QED
        BY <2>1, <3>2, <4>1 DEF HitOf, File
    <3>5. ASSUME NEW u \in Task PROVE FoundBy(t, u)'
      <4>1. CASE u = t
        BY <3>2, <4>1 DEF FoundBy
      <4>2. ASSUME u # t, pc[u] = "reading", Found(u, "local"),
                   mtime[u]["local"] = file["local"].mtime
            PROVE  floor[t] <= read[u]["local"].rev \/ floor[t] <= Parsed("global").rev
        <5>1. read[u]["local"].rev = Parsed("local").rev
          BY <1>4, <4>2 DEF ReadsTrue
        <5> QED
          BY <1>1, <1>2, <3>3, <5>1 DEF NewestWins, File
      <4> QED
        BY <1>4, <2>1, <2>2, <2>3, <3>2, <4>1, <4>2 DEF FoundBy, Found
    <3> QED
      BY <3>4, <3>5
  <2>4. CASE t # w
    <3>1. Between(t)
      BY <1>6, <2>2, <2>4 DEF Between, Reader
    <3>2. HitOf(t) /\ \A u \in Task : FoundBy(t, u)
      BY <3>1 DEF HitsTrue
    <3>3. floor[t] <= Authoritative.rev /\ unreadable = {}
      BY <3>1 DEF FloorsHold, Between, Reader
    <3>4. HitOf(t)'
      <4>1. CASE cache'[PidOf[t]] = cache[PidOf[t]]
        BY <2>1, <2>2, <2>4, <3>2, <4>1 DEF HitOf
      <4>2. CASE Select(w)
        <5> DEFINE s == SelectCandidate(read[w]["local"], read[w]["global"])
                   e == cache'[PidOf[t]]
        <5>1. CASE PidOf[w] = PidOf[t]
          <6>1. /\ pc[w] = "reading" /\ \A f \in File : read[w][f].kind # "unread"
                /\ e.selected = s /\ e.mtime = mtime[w]
                /\ e.state = "sound" => \A f \in File : read[w][f].kind # "error"
            BY <1>2, <4>2, <5>1 DEF Select, Goto, Stamp, TypeOK
          <6>2. s.rev \in Nat /\ \A f \in File : read[w][f].rev <= s.rev
            BY <4>2, SelectsTrue
          <6> HIDE DEF s
          <6>3. ASSUME e.state = "sound", e.mtime["local"] = mtime[t]["local"],
                       e.mtime["global"] = file["global"].mtime
                PROVE  floor[t] <= e.selected.rev
            <7>1. Found(w, "local") /\ Found(w, "global")
              BY <1>4, <6>1, <6>3 DEF Found
            <7>2. floor[t] <= read[w]["local"].rev \/ floor[t] <= Parsed("global").rev
              BY <3>2, <6>1, <6>3, <7>1 DEF FoundBy
            <7>3. read[w]["global"].rev = Parsed("global").rev
              BY <1>4, <6>1, <6>3, <7>1 DEF ReadsTrue
            <7> QED
              BY <1>2, <1>4, <6>1, <6>2, <7>2, <7>3
          <6> QED
            BY <2>1, <2>2, <2>4, <6>3 DEF HitOf
        <5>2. CASE PidOf[w] # PidOf[t]
          <6>1. cache'[PidOf[t]] = cache[PidOf[t]]
            BY <1>2, <4>2, <5>2 DEF Select, TypeOK
          <6> QED
            BY <4>1, <6>1
        <5> QED
          BY <5>1, <5>2
      <4>3. CASE Rest(w)
        <5>1. cache'[PidOf[t]] \in {cache[PidOf[t]], EmptyCache}
          BY <1>2, <4>3, RestDoes DEF TypeOK
        <5>2. EmptyCache.state = "empty"
          BY DEF EmptyCache
        <5> QED
          BY <4>1, <5>1, <5>2 DEF HitOf
      <4>4. CASE \/ \E k \in Uses[w] : Begin(w, k)
                 \/ MtimeLocal(w) \/ MtimeGlobal(w) \/ (\E f \in File : ReadFile(w, f))
        BY <4>1, <4>4 DEF Begin, MtimeLocal, MtimeGlobal, ReadFile
      <4> QED
        BY <1>6, <4>2, <4>3, <4>4, OtherSplits
    <3>5. ASSUME NEW u \in Task \ {w} PROVE FoundBy(t, u)'
      BY <1>4, <2>1, <2>2, <2>4, <3>2 DEF FoundBy, Found
    <3>6. FoundBy(t, w)'
      <4>1. CASE \/ \E k \in Uses[w] : Begin(w, k)
                 \/ MtimeLocal(w) \/ Select(w) \/ Rest(w)
        <5>1. pc'[w] # "reading"
          BY <4>1, RestDoes DEF Begin, MtimeLocal, Select, Goto, TypeOK
        <5> QED
          BY <5>1 DEF FoundBy
      <4>2. CASE MtimeGlobal(w)
        <5>1. read'[w] = Unread
          BY <4>2 DEF MtimeGlobal, Goto, NothingRead
        <5>2. Unread["local"].kind = "unread"
          BY <1>4 DEF Unread, Blank
        <5> QED
          BY <5>1, <5>2 DEF FoundBy, Found
      <4>3. ASSUME NEW f \in File, ReadFile(w, f) PROVE FoundBy(t, w)'
        <5>1. /\ pc[w] = "reading" /\ mtime' = mtime
              /\ \A g \in File \ {f} : read'[w][g] = read[w][g]
              /\ read'[w][f] = CandidateFrom(f)
          BY <4>3 DEF ReadFile, TypeOK
        <5>2. CASE f = "local"
          <6>1. read'[w]["local"] = Parsed("local")
            BY <1>4, <3>3, <5>1, <5>2, ParsedRev
          <6>2. floor[t] <= Parsed("local").rev \/ floor[t] <= Parsed("global").rev
            BY <1>1, <3>3 DEF NewestWins, File
          <6> QED
            BY <1>4, <2>1, <2>2, <2>4, <6>1, <6>2 DEF FoundBy
        <5>3. CASE f # "local"
          <6>1. read'[w]["local"] = read[w]["local"]
            BY <1>4, <5>1, <5>3
          <6> QED
            BY <1>4, <2>1, <2>2, <2>4, <3>2, <5>1, <6>1 DEF FoundBy, Found
        <5> QED
          BY <5>2, <5>3
      <4> QED
        BY <1>6, <4>1, <4>2, <4>3, OtherSplits
    <3> QED
      BY <3>4, <3>5, <3>6
  <2> QED
    BY <2>3, <2>4
<1>7. ASSUME FileFault \/ RecoverLock \/ UNCHANGED vars, NEW t \in Task, Between(t)'
      PROVE  HitOf(t)' /\ \A u \in Task : FoundBy(t, u)'
  <2>1. UNCHANGED <<pc, kind, read, mtime, cache>>
    BY <1>7, FaultDoes
  <2>2. floor' # [u \in Task |-> 0]
    BY <1>7 DEF Between, Reader
  <2>3. floor' = floor /\ file' = file
    BY <1>7, <2>2, FaultDoes
  <2>4. Parsed("global")' = Parsed("global")
    BY <1>4, <2>3, SelectionStable
  <2>5. Between(t)
    BY <1>7, <2>1, <2>3 DEF Between, Reader
  <2> QED
    BY <2>1, <2>3, <2>4, <2>5 DEF HitsTrue, HitOf, FoundBy, Found
<1>8. ASSUME NEW p \in Pid, Crash(p), NEW t \in Task, Between(t)'
      PROVE  HitOf(t)' /\ \A u \in Task : FoundBy(t, u)'
  <2>1. /\ UNCHANGED <<file, kind, read, mtime, floor>>
        /\ \A u \in Task : pc'[u] = pc[u] \/ pc'[u] = "dead"
        /\ cache' = [cache EXCEPT ![p] = EmptyCache]
    BY <1>8, CrashDoes
  <2>2. Between(t)
    BY <1>8, <2>1 DEF Between, Reader
  <2>3. Parsed("global")' = Parsed("global")
    BY <1>4, <2>1, SelectionStable
  <2>4. cache'[PidOf[t]] = cache[PidOf[t]] \/ cache'[PidOf[t]].state = "empty"
    BY <1>2, <2>1 DEF TypeOK, EmptyCache
  <2>5. HitOf(t) /\ \A u \in Task : FoundBy(t, u)
    BY <2>2 DEF HitsTrue
  <2>6. HitOf(t)'
    BY <2>1, <2>4, <2>5 DEF HitOf
  <2>7. \A u \in Task : FoundBy(t, u)'
    BY <2>1, <2>3, <2>5 DEF FoundBy, Found
  <2> QED
    BY <2>6, <2>7
<1> QED
  BY <1>5, <1>6, <1>7, <1>8, Steps DEF HitsTrue
\* An answer, from the files or from the cache, reaches the floor.
LEMMA AnswersStayFresh ==
    ASSUME TypeOK, LockDiscipline, ReadsTrue, ReadersTrue, HitsTrue, ReadsAreFresh,
           [Next]_vars
    PROVE  ReadsAreFresh'
<1>1. "local" \in File /\ "global" \in File
  BY DEF File
<1>2. ASSUME NEW w \in Task, Wrote(w) PROVE ReadsAreFresh'
  <2>1. UNCHANGED <<kind, base, floor>> /\ pc' = [pc EXCEPT ![w] = "invalidate"]
    BY <1>2, WriteDoes
  <2>2. \A t \in Task : pc'[t] = "done" => pc[t] = "done"
    BY <2>1 DEF TypeOK
  <2> QED
    BY <2>1, <2>2 DEF ReadsAreFresh
<1>3. ASSUME NEW t \in Task, Other(t) PROVE ReadsAreFresh'
  <2>1. \A u \in Task : u # t => /\ pc'[u] = pc[u] /\ kind'[u] = kind[u]
                                 /\ base'[u] = base[u] /\ floor'[u] = floor[u]
    BY <1>3, OwnCall
  <2>2. SUFFICES ASSUME pc'[t] = "done", kind'[t] = "read"
                 PROVE  base'[t].rev >= floor'[t]
    BY <2>1 DEF ReadsAreFresh
  <2>3. CASE (\E k \in Uses[t] : Begin(t, k)) \/ MtimeLocal(t)
             \/ (\E f \in File : ReadFile(t, f))
    BY <2>2, <2>3 DEF Begin, MtimeLocal, ReadFile, Goto, TypeOK
  <2>4. CASE MtimeGlobal(t)
    <3> DEFINE found == [mtime[t] EXCEPT !["global"] = file["global"].mtime]
               e == cache[PidOf[t]]
    <3>1. /\ pc[t] = "mtimeGlobal" /\ UNCHANGED <<kind, floor>>
          /\ kind[t] = "read" /\ e.state = "sound" /\ e.mtime = found
          /\ base'[t] = e.selected
      BY <2>2, <2>4 DEF MtimeGlobal, CacheHit, Goto, TypeOK, callVars
    <3>2. found["local"] = mtime[t]["local"] /\ found["global"] = file["global"].mtime
      BY <1>1 DEF TypeOK
    <3>3. 0 < floor[t] => floor[t] <= e.selected.rev
      BY <3>1, <3>2 DEF HitsTrue, HitOf, Between, Reader
    <3>4. e.selected.rev \in Nat /\ floor[t] \in Nat
      BY StoreAssumption DEF TypeOK, CacheEntry, Result
    <3> HIDE DEF e
    <3> QED
      BY <3>1, <3>3, <3>4
  <2>5. CASE Select(t)
    <3> DEFINE s == SelectCandidate(read[t]["local"], read[t]["global"])
    <3>1. /\ pc[t] = "reading" /\ UNCHANGED <<kind, floor>> /\ base'[t] = s
          /\ \A f \in File : read[t][f].kind # "unread"
      BY <2>5 DEF Select, Goto, TypeOK, callVars
    <3>2. s.rev \in Nat /\ \A f \in File : read[t][f].rev <= s.rev
      BY <2>5, SelectsTrue
    <3> HIDE DEF s
    <3>3. floor[t] \in Nat /\ \A f \in File : read[t][f].rev \in Nat
      BY DEF TypeOK, Candidate
    <3>4. 0 < floor[t] => \E f \in File : floor[t] <= read[t][f].rev
      BY <2>2, <3>1 DEF ReadersTrue, Reader, Rev
    <3> QED
      BY <3>1, <3>2, <3>3, <3>4
  <2>6. CASE Rest(t)
    BY <2>2, <2>6, RestDoes
  <2> QED
    BY <1>3, <2>3, <2>4, <2>5, <2>6, OtherSplits
<1>4. CASE FileFault \/ RecoverLock \/ UNCHANGED vars
  <2>1. /\ UNCHANGED <<pc, kind, base>>
        /\ floor' = floor \/ floor' = [t \in Task |-> 0]
    BY <1>4, FaultDoes
  <2>2. \A t \in Task : base[t].rev \in Nat
    BY DEF TypeOK, Result
  <2> QED
    BY <2>1, <2>2 DEF ReadsAreFresh
<1>5. ASSUME NEW p \in Pid, Crash(p) PROVE ReadsAreFresh'
  BY <1>5, CrashDoes DEF ReadsAreFresh
<1> QED
  BY <1>2, <1>3, <1>4, <1>5, Steps

\* The inductive invariant behind the freshness of reads: where every call is
\* between its mtimes, its reads and the cache (readMemoryState).
THEOREM FreshnessInductive ==
    ASSUME FineClock, ~({"readonly", "unreadable"} \subseteq EnvFaults)
    PROVE  Spec => []FInv
<1>1. Init => FInv
  <2> SUFFICES ASSUME Init PROVE FInv
    OBVIOUS
  <2>1. /\ NoReadonly /\ NoCorrupt /\ NothingRead
    BY DEF Init, NoReadonly, NoCorrupt, NothingRead, NoFile
  <2>2. LockDiscipline /\ TransactionsTrue
    BY StoreAssumption DEF Init, TransactionsTrue, LockDiscipline, InTransaction, LockedPC,
       WritingPC, Lock!Init
  <2>3. Past
    BY DEF Init, Past, NoFile, NoMtimes, EmptyCache
  <2>4. \A f \in File, t \in Task : read[t][f] = Blank("unread")
    BY DEF Init, Unread
  <2>5. Global /\ Readable
    BY <2>4 DEF Init, Global, Readable, NoFile, File, Blank
  <2>6. ReadsTrue
    BY <2>4 DEF Init, ReadsTrue, Blank
  <2>7. CachesTrue
    BY DEF Init, CachesTrue, EmptyCache
  <2>8. FloorsHold /\ ReadersTrue /\ HitsTrue /\ ReadsAreFresh
    BY DEF Init, FloorsHold, ReadersTrue, HitsTrue, ReadsAreFresh, Reader, Between
  <2> QED
    BY <2>1, <2>2, <2>3, <2>5, <2>6, <2>7, <2>8 DEF FInv
<1>2. TypeOK /\ TypeOK' /\ FInv /\ [Next]_vars => FInv'
  <2> SUFFICES ASSUME TypeOK, TypeOK', FInv, [Next]_vars PROVE FInv'
    OBVIOUS
  <2>1. /\ LockDiscipline /\ NothingRead /\ NoReadonly /\ NoCorrupt
        /\ Past /\ Global /\ Readable
        /\ ReadsTrue /\ TransactionsTrue /\ CachesTrue /\ FloorsHold /\ ReadersTrue
        /\ HitsTrue /\ ReadsAreFresh
    BY DEF FInv
  <2>2. LockDiscipline'
    BY <2>1, LockDisciplined
  <2>3. NothingRead' /\ NoReadonly' /\ NoCorrupt'
    BY <2>1, ReadStarts, FaultsNeverMade
  <2>4. Past'
    BY <2>1, PastStays
  <2>5. Global' /\ Readable'
    BY <2>1, GlobalStays, ReadableStays
  <2>6. TransactionsTrue'
    BY <2>1, <2>2, TransactionsStay
  <2>7. ReadsTrue' /\ CachesTrue'
    BY <2>1, ReadsStayTrue, CachesStayTrue
  <2>8. FloorsHold' /\ ReadersTrue'
    BY <2>1, FloorsStay, ReadersStay
  <2>9. HitsTrue' /\ ReadsAreFresh'
    BY <2>1, HitsStay, AnswersStayFresh
  <2> QED
    BY <2>2, <2>3, <2>4, <2>5, <2>6, <2>7, <2>8, <2>9 DEF FInv
<1> QED
  BY <1>1, <1>2, StoreTypeCorrect, PTL DEF Spec

\* A read that returns has everything that was committed when it was called,
\* from the files or from its process's cache (readMemoryState's comparison of
\* the two mtimes), if every write gets an mtime of its own and files that
\* cannot be read do not meet directories that cannot be written.
THEOREM CachesHideNothing ==
    ASSUME FineClock, ~({"readonly", "unreadable"} \subseteq EnvFaults)
    PROVE  Spec => []ReadsAreFresh
<1>1. FInv => ReadsAreFresh
  BY DEF FInv
<1> QED
  BY <1>1, FreshnessInductive, PTL
=============================================================================
