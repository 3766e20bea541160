# TokenMaxxer in TLA+

TokenMaxxer is an opencode plugin. When a session goes idle it distils the
session's transcript into a small project memory (`STATE.json`: task, blockers,
decisions, bookkeeping), injects that memory when a session is compacted, and lets
a human review its decisions from a command line. Several opencode processes and
CLI calls work on one project's memory at once, without a server: the only things
they share are files.

This directory models the parts of the program whose correctness depends on the
order in which those processes, their asynchronous tasks and their failures step,
checks them with TLC on small instances and proves the central results with
TLAPS. Paths and line numbers refer to the repository; the exact lines behind each
definition are in `PROJECT.json` (`map`), the hazards the properties answer to in
its `hazards`.

    tlc -workers 2 -config ProjectLock_core.cfg MCProjectLock    # a run
    tlapm ProjectLock_proofs.tla                                 # a module's proofs

## Inventory

| Component | State | Operations | Hard because of | Modelled in |
|---|---|---|---|---|
| Project lock `memory/project-lock.ts` | lock directory, `owner.json`, claim directories | acquire, publish owner, classify, claim, revalidate, quarantine, release | crashes, races between two file-system calls, pid reuse, shared storage of two hosts | ProjectLock, ProjectMutex |
| Memory store `memory/store.ts`, `util/fs.ts`, `memory/paths.ts` | two `STATE.json` files, a cache per process | readMemoryState, mutateMemory, commit with fallback | stale caches, lost updates, read-only and unreadable files, crashes | MemoryStore, MemoryRegister |
| Decisions `memory/merge.ts`, `decision-authority.ts`, `decision-review.ts`, `cli.ts` | decision rows | merge a batch, request review, confirm, promote, supersede | automation and humans in any order, read before the lock and acted on in it | Decisions |
| Byte budget `memory/budget.ts`, `memory-size.ts` | none | twelve stages that shrink a memory at every commit, or refuse it | drops what someone counted on; refuses what could be saved | Budget, StateDocument (coarser in Decisions and IdlePipeline) |
| Schema and migration `memory/schema.ts`, `migrate.ts` | none: repairs are made anew at every read | upgrade versions 1 and 2, repair ids, claims and sizes, validate | rows that share an id, reviews that meant one of them | MemoryDocument, Migration, StateDocument |
| Idle pipeline `memory/writer.ts`, `lock.ts`, `source-processing.ts` | per-process queue, ledger of completed sources, audit rows | prepare, enqueue, heuristic merge, extraction, final merge | minutes between a read and its use, two processes on one source, restart in between | IdlePipeline |
| LLM extraction `memory/extract-llm.ts` | retained session ids, model health | create audit session, prompt twice, report | its own sessions go idle too | IdlePipeline |
| Plugin hooks `index.ts` | last published sequence per artifact | session.idle, compacting, compacted | hooks that finish in another order than they began | IdlePipeline, CompactionHooks |
| Compaction diagnostics `diagnostics/` | an artifact file in one of two directories | write, read the newest | an older observation that is written later | CompactionHooks |
| Commit pulse, TUI `memory/commit-pulse.ts`, `tui.tsx` | a marker file, timers | poll, animate, dispose | late answers after disposal | not modelled (telemetry) |
| Tools `tools/` | none | recall, recall_promote, status | – | recall_promote in StateDocument and Decisions; the others render |
| Reader `memory/reader.ts` | none | queries over a memory | pure | the authority of a topic, in Decisions |
| Compaction text, prompts, host adapters, config | none of their own | formatting and normalization | – | not modelled |
| Installer, release scripts | files of an installation | replace, roll back | interruption | not modelled yet |

How they interact: an idle event (index.ts) prepares its transcript and enqueues a
job (lock.ts); the job makes up to five transactions of the store (heuristic merge,
audit guard, terminal outcome, model health, final merge); each transaction takes
the project lock, reads both files, lets its callback compute a new memory
(merge.ts and others), fits it to the budget, and writes it. The CLI makes
transactions of its own. Reads take no lock and go through the cache.

The modules stack the same way. ProjectLock implements ProjectMutex; MemoryStore
is written over ProjectMutex (it INSTANCEs it) and implements MemoryRegister, a
memory that mutations change one at a time; Decisions and IdlePipeline take a
transaction as one step, which is what MemoryRegister says it is. StateDocument
looks into one transaction after the other: the document is read through Migration,
changed, and fitted by Budget, both over the document and its size in
MemoryDocument; its FitsAsAssumed is what Decisions and IdlePipeline take a commit
to do. CompactionHooks stands beside them: the hooks write no memory and take no
lock.

## The modules

### ProjectMutex, ProjectLock

`ProjectMutex` is what the rest of the program relies on: a holder, the set of
tasks inside the operation, release, and recovery of a dead holder.

`ProjectLock` is the directory protocol, one action per file-system call: `mkdir`
of `.state-lock` (MakeLock), writing `owner.json` (publish) and removing the
directory when that fails, reading the owner and testing its pid (classify, probe),
making a claim directory and its metadata, re-reading the owner, testing again,
renaming the stale directory away, and removing claims and quarantined
directories; then the operation, the nonce check of the release and its rename. A
path is resolved when its call is made, so a late call acts on whatever directory
bears the name by then. A nonce is the pair of a task and the count of its draws.
`tryAcquireProjectLock` is a withProjectLock that gives up after one round, which
every behaviour of `GiveUp` includes. Left out: the wording of warnings, back-off
durations; an unexpected error of mkdir is taken as contention.

Two outcomes the code documents as tradeoffs are reachable in the model and are
not claimed away: a process that dies before it wrote `owner.json` leaves a lock
nobody may recover (project-lock.ts:436-446), and a recoverer that dies between its
claim and its rename blocks the recovery of that one owner (224-227; OrphanClaim in
StaleLockIsRecovered).

Runs
- `lock_core`: three processes of one host and one of another that shares the
  directory, one of which calls twice; two crashes, pid reuse. Exclusion, no theft
  of a live lock, refinement of ProjectMutex, and IInv, the inductive invariant of
  the proofs. With two hosts a pid must not be compared across them.
- `lock_liveness`: three processes, one crash, pid reuse and any one failing
  file-system call: every call ends, and a dead owner's lock is recovered by
  whoever keeps trying on that host.
- `lock_rename_failure` (a violation): see Findings.

Fairness. PatientSpec assumes only that a task's next step is weakly fair (an await
on the file system comes back). What the deadline adds is a premise of the one
property that needs it: in EveryCallReturns, `Deadlines` says that a task which is
again and again at the top of its loop finds its deadline passed there, because the
deadline is a fixed time and each round of the loop takes time. StaleLockIsRecovered
has no such premise: tasks may be as patient as they like.

### MemoryRegister, MemoryStore

A memory is its revision and its lineage, the set of mutations it was computed
from; `MemoryRegister` is a set of mutations that grows one at a time. `MemoryStore`
has the project's and the global file, their mtimes, what each process cached and
under which mtimes, and the calls of each task step by step: stat, stat, cache
lookup, read, read, select, callback, write locally, fall back to the global file,
delete the cache entry, release. stat and read of one file are taken together in
`ReadFile`; the two files may be read in either order. Directories turn read-only
and back, files unreadable and back (without a new mtime, as chmod does), or
corrupt; processes die (another process with an empty cache plays the restarted
one). `floor` is a history variable: what was committed when a call began.
writeMemory() is not modelled, the program never calls it.

FineClock says that each write has an mtime of its own. ReadsAreFresh needs it: a
file-system clock with coarse ticks lets a cache survive a write of another process
within the same tick (listed as a hazard). All theorems but CachesHideNothing hold for
both clocks.

Runs: `store_core` (two mutating processes, read-only directories, one crash;
NoLostUpdate, FailureLeavesNoTrace, RevisionIsMonotonic, RegisterSpec and the inductive
invariant, of which RevisionCountsCommits is a part), `store_reads` (a cached reader and a
mutator in one process, a mutator in another; ReadsAreFresh, EmptyInitOnlyWhenAbsent),
`store_unreadable_local` (a violation).

### Decisions

Rows carry topic, text, time, trust flags, confidence, links. `Reconciled` is the
reader's two-pass resolution (resolveDecisionAuthorities), `MergeClaim` one round of
the loop of mergeDecisions, `CommitMerge` the end of the transaction with the
budget. A merge holds the lock from BeginMerge to CommitMerge, so no human's
transaction comes between; a human's look before the lock (`LookToPromote`,
`LookToSupersede`) and transaction (`Promote`, `Supersede`) are separate steps with
anything committed in between, as in cli.ts.

Abstractions: texts and topics are model values (two texts are equivalent or not);
evidence is a mark on a claim; the budget is the number of rows it may leave
room for (Rooms), and which of the equally old rows it drops is a choice; fresh ids
are given out in increasing order; conflicts_with is not cut at 8. Duplicate ids are
the question of StateDocument. InitialRows are the memories
that earlier releases, imports by hand and the program itself leave behind: rows of
every trust, pairs of conflicting human rows with and without the quarantine marker,
and three rows of one topic of which two or three are humans' (HumanCrowds). Of
them InitialRowsAssumption asks only what schema.ts asks of a file that is read.

Runs: `decisions_core` (every such memory over one or two topics, a
human, batches of any length that the ids allow), `decisions_candidate` (a violation).

Three properties say exactly what the code keeps, which is less than one would
write first; the proofs and runs with more rows showed the difference:
- QuarantineHolds excepts HumansAgree. Two valid human rows of one text are in
  a conflict while a valid row of another text stands beside them
  (resolveDecisionAuthorities compares the texts of all valid rows). When the budget
  drops that row, the humans agree and the conflict is over.
- MergesSettle speaks of validity. With three human rows a merge may commit a
  memory whose re-reading adds marks to rows that are invalid already, or to
  their conflicts_with; no row becomes invalid by being read again.
- HumanActsTakeEffect excepts a topic where another human's row is valid or
  marked: a lone quarantined row beside the promoted one is enough for a conflict.

What a quarantined topic lacks is an exit: no CLI operation resolves the conflict of
two human rows, so QuarantineHolds says that it stays, not that it ends.

### IdlePipeline

Each idle event is a job: `Fetch` (the host answers session.messages), `Prepare` (the
memory is read and the job joins the one in flight for the same source, or the queue),
`Start`, `Heuristic`, `Recheck`, `CreateSession`, `PersistGuard`, `Prompt` (twice at
most), `Accept` or `Refuse`, `Settle`, `PersistHealth`, and `FinalMerge` or `FinalNoop`. A
process works the head of its queue only. The host keeps the transcripts, whose versions
are the sources, and may send an idle event for any session that has had a prompt: also
for an audit session. A guard that leaves more audit rows than the schema takes is refused
(`GuardRefused`). The event handler asks two guards (`KnownAudit`): the retained ids of
the process and the audit rows of the memory. The second reads the memory and fails open:
isPersistedRetainedExtractionSession takes a memory that cannot be read for one without
the row (extract-llm.ts:205-217), and the handler goes on. `GuardUnread` is that event,
and the history variable `unread` has the jobs that began with it. `Crash` empties a
process's queue and forgets its retained ids; the memory stays. `Fitted` is what the
budget may make of a committed memory: pending rows of jobs that are over expire (after 24
hours: at some commit or never, and none that is newer than a running job's, which takes
minutes), and with Pressure completed audits and unprotected completions go. `log` and
`forgotten` are history variables.

Abstractions: which facts a source yields (a commit adds none, but it is fitted to the
bounds); the result cache, which no longer
authorizes anything (writer.ts:553); the cap of 256 retained ids; the in-flight map
of extractFactsLLM, which the queue makes unreachable; a suspended host whose
running extraction outlives 24 hours; "no-messages" events, which do nothing.

Runs: `idle_core` (three events, two users' sessions that may change places, two
processes, a crash, a ledger of one row and audits of two, and up to two events whose
guard row cannot be read; no request or transaction fails), `idle_settles`
(two events, a transcript that grows, pressure, a fault, one unreadable guard row).
NoRecursion says what is left of "extraction does not feed on itself": a job for an
audit session starts only if its guard row is gone or could not be read at that event
(DurablyGuarded), and even then not in the process that works in that session
(LocallyGuarded). Only pruned queue states
and an unbounded crash count are beyond these bounds; a third extraction and a full
ledger are within them.

Fairness. `FairSpec` makes each job's next step weakly fair: session requests and
prompts are bounded by withTimeout (LLM_REQUEST_TIMEOUT_MS), transactions by the
lock's deadline. session.messages has no timeout in this program: that it answers
is an assumption about the host. `CoolDown` is not fair.

### MemoryDocument, Migration, Budget, StateDocument

`MemoryDocument` has the fields of a STATE.json, `Size` for what its serialization
grows with, and `Legal` for what the schema accepts. `Migration` is loadAndMigrate: a
document of version 1 or 2 becomes one of version 3, and a document of version 3 is
repaired (RepairUnverified, RepairDuplicates, RepairClaims, RepairState,
RepairOversized) and validated. `Budget` is fitMemoryToBudget, one operator per
stage: the stages up to 8 are run by every commit, some of them whatever the size;
Pressed is stages 9 and 10, Minimal stage 11, which tells the two refusals apart.

`StateDocument` begins with documents as earlier releases, imports and this release
leave them, and then transacts: Observe (heuristics), Learn (an LLM's facts with
their completion), PersistAuditGuard, PersistTerminal, PersistModelHealth,
RecallPromote, and Show and Confirm of the command line, between which other
transactions may commit. Each reads through Load; FitToBudget judges the result, and
Commit writes what the budget made of it, or Refuse nothing.

Abstractions: a text is its length, and a field adds a fixed cost to the size; the key of
a row stands for the decision it is about, which the program does not see and which tells
rows of one id apart; an id is a name that digests and numbers may follow (`Id`), and
digests are taken to be without collisions (DerivedId); the ids of a first document are
plain names (FromBefore), whose references were made when the oldest row of an id was its
only one (MeansOldest), and its sources were not completed in turns to come (DoneBefore):
these say what a key means, not what a file must look like; rows are filtered by `Within`,
which keeps the places whose entry is in a set, and a sum is the number of the bytes, each
with its place (`Total`), which is what the provers can count; formats of dates and
strings are left out except that a time may be missing; a topic has one row here, topics
are the question of Decisions.

What the model keeps although it may surprise: foundational rows of version 2 lose their
provenance but stay foundational, hence protected; stage 1 sheds completed audits although
the transaction protects them; the reason for a refusal is computed from the candidate
before its texts were shortened, so it may say that foundational state is too large when
shortened texts would have fitted; with as many pending guards as there may be audits the
completed ones stay beside them (MostRecent, slice(-0)), and the commit's validation
refuses the guard; stage 9 sorts the recalled rows by last_used_in_session, a session id
that it compares as a string, where its comments speak of least recently used and newest
first (budget.ts:453, :472): nothing orders ids by time, so `MoreUsed` is an order of ids,
and ShedInOrder claims no more than that; the pending guards of extractions that died
count in full for a day and can refuse every commit meanwhile. pruneOld and
pruneOldForCommit (writer.ts) and the row flag `pruned` are not used by any caller and not
modelled.

Run: `state_document` (fourteen documents, two sessions, three transactions, a clock that
passes the horizons of rows and audits; MaxBytes is such that a full document is over it
and an empty one is not).

### CompactionHooks

A hook call is `Receive` (it draws its number and notes the time before it awaits
anything), `PreparePrompt` or `PrepareResult` (what it awaited is there and the
artifact is built; the calls of one process pass this point in any order), then in
the queue of its process and artifact `Consider`, for the first publication of a
process `Look` (readDiagnosticArtifact, of which either file may be unreadable), and
the write with its fallback to the global directory. `Crash` starts a process with
number, order and queue anew, while the files stay. The clock advances whenever a
time is taken, so no two times are equal. `published` records every write, with what
had been written when the hook looked.

After its first publication a process goes by its own numbers and no longer looks at
the files; an older observation of one process may then replace a newer one of
another. index.ts:100-101 calls the look "best-effort cross-process protection", and
FirstDefers claims that much and no more. Nor does the look tell an old observation that
was written late from a new one: the first publication gives way to any file whose mtime
is later than its own observation, however old that file's observation is. What the code
does promise is that it does not suppress "normal sequential updates" (index.ts:79-86):
NotSuppressed says that a dropped observation has a newer one of its own process that was
tried or gave way, or gave way itself, when none older of its process had been tried, to
a file of another process or life. A process's own writes never suppress its newest observation.

Abstractions: what the host is handed (replacement, augmentation or anchor) and the
artifacts' text, of which the times remain that hooks compare; warnings; the two
files are read at one moment; the HEADER.md placeholder of the plugin's start.

Run: `compaction_hooks` (three hook calls of either kind in two processes, and one
failure or death). Fairness: each hook's next step, as in IdlePipeline.

## The properties

| Module | Property | Says |
|---|---|---|
| ProjectLock | TypeOK, MutualExclusion | one operation at a time |
| | NeverStealLive, IInv | recovery moves only the dead owner's directory it classified, and leaves nothing in a live one; a holder's lock is its own |
| | MutexSpec | the protocol implements ProjectMutex |
| | EveryCallReturns, StaleLockIsRecovered | liveness |
| MemoryStore | TypeOK, IInv, NoLostUpdate, FailureLeavesNoTrace | exactly the mutations reported committed are in the memory |
| | RevisionIsMonotonic, RegisterSpec | one memory, over two files and all processes |
| | ReadsAreFresh, EmptyInitOnlyWhenAbsent | caches and read errors never hide what is there |
| Decisions | HumanDecisionsStand, QuarantineHolds | automation and budget have no veto over humans |
| | OnlyReviewedIsTrusted, HumanActsTakeEffect | what a human saw is what is trusted, and takes effect |
| | OneVoice, RowsReadable, MergesSettle, TopicsStaySettled | each topic has one authority; a merge persists which rows reading finds valid |
| IdlePipeline | MergedOnce, LedgerRemembers | a source is merged once, until the bounds forget it |
| | NoRecursion, PendingGuardsStay | extraction does not feed on its own sessions, unless a guard row is gone or unreadable |
| | OutcomesAreTrue, QueueHoldsJobs, EveryIdleSettles | jobs are not lost, overtaken, hung or misreported |
| StateDocument | Settled | what a commit writes is read unchanged, and fitting it again changes nothing |
| | OnlyConfirmedIsTrusted, LineageHolds | whatever rows shared an id: a human's trust and a reference belong to the decision they were meant for |
| | FitsAsAssumed, ShedInOrder | what a budgeted commit keeps, and in which order the rest gives way (recalled rows by session id, not by recency) |
| | RefusesOnlyIrreducible | a transaction is refused only when what must stay does not fit, or too many guards run |
| CompactionHooks | PublishedInOrder, NotSuppressed | of one process's observations the newest stays, and none is dropped but for a newer one of it, or by the first look, for a file of another |
| | FirstDefers | a new process does not replace a newer artifact |
| | EveryHookReturns | a failed publication does not hold up the next |

Each property of a passing run has a mutant: a definition of the model changed as a
plausible bug of the code would ("A bug:" in the modules), under which TLC finds the
property violated.

## Bounds

Every bound is a constant named Max..., a queue length or a small set. Two or
three actors suffice for the races at hand: the worst known schedules of the lock
need an owner, a recoverer and a late recoverer (three tasks; a fourth on
another host where pids must not be compared); lost updates need two mutators; a
stale cache needs a reader and two writers; human review needs one human, since
transactions do not overlap; the pipeline's races need two jobs on one source and a
third event; the order of artifacts needs two hooks of one process and one of another;
a document needs one transaction to be repaired, one to be changed before a human's
confirmation, and the confirmation (MaxTurns 3). In StateDocument every count (`Cap`)
is 1 to 4 and every entry costs 1 byte (`Cost`), so that 7 bytes (`MaxBytes`) force
each stage in some behaviour; Horizon and AuditTimeout are one tick of a clock that
ticks once (`MaxClock`) beyond its start, and initial rows may be older or of no
known time. MaxCalls of the lock is given for each task.
In `idle_core` and `idle_settles`, MaxUnread bounds the events that meet an unreadable
guard. `lock_core` has no failing call: that a failing publisher leaves exclusion intact
rests on the theorem LockExcludes and, for its ending, on `lock_liveness`; the
pipeline's failing jobs are in `idle_settles` and in the theorems.
Bounds on calls, nonces, crashes and faults are large enough for each
of them to happen after the other at least once; the proofs do not depend on them.
In Decisions three ids are enough for a topic with three rows but not for every
conflict of agreeing humans that the budget ends (HumansAgree): that exception is
covered by the theorem ConflictsHold, and by runs with more rows than are kept here.

CHECK_DEADLOCK is off for Decisions, IdlePipeline, StateDocument and CompactionHooks only:
a bounded number of rows, events, transactions or hooks comes to an end. Lock and store
runs keep it, with an action for the state in which all bounded calls have been made.

## What is proved

For all constants that satisfy the modules' assumptions, with the provers of TLAPS:

Each module's proofs have one lemma per action (what it does to the state, or that
it keeps the invariant), one theorem that an inductive invariant holds (Invariance,
StoreInvariance, Inductive), and the properties from it. No proof bounds what the
runs bound: sets of tasks, rows, hooks and jobs, clocks, queues and faults are
arbitrary.

`ProjectLock_proofs`: TypeCorrect; Invariance (`FaultKinds` without "quarantine"
=> []IInv); LockExcludes, QuarantineExcludes (QuarantineIsExclusive, which no
run checks by itself), LockNotStolen and ImplementsMutex from it. MutualExclusion
alone is not inductive. IInv adds why it holds: nonces that are published, claimed or
being recovered are spent and never published again; without an owner there is one
publisher; at most one task is between claim and unclaim on the current owner; a
recoverer past its revalidation still looks at the owner it read, who is dead and
stays dead; a holder's nonce is in the directory. The assumption on FaultKinds is
necessary, as `lock_rename_failure` shows.

`MemoryStore_proofs`: StoreTypeCorrect; StoreInvariance (with files that stay
readable and intact, directories may still refuse writes); CommitsAreKept,
FailuresAreClean, RevisionCounts (RevisionCountsCommits), RevisionMonotonic and
ImplementsRegister from it. The invariant says who is inside the lock, that a
transaction's base is the authoritative memory until it writes, and for each call
whether its mutation is in the memory and what was reported of it.

Its second part is about what calls find, with faults of the files.
StartsOnlyWhereAbsent (EmptyInitOnlyWhenAbsent) follows from what a transaction has
read (FoundAbsent): absence ends only with a write, and nobody else writes. It assumes
that corrupt files and read-only directories do not occur together: in a directory that
cannot be written readFileResult cannot back a damaged file up, and goes on without it;
the write then goes to the global file, or over the damaged one if the directory has
become writable (TLC finds such a behaviour). CachesHideNothing (ReadsAreFresh) holds
for readers outside the lock, whose two stats and two reads may each be overtaken by
transactions. Its invariant (FreshnessInductive) follows a reader from step to step:
mtimes are of the past, so a new one differs from all that were found (Past); what was
found in a file with its present mtime is what it holds (ReadsTrue), hence a cache entry
whose mtimes are both present is the authoritative selection (CachesTrue); transactions
replace nothing newer than they read (TransactionsTrue), so what was committed when a
call began is still there (FloorsHold), in one of the files or already found
(ReadersTrue). The delicate point is a reader between its two stats (HitsTrue): the
local file may be replaced then, and its process may cache a selection of before that;
what it matches is out of date but not older than its call. CachesHideNothing assumes
FineClock, and that read-only directories (which bring the global file into play) and
unreadable files do not occur together: otherwise a transaction may replace a newer
memory by an older one, as `store_unreadable_local` shows.

`Decisions_proofs`: every property of `decisions_core`, for any memories that the
schema accepts, any number of rows, topics and humans, and any room in the budget.
First what the two passes of the reader do, without steps: they keep rows sound and
their words (FirstPass, Read), leave at most one valid row of a topic and none in a
conflict (ReadOne), and what they return they leave as it is (ReadCalm, CalmRead:
a topic is Calm if it has one valid row at most, and none while two humans' rows bear
marks of a conflict). Then what dropping rows does: a topic that keeps its human rows
keeps its human authority (ShrunkAuthority) and its conflict (ShrunkConflict). The
properties are about one transaction, but a merge takes many steps, and between them
the rows are one thing and the draft another. So IInv ties them: the draft has the
rows' words and trust, no row of its own is a human's, each human's authority is
valid in it, each topic is Calm in it, its conflicts contain those of the rows, and a
topic with an authority keeps one (DraftShape); and what a human was shown are the
words of the row by that id, if it is still there (ShownShape, which needs that ids are
not given out twice, IdsIssued). MergeGrows is the heart of it: no claim, of either
extraction and met by whatever authority, disturbs what DraftShape says. The proof also
found two CASE expressions with overlapping arms, whose value TLA+ leaves open;
AfterValidPass and AfterDurablePass now say which arm comes first, as the code does.

`IdlePipeline_proofs`: TypeCorrect, every safety property of the pipeline, with and
without pressure of the budget, whatever crashes and however often the guard cannot be
read. OutcomesAreTrue, NoRecursion and MergedOnce need what a job knows at each point of
its way (JobShape: its source, its own audit session, which no other job has), that the
guard of a running extraction is pending or was displaced (GuardShape), that the ledger is
made of merged sources, all but those it dropped, and without pressure is the tail of the
log (LedgerShape), that a process retains the session in which it works (Retaining, for
the part of NoRecursion that holds without the memory), that an event is answered once and
a merge's job with success (OutcomeShape), and the shape of the queues (QueueShape: each
job once, only the head works, which makes extraction exclusive in a process).
LedgerRemembers and PendingGuardsStay rest on how the bounded lists are cut: the ledger
keeps its last sources (Lasts), and the audits their newest rows, pending ones first.

`CompactionHooks_proofs`: TypeCorrect, PublishedInOrder, FirstDefers and
NotSuppressed, for any number of processes, calls, failures and deaths. The
invariant adds the shape of the queues (QueueShape), that no two calls of one run of
a process share a number (CallShape), that `last` bounds what was published (LastShape)
and what was tried or dropped, and is the number of a call that was tried or gave way
(DropShape, from which NotSuppressed follows: what is dropped in order has that call
ahead of it, and the first look can only have met a file of another process or life,
since nothing of this one is published while `last` is 0), that the files are as new as the
newest publication (DiskShape), and that what a hook about to write saw when it
looked is older than what it has (LooksBack), which is why a new process does not
replace a newer artifact.

`StateDocument_proofs`: TrustHolds (OnlyConfirmedIsTrusted), LineageIsKept (LineageHolds)
and RowsAreLeft, for documents of any length, any ids, sessions and texts, any number of
transactions and any room in the budget. Three results come before any step.
FittedReduces: whatever the stages do, what is left are rows of before, all protected ones
among them, and the others are valid and recent (each stage is proved to do so, on top of
what Within, FirstOf and Sorted keep). LegalIsRead: a document that the schema accepts is
read with the rows it has, since no repair finds anything to do. OldIsGood: the repairs of
a document from before give each row an id of its own, take the reviews back that might
have meant several rows, and lead each reference to the row it meant. The two properties
are about what is read; they are kept by a document that is Good: its claims were
confirmed (Trusts), the id that a human was shown leads to what was shown (ShowsRight), no
id or key in it is yet to be issued (Issued), and its references are right (Linked). IInv
says this of what is read and of what the open transaction is about to write, and that the
verdict on that is what the budget makes of it. ShowsRight and Issued are why the
properties hold: between the display and the confirmation other transactions commit, and
none of them may give the displayed id to another row.

`StateBudget_proofs`: FitsAsAssumedHolds (FitsAsAssumed). First, without steps, what the
stages make of a document's size: a list that is drawn from another, or has shorter texts,
weighs no more (DrawnWeighsLess, OutweighedIsLess, over the bytes that Total counts), each
loop stops at the most entries that fit (NewestCut, FirstCut), and so no stage makes a
document larger (TidiedLightens, PressedLightens). What is left then depends on the
document that a transaction hands to the budget: its own completion must be the last of
the ledger, or stage 4, which moves it there, would not leave the newest. BInv says so,
and that the document is Ready: unique ids, no claim or reference that a repair would take
back, authors and cache entries of this release, counts within the caps that the stages do
not cut. What is read is Ready (ReadIsReady, through every repair), and every transaction
keeps it so.

`StateCommit_proofs`: RefusesOnlyIrreducibleHolds (RefusesOnlyIrreducible),
ShedInOrderHolds (ShedInOrder) and SettledHolds (Settled), with the invariant above. The
first property compares the document after all stages with the part of it that no stage may
touch, so each stage is named (Audited ... Unstepped) and asked two things. If the document
is still too large after it, the stage has emptied what it sheds (the lemmas ...Ends, then
TidiedBare, PressedBare, FittedBare). And what must stay comes through it, at most with
shortened texts (TidiedRows, FittedRows). From the second, the size of what must stay is at
most that of every result; from the first, it is that of a result that is too large
(CoreFits, IrreducibleIs). Hence a refusal for size is one of an irreducible document. For a
refusal by the schema: what fits is legal in everything but the number of audits
(FitsIsLegal, from Ready), and that number is given by the pending guards and the newest
completed one (WaitingIs, AuditsBound).

ShedInOrder reads the same stages backwards. A class that lost something tells which stage
found the document too large (StagesLost, from CacheLost, BooksLost, FilesLost,
CurrentLost and TextsLost); then every earlier one had left it too large as well (OverAll)
and so had emptied its class (StagesEmpty, EmptyTo). Within a class, the stage cuts the
end of a sorted list, and the sort puts what matters least by its order last (NewestOrder,
OldestOrder, UsedOrder; then FilesGoInOrder and RowsGoInOrder). DetailAssumption, that the
code cuts a text to more than nothing (500 or 512 units), is needed: a task whose text
were emptied by the stage that only shortens would be lost though blockers and steps are
still there.

Settled is that fitting is idempotent and that reading has nothing to repair in what was
fitted. A document is AtRest if no stage has anything to do in it (NothingGoes, one lemma
for each stage); the result of the stages is so (FittedRests: no guard is too old,
completed audits and other sources come first, each row deserves to stay, the files are
sorted, the texts brief), hence FittedTwice. Of the repairs, each finds nothing in a legal
document whose cache is of this contract (ReadAgain), which Ready says of what is fitted.

Only model-checked: the four liveness properties EveryCallReturns, StaleLockIsRecovered,
EveryIdleSettles and EveryHookReturns (no fairness reasoning or ENABLED in the provers used
here). Every other property of a passing run is a theorem.

## Findings

- `lock_rename_failure`: after a rename of a stale directory that failed, the
  claim is removed a second time without checking whose it is
  (project-lock.ts:632), so a second recoverer's claim may go and two operations
  run at once.
- `store_unreadable_local`: a transaction bases itself on an older readable global
  file when the project's own file is unreadable, and replaces the newer
  one (store.ts:157).
- `decisions_candidate`: the candidate that merge.ts:415 keeps "available to the human
  CLI" is removed by stage 5 of the budget in the same transaction (budget.ts:317).

Not runs, but recorded as hazards: the trail of a supersession is protected by its own
transaction only; transcripts are fetched before the queue, so an older one may be merged
last; which recalled rows survive pressure depends on the order of session ids and not on
the recall's time, as budget.ts:453 and :472 and docs/CRIP/PR-8/implementation-plan.md:253
have it; a supersession of one of two raw valid human rows leaves a conflict; with 20
pending guards and any completed audit, boundedAuditMetadata keeps more than 20 rows
(writer.ts:1104 says slice(-limit) where limit is 0, which is the whole list; the comment
at 1084 says the completed ones get "whatever capacity remains"), so the guard's commit is
refused by the schema: RefusesOnlyIrreducible and GuardRefused of IdlePipeline say when.

Of the model's assumptions about the budget, FitsAsAssumed confirms those of
Decisions and IdlePipeline for rows, completions and running guards.

## Plan

Built: 1. ProjectLock and ProjectMutex with proofs. 2. MemoryStore and MemoryRegister with
proofs, also of what is read. 3. Decisions with proofs. 4. IdlePipeline with proofs. 5.
CompactionHooks with proofs. 6. MemoryDocument, Migration, Budget, StateDocument with
proofs, also of the budget.

Left: CommitPulse (marker, poll and animation of the TUI) and the installer's steps
with their roll-back.

## Not modelled

- Commit pulse and TUI: telemetry. The marker is written after a commit, its
  failures are swallowed, and only an animation reads it; nothing of the memory
  depends on it (the hazard of a late answer is listed).
- Installer and release scripts: shell steps of an installation and offline checks,
  apart from the running program.
- Text assembly, extraction schemas and prompts, compaction history and durable text:
  pure data without state of their own; of their results the models use choices.
- Tools and CLI displays: they print what the reader returns.
- Host adapters and provider inventory: normalization of foreign responses, a choice
  in IdlePipeline.
- Configuration, git and log helpers: constants and best effort.
