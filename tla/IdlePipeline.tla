---------------------------- MODULE IdlePipeline ----------------------------
(***************************************************************************)
(* What a session.idle event sets off (src/src/index.ts): the preparation  *)
(* of the session's transcript and the per-process queue of jobs           *)
(* (memory/writer.ts, memory/lock.ts), and each job's heuristic            *)
(* transaction, gated model extraction in a retained audit session         *)
(* (memory/extract-llm.ts) and final merge.                                *)
(*                                                                         *)
(* Every transaction is one mutateMemory call, which commits at one point  *)
(* or leaves no trace (module MemoryStore): one step here.  Everything a   *)
(* process awaits in between lets other jobs, other processes and the      *)
(* environment step.  A source is one version of a session's transcript.   *)
(***************************************************************************)
EXTENDS Naturals, Sequences, FiniteSets, Functions

CONSTANTS
    Session,     \* sessions of users
    Process,     \* opencode processes that load the plugin for one project
    Events,      \* bound: session.idle events handled
    MaxVersion,  \* bound: versions of one transcript
    MaxAudits,   \* bound: audit sessions
    AuditCap,    \* rows of llm_extraction_audits (20)
    LedgerCap,   \* rows of processed_sources (10)
    Pressure,    \* may a memory exceed its byte budget?
    MaxCrashes,  \* bound: processes that die (and start again)
    MaxFaults,   \* bound: reads, requests and transactions of jobs that fail
    MaxUnread    \* bound: reads of the guard that fail and miss a row

Job == 1 .. Events
AuditId == 1 .. MaxAudits
Version == 1 .. MaxVersion
Source == (Session \cup AuditId) \X Version
NoSource == <<0, 0>>

ASSUME PipelineAssumption ==
    /\ Events \in Nat /\ MaxVersion \in Nat \ {0} /\ MaxAudits \in Nat
    /\ AuditCap \in Nat \ {0} /\ LedgerCap \in Nat \ {0}
    /\ MaxCrashes \in Nat /\ MaxFaults \in Nat /\ MaxUnread \in Nat
    /\ Pressure \in BOOLEAN
    /\ Session \cap Nat = {}

VARIABLES
    transcript, \* each session's version at the host
    prompted,   \* audit sessions the host has been sent a prompt in
    created,    \* audit sessions the host has created
    memory,     \* ledger: processed_sources, oldest first; audits: the guard
                \*   rows; model: "ready" or "cooling"
    retained,   \* each process's retainedExtractionSessionIDs
    queue,      \* each process's jobs: the active one, then those behind it
    pc, proc, session, source, audit, attempt, verdict,  \* each event's job
    outcome,    \* what writeMemoryOnIdle returned for each event
    log,        \* every final merge so far: the source and the job
    forgotten,  \* guard rows ever dropped, completions dropped since
    crashes, faults,
    unread      \* history: events whose guard row was there, but not readable

hostVars == <<transcript, prompted, created>>
jobVars  == <<proc, session, source, audit, attempt, verdict>>
history  == <<log, forgotten>>
bounds   == <<crashes, faults, unread>>
vars == <<hostVars, memory, retained, queue, pc, jobVars, outcome, history,
          bounds>>

Waiting == {"fetch", "prepare", "joined", "queued"}
Active == {"heuristic", "recheck", "create", "guard", "prompt",
           "answer", "settle", "health", "merge"}
Over == {"done", "dead"}
Outcome == {"none", "error", "write-failed", "queue-failed", "heuristic-only",
            "llm-failed", "cache-hit", "llm-success"}

-----------------------------------------------------------------------------
(* The bounded collections of a memory                                     *)

Newest(S, n) == {a \in S : Cardinality({b \in S : b > a}) < n}

Pending(audits) == {a \in DOMAIN audits : audits[a].state = "pending"}
Completed(audits) == DOMAIN audits \ Pending(audits)

\* boundedAuditMetadata: pending rows first, then the newest completed ones. When
\* no room is left for these all of them stay: slice(-0) is the whole list.
BoundedAudits(audits) ==
    LET active == Newest(Pending(audits), AuditCap)
        room == AuditCap - Cardinality(active)
    IN  Restrict(audits, active \cup
            IF room = 0 THEN Completed(audits) ELSE Newest(Completed(audits), room))

LastOf(s, n) == SubSeq(s, IF Len(s) > n THEN Len(s) - n + 1 ELSE 1, Len(s))

\* A bug: the new completion is dropped where the oldest should be.
BoundedLedgerOldest(ledger) == SubSeq(ledger, 1, LedgerCap)

BoundedLedger(ledger) == LastOf(ledger, LedgerCap)

\* Rows left pending by jobs that are over: after 24 hours they count as failed.
\* An extraction takes minutes, so none that is newer than a running one's does.
Abandoned(audits) ==
    {a \in Pending(audits) : \A j \in Job : audit[j] = 0 \/ audit[j] > a}

Expired(audits) ==
    [a \in DOMAIN audits |->
        IF a \in Abandoned(audits) THEN [audits[a] EXCEPT !.state = "failed"]
        ELSE audits[a]]

\* A bug: the oldest audits go, whatever their state.
ShedOldest(audits) == {Restrict(audits, Newest(DOMAIN audits, n)) :
                          n \in 0 .. MaxAudits}

\* Under pressure completed audits go, in the order of the file.
Shed(audits) == {Restrict(audits, Pending(audits) \cup kept) :
                    kept \in SUBSET Completed(audits)}

\* What the budget may make of a memory. Under pressure the oldest ledger rows
\* go too, but for the kept ones that the transaction has just added, and so
\* does what is known of the model's health.
Fitted(m, kept) ==
    LET aged == {m.audits, Expired(m.audits)}
        audits == IF Pressure THEN UNION {Shed(a) : a \in aged} ELSE aged
        least == IF Pressure THEN kept ELSE Len(m.ledger)
        health == IF Pressure THEN {m.model, "ready"} ELSE {m.model}
    IN  {[ledger |-> LastOf(m.ledger, n), audits |-> a, model |-> h] :
            a \in audits, n \in least .. Len(m.ledger), h \in health}

\* What is handed to the commit. Only a new guard row can exceed the bound.
Candidates(m, kept) == Fitted([m EXCEPT !.audits = BoundedAudits(@)], kept)

\* The schema refuses more audits than the bound.
TooMany(m) == Cardinality(DOMAIN m.audits) > AuditCap

\* A committed transaction that makes m of the memory.
Commit(m, kept) ==
    /\ memory' \in Candidates(m, kept) /\ ~TooMany(memory')
    /\ forgotten' =
          [audits |-> forgotten.audits
                         \cup (DOMAIN m.audits \ DOMAIN memory'.audits),
           sources |-> (forgotten.sources \cup Range(memory.ledger))
                          \ Range(memory'.ledger)]

-----------------------------------------------------------------------------
Init ==
    /\ transcript = [s \in Session |-> 1]
    /\ prompted = {}
    /\ created = 0
    /\ memory = [ledger |-> <<>>, audits |-> << >>, model |-> "ready"]
    /\ retained = [p \in Process |-> {}]
    /\ queue = [p \in Process |-> <<>>]
    /\ pc = [j \in Job |-> "idle"]
    /\ proc = [j \in Job |-> 0]
    /\ session = [j \in Job |-> 0]
    /\ source = [j \in Job |-> NoSource]
    /\ audit = [j \in Job |-> 0]
    /\ attempt = [j \in Job |-> 0]
    /\ verdict = [j \in Job |-> "none"]
    /\ outcome = [j \in Job |-> "none"]
    /\ log = <<>>
    /\ forgotten = [audits |-> {}, sources |-> {}]
    /\ crashes = 0
    /\ faults = 0
    /\ unread = {}

Goto(j, from, to) ==
    /\ pc[j] = from
    /\ pc' = [pc EXCEPT ![j] = to]
    /\ UNCHANGED <<queue, outcome>>

Return(j, o) ==
    /\ pc' = [pc EXCEPT ![j] = "done"]
    /\ outcome' = [outcome EXCEPT ![j] = o]
    /\ UNCHANGED queue

Joined(i, j) ==
    pc[i] = "joined" /\ proc[i] = proc[j] /\ source[i] = source[j]

\* A bug: the events that share the promise are not answered.
FinishAlone(j, o) ==
    /\ pc' = [pc EXCEPT ![j] = "done"]
    /\ outcome' = [outcome EXCEPT ![j] = o]
    /\ queue' = [queue EXCEPT ![proc[j]] = Tail(@)]

\* The active job is over: so are the events that share its promise, and the
\* next job of the queue may start.
Finish(j, o) ==
    LET settled == {i \in Job : i = j \/ Joined(i, j)}
    IN  /\ pc' = [i \in Job |-> IF i \in settled THEN "done" ELSE pc[i]]
        /\ outcome' = [i \in Job |-> IF i \in settled THEN o ELSE outcome[i]]
        /\ queue' = [queue EXCEPT ![proc[j]] = Tail(@)]

Fault ==
    /\ faults < MaxFaults
    /\ faults' = faults + 1
    /\ UNCHANGED <<crashes, unread>>

Sound == UNCHANGED bounds

-----------------------------------------------------------------------------
(* The event and its preparation, before the queue                         *)

\* A bug: only the process-local guard is asked.
KnownAuditLocally(p, s) == s \in retained[p]

\* The audit sessions that the event handler knows and ignores.
KnownAudit(p, s) == s \in retained[p] \cup DOMAIN memory.audits

\* The memory cannot be read: the guard that asks it fails open, and the event
\* of an audit session is handled unless this very process retains the session.
\* (Where there is no row to miss, a read that fails is as good as any.)
GuardUnread(j, p, s) ==
    /\ s \in DOMAIN memory.audits \ retained[p]
    /\ Cardinality(unread) < MaxUnread
    /\ unread' = unread \cup {j}
    /\ UNCHANGED <<crashes, faults>>

IdleEvent(j, p, s) ==
    /\ pc[j] = "idle"
    /\ \A i \in 1 .. (j - 1) : pc[i] # "idle"
    /\ \/ ~KnownAudit(p, s) /\ Sound
       \/ GuardUnread(j, p, s)
    /\ pc' = [pc EXCEPT ![j] = "fetch"]
    /\ proc' = [proc EXCEPT ![j] = p]
    /\ session' = [session EXCEPT ![j] = s]
    /\ UNCHANGED <<hostVars, memory, retained, queue, source, audit, attempt,
                   verdict, outcome, history>>

\* The host answers session.messages.
Fetch(j) ==
    /\ Goto(j, "fetch", "prepare")
    /\ source' = [source EXCEPT ![j] = <<session[j],
                     IF session[j] \in Session THEN transcript[session[j]] ELSE 1>>]
    /\ UNCHANGED <<hostVars, memory, retained, proc, session, audit, attempt,
                   verdict, history>> /\ Sound

FetchFails(j) ==
    /\ pc[j] = "fetch"
    /\ Return(j, "error")
    /\ Fault
    /\ UNCHANGED <<hostVars, memory, retained, jobVars, history>>

InFlight(p, v) == \E n \in DOMAIN queue[p] : source[queue[p][n]] = v

\* The answer arrives, the memory is read for the prompt, and the job joins
\* the one in flight for the same source or the end of the queue.
Prepare(j) ==
    /\ pc[j] = "prepare"
    /\ IF InFlight(proc[j], source[j])
       THEN Goto(j, "prepare", "joined")
       ELSE /\ pc' = [pc EXCEPT ![j] = "queued"]
            /\ queue' = [queue EXCEPT ![proc[j]] = Append(@, j)]
            /\ UNCHANGED outcome
    /\ UNCHANGED <<hostVars, memory, retained, jobVars, history>> /\ Sound

PrepareFails(j) ==
    /\ pc[j] = "prepare"
    /\ Return(j, "write-failed")
    /\ Fault
    /\ UNCHANGED <<hostVars, memory, retained, jobVars, history>>

-----------------------------------------------------------------------------
(* The job                                                                 *)

\* What a job that is over leaves behind is forgotten.
Unchanged ==
    /\ UNCHANGED <<hostVars, retained, proc, session, source>>
    /\ audit' = [j \in Job |-> IF pc'[j] \in Over THEN 0 ELSE audit[j]]
    /\ attempt' = [j \in Job |-> IF pc'[j] \in Over THEN 0 ELSE attempt[j]]
    /\ verdict' = [j \in Job |-> IF pc'[j] \in Over THEN "none" ELSE verdict[j]]

IsProcessed(v) == v \in Range(memory.ledger)

\* A bug: the job does not wait for its turn.
StartAtOnce(j) ==
    /\ pc[j] = "queued"
    /\ IF IsProcessed(source[j]) THEN Finish(j, "cache-hit")
       ELSE Goto(j, "queued", "heuristic")
    /\ UNCHANGED <<memory, history>> /\ Unchanged /\ Sound

\* Its turn: the memory is read, and a completed source is done.
Start(j) ==
    /\ pc[j] = "queued"
    /\ Head(queue[proc[j]]) = j
    /\ IF IsProcessed(source[j]) THEN Finish(j, "cache-hit")
       ELSE Goto(j, "queued", "heuristic")
    /\ UNCHANGED <<memory, history>> /\ Unchanged /\ Sound

\* The heuristic facts are committed: none of them is in the model, but the
\* commit fits the memory to its bounds.
Heuristic(j) ==
    /\ Goto(j, "heuristic", "recheck")
    /\ Commit(memory, 0)
    /\ UNCHANGED log /\ Unchanged /\ Sound

CoolingDown == memory.model = "cooling"

\* The model that is configured or discovered; a cooling one only on demand.
Available(bypass) == bypass \/ ~CoolingDown

HasFailedAudit(v) ==
    \E a \in DOMAIN memory.audits :
        memory.audits[a].source = v /\ memory.audits[a].state # "success"

\* The model gate: a source that has an audit without success bypasses the
\* cooldown.
MayExtract(v) == Available(HasFailedAudit(v))

\* The memory is read again; no model at all is always possible.
Recheck(j) ==
    /\ pc[j] = "recheck"
    /\ \/ IsProcessed(source[j]) /\ Finish(j, "cache-hit")
       \/ ~IsProcessed(source[j]) /\ Finish(j, "heuristic-only")
       \/ /\ ~IsProcessed(source[j]) /\ MayExtract(source[j])
          /\ Goto(j, "recheck", "create")
    /\ UNCHANGED <<memory, history>> /\ Unchanged /\ Sound

\* The audit session is created and retained before anything is awaited.
CreateSession(j) ==
    /\ created < MaxAudits
    /\ Goto(j, "create", "guard")
    /\ created' = created + 1
    /\ audit' = [audit EXCEPT ![j] = created + 1]
    /\ attempt' = [attempt EXCEPT ![j] = 0]
    /\ retained' = [retained EXCEPT ![proc[j]] = @ \cup {created + 1}]
    /\ UNCHANGED <<transcript, prompted, memory, proc, session, source, verdict,
                   history>> /\ Sound

CreateFails(j) ==
    /\ pc[j] = "create"
    /\ faults < MaxFaults \/ created = MaxAudits
    /\ faults' = IF created = MaxAudits THEN faults ELSE faults + 1
    /\ Finish(j, "llm-failed")
    /\ UNCHANGED <<memory, history, crashes, unread>> /\ Unchanged

WithPending(audits, j) ==
    [a \in DOMAIN audits \cup {audit[j]} |->
        IF a = audit[j] THEN [source |-> source[j], state |-> "pending"]
        ELSE audits[a]]

WithGuard(j) == [memory EXCEPT !.audits = WithPending(@, j)]

PersistGuard(j) ==
    /\ Goto(j, "guard", "prompt")
    /\ Commit(WithGuard(j), 0)
    /\ UNCHANGED log /\ Unchanged /\ Sound

\* The completed rows that stay leave no room for the guard's.
GuardRefused(j) ==
    /\ pc[j] = "guard"
    /\ \E m \in Candidates(WithGuard(j), 0) : TooMany(m)
    /\ Sound

\* The host is sent a prompt in the audit session, whatever it answers.
RequestOutput(j) == prompted' = prompted \cup {audit[j]}

\* One prompt, of the at most two that share the session.
Prompt(j) ==
    /\ Goto(j, "prompt", "answer")
    /\ RequestOutput(j)
    /\ attempt' = [attempt EXCEPT ![j] = @ + 1]
    /\ UNCHANGED <<transcript, created, memory, retained, proc, session, source,
                   audit, verdict, history>> /\ Sound

\* Valid decisions, whose evidence the transcript corroborates.
Accept(j) ==
    /\ Goto(j, "answer", "settle")
    /\ verdict' = [verdict EXCEPT ![j] = "success"]
    /\ UNCHANGED <<hostVars, memory, retained, proc, session, source, audit,
                   attempt, history>> /\ Sound

\* An error, a timeout after two minutes, or an answer that is refused.
Refuse(j) ==
    /\ Goto(j, "answer", IF attempt[j] < 2 THEN "prompt" ELSE "settle")
    /\ verdict' = [verdict EXCEPT ![j] = "failed"]
    /\ UNCHANGED <<hostVars, memory, retained, proc, session, source, audit,
                   attempt, history>> /\ Sound

\* persistTerminalTransaction: a no-op once the row is gone.
Settle(j) ==
    /\ Goto(j, "settle", "health")
    /\ IF audit[j] \in DOMAIN memory.audits
       THEN Commit([memory EXCEPT !.audits[audit[j]].state = verdict[j]], 0)
       ELSE UNCHANGED <<memory, forgotten>>
    /\ UNCHANGED log /\ Unchanged /\ Sound

\* A bug: an extraction that failed is taken for a completed one.
ReportedAsHit(j) ==
    IF verdict[j] = "success" THEN Goto(j, "health", "merge")
    ELSE pc[j] = "health" /\ Finish(j, "cache-hit")

\* What follows the health report.
Reported(j) ==
    IF verdict[j] = "success" THEN Goto(j, "health", "merge")
    ELSE pc[j] = "health" /\ Finish(j, "llm-failed")

PersistHealth(j) ==
    /\ Reported(j)
    /\ Commit([memory EXCEPT !.model =
                  IF verdict[j] = "success" THEN "ready" ELSE "cooling"], 0)
    /\ UNCHANGED log /\ Unchanged /\ Sound

\* A bug: the completion is looked up before the lock is taken only.
AlreadyMergedUnlocked(v) == FALSE

\* The completion is looked up again in the transaction's own base.
AlreadyMerged(v) == IsProcessed(v)

\* The facts and the completion record are one commit.
FinalMerge(j) ==
    /\ pc[j] = "merge"
    /\ ~AlreadyMerged(source[j])
    /\ Finish(j, "llm-success")
    /\ Commit([memory EXCEPT !.ledger = BoundedLedger(Append(@, source[j]))],
              1)
    /\ log' = Append(log, [source |-> source[j], job |-> j])
    /\ Unchanged /\ Sound

FinalNoop(j) ==
    /\ pc[j] = "merge"
    /\ AlreadyMerged(source[j])
    /\ Finish(j, "cache-hit")
    /\ UNCHANGED <<memory, history>> /\ Unchanged /\ Sound

\* A read or a transaction that the job cannot do without fails.
TransactionFails(j, o) ==
    /\ \/ /\ \/ pc[j] = "recheck"
             \/ pc[j] = "queued" /\ Head(queue[proc[j]]) = j
          /\ o = "write-failed"
       \/ pc[j] \in {"heuristic", "guard", "merge"}
    /\ Finish(j, o)
    /\ Fault \/ GuardRefused(j)
    /\ UNCHANGED <<memory, history>> /\ Unchanged

\* The terminal outcome and the health are recorded if they can be.
ReportFails(j) ==
    /\ \/ Goto(j, "settle", "health")
       \/ Reported(j)
    /\ Fault
    /\ UNCHANGED <<memory, history>> /\ Unchanged

Step(j) ==
    \/ Fetch(j) \/ FetchFails(j) \/ Prepare(j) \/ PrepareFails(j)
    \/ Start(j) \/ Heuristic(j) \/ Recheck(j)
    \/ CreateSession(j) \/ CreateFails(j) \/ PersistGuard(j)
    \/ Prompt(j) \/ Accept(j) \/ Refuse(j)
    \/ Settle(j) \/ PersistHealth(j) \/ ReportFails(j)
    \/ FinalMerge(j) \/ FinalNoop(j)
    \/ \E o \in {"write-failed", "queue-failed"} : TransactionFails(j, o)

-----------------------------------------------------------------------------
(* The environment                                                         *)

Talk(s) ==
    /\ transcript[s] < MaxVersion
    /\ transcript' = [transcript EXCEPT ![s] = @ + 1]
    /\ UNCHANGED <<prompted, created, memory, retained, queue, pc, jobVars,
                   outcome, history>> /\ Sound

\* The cooldown of the model runs out.
CoolDown ==
    /\ memory.model = "cooling"
    /\ memory' = [memory EXCEPT !.model = "ready"]
    /\ UNCHANGED <<hostVars, retained, queue, pc, jobVars, outcome, history>>
    /\ Sound

\* A process dies and starts again with nothing but the memory file.
Crash(p) ==
    /\ crashes < MaxCrashes
    /\ crashes' = crashes + 1
    /\ retained' = [retained EXCEPT ![p] = {}]
    /\ queue' = [queue EXCEPT ![p] = <<>>]
    /\ pc' = [j \in Job |->
          IF proc[j] = p /\ pc[j] \in Waiting \cup Active THEN "dead" ELSE pc[j]]
    /\ audit' = [j \in Job |-> IF pc'[j] \in Over THEN 0 ELSE audit[j]]
    /\ attempt' = [j \in Job |-> IF pc'[j] \in Over THEN 0 ELSE attempt[j]]
    /\ verdict' = [j \in Job |-> IF pc'[j] \in Over THEN "none" ELSE verdict[j]]
    /\ UNCHANGED <<hostVars, memory, proc, session, source, outcome, history, faults,
                   unread>>

Next ==
    \/ \E j \in Job : Step(j)
    \/ \E j \in Job, p \in Process, s \in Session \cup prompted :
          IdleEvent(j, p, s)
    \/ \E s \in Session : Talk(s)
    \/ CoolDown
    \/ \E p \in Process : Crash(p)

Spec == Init /\ [][Next]_vars

\* Requests and prompts are bounded by timeouts and the lock by its deadline,
\* so every await of a running job comes back.
FairSpec == Spec /\ \A j \in Job : WF_vars(Step(j))

-----------------------------------------------------------------------------
(* Properties                                                              *)

\* The decisions of one version of a transcript are merged once, whichever
\* processes extract it and whoever dies: a second merge of it happens only
\* after the bounded ledger has dropped its completion.
MergedOnce == [][
    Len(log') > Len(log) =>
        LET v == log'[Len(log')].source
        IN  v \in {log[n].source : n \in DOMAIN log} => v \in forgotten.sources]_log

\* Without pressure the ledger drops a completion only after LedgerCap others.
LedgerRemembers ==
    ~Pressure => \A m, n \in DOMAIN log :
        m < n /\ log[m].source = log[n].source => n - m > LedgerCap

\* Whatever process hears of an audit session, it starts a job for it only
\* after its guard row was dropped by the bounds of the memory, or when the
\* memory could not be read at that moment: not because a process restarted or
\* because the extraction failed or died half-way.
DurablyGuarded ==
    \A j \in Job :
        session[j] \in AuditId => session[j] \in forgotten.audits \/ j \in unread

\* While a process works in an audit session, it has no job of its own for it,
\* be the memory unreadable and the guard row dropped.
LocallyGuarded ==
    \A i, j \in Job :
        audit[i] # 0 /\ session[j] = audit[i] => proc[j] # proc[i]

\* Extraction does not feed on itself (isRetainedExtractionSession and
\* isPersistedRetainedExtractionSession), with these two exceptions: a guard
\* row that is gone and a guard that cannot be read, which fails open.
NoRecursion == DurablyGuarded /\ LocallyGuarded

\* While an extraction is prompting, its guard row is dropped neither for
\* completed history nor under pressure: only AuditCap newer pending ones
\* displace it.
PendingGuardsStay == [][
    \A j \in Job :
        /\ pc'[j] \in {"prompt", "answer", "settle"}
        /\ audit[j] \in DOMAIN memory.audits \ DOMAIN memory'.audits
        => Cardinality({b \in Pending(memory'.audits) : b > audit[j]}) >= AuditCap
    ]_memory

\* What writeMemoryOnIdle returns is what happened: success exactly for the
\* job that merged (and the events that share it), cache-hit only for sources
\* that some job merged, and no merge behind a reported failure.
OutcomesAreTrue ==
    \A j \in Job :
        /\ outcome[j] \in {"llm-success", "cache-hit"} =>
              \E n \in DOMAIN log : log[n].source = source[j]
        /\ (\E n \in DOMAIN log : log[n].job = j) =>
              outcome[j] \in {"none", "llm-success"}

\* A job whose process lives is in its process's queue, once, until it is
\* over, and only the head of a queue works: jobs are neither lost nor overtaken.
QueueHoldsJobs ==
    \A j \in Job :
        /\ pc[j] \in Active =>
              queue[proc[j]] # <<>> /\ Head(queue[proc[j]]) = j
        /\ pc[j] = "queued" => j \in Range(queue[proc[j]])
        /\ pc[j] = "joined" => InFlight(proc[j], source[j])

\* Every idle event comes to an end, those that wait behind a failing
\* extraction or share its promise too.
EveryIdleSettles == \A j \in Job : pc[j] = "fetch" ~> pc[j] \in Over
=============================================================================
