-------------------------- MODULE CompactionHooks --------------------------
(***************************************************************************)
(* The two compaction hooks of src/src/index.ts and the artifacts they     *)
(* leave behind: "experimental.session.compacting", which hands the host   *)
(* a prompt or an augmentation and records it in                           *)
(* last_compaction_prompt.log, and the session.compacted event, recorded   *)
(* in last_compaction_result.json.  The host does not wait for one hook    *)
(* before it calls the next, and each reads the session's history in       *)
(* between; b1MonotonicPublish orders what they publish.                   *)
(*                                                                         *)
(* An artifact keeps one observation only.  Its text, like what the host   *)
(* is handed, is abstracted: to the observation it is of and the times     *)
(* that the hooks compare.                                                 *)
(***************************************************************************)
EXTENDS Naturals, Sequences, FiniteSets

CONSTANTS
    Process,    \* opencode processes that load the plugin for one project
    Hooks,      \* bound: hook calls
    MaxTroubles \* bound: reads, writes and hooks that fail, and processes
                \* that die (and start again)

Hook == 1 .. Hooks
Artifact == {"prompt", "result"}
Place == {"project", "global"}

ASSUME HooksAssumption ==
    /\ Hooks \in Nat /\ MaxTroubles \in Nat

VARIABLES
    clock,     \* time, which advances when it is recorded
    run,       \* how often each process was started
    number,    \* each process's _b1MonotonicSeq
    last,      \* each process's _b1LastPublishedSeqByKey
    queue,     \* each process's _b1PublicationQueueByKey
    hook,      \* each call: where it is and what it holds
    disk,      \* each artifact in the project's and the global directory
    published, \* every write so far
    troubles   \* failures and deaths so far

orderVars == <<run, number, last>>
files == <<disk, published>>
vars == <<clock, orderVars, queue, hook, files, troubles>>

Publishing == {"queued", "look", "write", "fallback"}
Over == {"published", "unwritten", "overtaken", "failed", "dead"}
Idle == [pc |-> "idle", artifact |-> "none", proc |-> "none", run |-> 0,
         number |-> 0, at |-> 0, stamp |-> 0, looked |-> 0]
Nothing == [stamp |-> 0, mtime |-> 0]

-----------------------------------------------------------------------------
Init ==
    /\ clock = 1
    /\ run = [p \in Process |-> 1]
    /\ number = [p \in Process |-> 0]
    /\ last = [p \in Process |-> [a \in Artifact |-> 0]]
    /\ queue = [p \in Process |-> [a \in Artifact |-> <<>>]]
    /\ hook = [h \in Hook |-> Idle]
    /\ disk = [a \in Artifact |-> [d \in Place |-> Nothing]]
    /\ published = <<>>
    /\ troubles = 0

Sound == UNCHANGED troubles
Trouble == troubles < MaxTroubles /\ troubles' = troubles + 1

\* The number and the time of the observation are taken before anything is
\* awaited.
Receive(h, p, a) ==
    /\ hook[h].pc = "idle"
    /\ \A i \in 1 .. (h - 1) : hook[i].pc # "idle"
    /\ number' = [number EXCEPT ![p] = @ + 1]
    /\ hook' = [hook EXCEPT ![h] =
          [pc |-> "history", artifact |-> a, proc |-> p, run |-> run[p],
           number |-> number[p] + 1, at |-> clock, stamp |-> 0, looked |-> 0]]
    /\ clock' = clock + 1
    /\ UNCHANGED <<run, last, queue, files>> /\ Sound

\* buildCompactionPromptArtifact says when it ran, the result's diagnostic when
\* the event was observed.
PromptStamp == clock
ResultStamp(h) == hook[h].at

\* The artifact is built and joins the queue.
Enqueue(h, stamp) ==
    /\ hook[h].pc = "history"
    /\ hook' = [hook EXCEPT ![h] = [@ EXCEPT !.pc = "queued", !.stamp = stamp]]
    /\ queue' = [queue EXCEPT ![hook[h].proc][hook[h].artifact] = Append(@, h)]
    /\ UNCHANGED <<orderVars, files>> /\ Sound

\* The durable block and, to replace the host's prompt, the history have
\* arrived; the host has its prompt or augmentation.
PreparePrompt(h) ==
    /\ hook[h].artifact = "prompt"
    /\ Enqueue(h, PromptStamp)
    /\ clock' = clock + 1

\* The history has arrived, or is recorded as unavailable.
PrepareResult(h) ==
    /\ hook[h].artifact = "result"
    /\ Enqueue(h, ResultStamp(h))
    /\ UNCHANGED clock

\* The event names no session, the memory cannot be rendered, or the artifact
\* cannot be built: the number is used up.
PrepareFails(h) ==
    /\ hook[h].pc = "history"
    /\ hook' = [hook EXCEPT ![h].pc = "failed"]
    /\ Trouble
    /\ UNCHANGED <<clock, orderVars, queue, files>>

First(h) ==
    /\ hook[h].pc = "queued"
    /\ Head(queue[hook[h].proc][hook[h].artifact]) = h

LastOf(h) == last[hook[h].proc][hook[h].artifact]

Take(h) ==
    last' = [last EXCEPT ![hook[h].proc][hook[h].artifact] = hook[h].number]

\* A bug: the next publication waits for one that has gone.
FinishUnqueued(h, how) ==
    /\ hook' = [hook EXCEPT ![h].pc = how]
    /\ queue' = [queue EXCEPT ![hook[h].proc][hook[h].artifact] =
                    IF how = "unwritten" THEN @ ELSE Tail(@)]

Finish(h, how) ==
    /\ hook' = [hook EXCEPT ![h].pc = how]
    /\ queue' = [queue EXCEPT ![hook[h].proc][hook[h].artifact] = Tail(@)]

\* A bug: only what is published already is not published again.
OvertakenByItself(h) == hook[h].number = LastOf(h)

Overtaken(h) == hook[h].number <= LastOf(h)

\* A bug: the disk is asked before every publication.
NeverOrdered(h) == FALSE

\* The process has an order of its own for the artifact.
Ordered(h) == LastOf(h) # 0

\* Its turn: an older observation is dropped, a later one is published without
\* a look at the disk once this process has an order of its own.
Consider(h) ==
    /\ First(h)
    /\ \/ Overtaken(h) /\ Finish(h, "overtaken") /\ UNCHANGED last
       \/ /\ ~Overtaken(h) /\ Ordered(h)
          /\ Take(h)
          /\ hook' = [hook EXCEPT ![h].pc = "write"]
          /\ UNCHANGED queue
       \/ /\ ~Overtaken(h) /\ ~Ordered(h)
          /\ hook' = [hook EXCEPT ![h].pc = "look"]
          /\ UNCHANGED <<last, queue>>
    /\ UNCHANGED <<clock, run, number, files>> /\ Sound

\* A bug: only the project's directory is searched.
LatestInProject(a, readable) ==
    IF "project" \in readable THEN disk[a]["project"] ELSE Nothing

\* readDiagnosticArtifact: the newer readable file, the project's on a tie.
Latest(a, readable) ==
    LET seen(d) == IF d \in readable THEN disk[a][d] ELSE Nothing
    IN  IF seen("project").mtime >= seen("global").mtime
        THEN seen("project") ELSE seen("global")

\* The first publication of a process defers to a newer artifact.
Look(h, readable) ==
    LET seen == Latest(hook[h].artifact, readable)
        newer == seen.mtime > hook[h].at \/ seen.stamp > hook[h].at
    IN
    /\ hook[h].pc = "look"
    /\ Take(h)
    /\ \/ newer /\ Finish(h, "overtaken")
       \/ /\ ~newer
          /\ hook' = [hook EXCEPT ![h] = [@ EXCEPT !.pc = "write",
                !.looked = IF readable = Place THEN Len(published) ELSE 0]]
          /\ UNCHANGED queue
    /\ IF readable = Place THEN Sound ELSE Trouble
    /\ UNCHANGED <<clock, run, number, files>>

Written(h, d) ==
    LET k == hook[h] IN
    /\ disk' = [disk EXCEPT ![k.artifact][d] =
                   [stamp |-> k.stamp, mtime |-> clock]]
    /\ published' = Append(published,
          [artifact |-> k.artifact, proc |-> k.proc, run |-> k.run,
           number |-> k.number, at |-> k.at, looked |-> k.looked,
           mtime |-> clock])
    /\ clock' = clock + 1

WriteProject(h) ==
    /\ hook[h].pc = "write"
    /\ Written(h, "project")
    /\ Finish(h, "published")
    /\ UNCHANGED orderVars /\ Sound

WriteProjectFails(h) ==
    /\ hook[h].pc = "write"
    /\ hook' = [hook EXCEPT ![h].pc = "fallback"]
    /\ Trouble
    /\ UNCHANGED <<clock, orderVars, queue, files>>

WriteGlobal(h) ==
    /\ hook[h].pc = "fallback"
    /\ Written(h, "global")
    /\ Finish(h, "published")
    /\ UNCHANGED orderVars /\ Sound

\* The artifact is too large, or both writes failed: nothing is tried again.
WriteFails(h) ==
    /\ hook[h].pc \in {"write", "fallback"}
    /\ Finish(h, "unwritten")
    /\ Trouble
    /\ UNCHANGED <<clock, orderVars, files>>

Step(h) ==
    \/ PreparePrompt(h) \/ PrepareResult(h) \/ PrepareFails(h)
    \/ Consider(h) \/ \E readable \in SUBSET Place : Look(h, readable)
    \/ WriteProject(h) \/ WriteProjectFails(h)
    \/ WriteGlobal(h) \/ WriteFails(h)

Crash(p) ==
    /\ Trouble
    /\ run' = [run EXCEPT ![p] = @ + 1]
    /\ number' = [number EXCEPT ![p] = 0]
    /\ last' = [last EXCEPT ![p] = [a \in Artifact |-> 0]]
    /\ queue' = [queue EXCEPT ![p] = [a \in Artifact |-> <<>>]]
    /\ hook' = [h \in Hook |->
          IF hook[h].proc = p /\ hook[h].pc \in {"history"} \cup Publishing
          THEN [hook[h] EXCEPT !.pc = "dead"] ELSE hook[h]]
    /\ UNCHANGED <<clock, files>>

Next ==
    \/ \E h \in Hook, p \in Process, a \in Artifact : Receive(h, p, a)
    \/ \E h \in Hook : Step(h)
    \/ \E p \in Process : Crash(p)

Spec == Init /\ [][Next]_vars

\* Every await of a hook comes back: the host answers, the disk too.
FairSpec == Spec /\ \A h \in Hook : WF_vars(Step(h))

-----------------------------------------------------------------------------
(* Properties                                                              *)

Call == [pc : {"idle", "history"} \cup Publishing \cup Over,
         artifact : Artifact \cup {"none"}, proc : Process \cup {"none"},
         run : Nat, number : Nat, at : Nat, stamp : Nat, looked : Nat]
Publication == [artifact : Artifact, proc : Process, run : Nat, number : Nat,
                at : Nat, looked : Nat, mtime : Nat]

\* The type invariant.
TypeOK ==
    /\ clock \in Nat /\ troubles \in Nat
    /\ run \in [Process -> Nat] /\ number \in [Process -> Nat]
    /\ last \in [Process -> [Artifact -> Nat]]
    /\ queue \in [Process -> [Artifact -> Seq(Hook)]]
    /\ hook \in [Hook -> Call]
    /\ disk \in [Artifact -> [Place -> [stamp : Nat, mtime : Nat]]]
    /\ published \in Seq(Publication)

\* index.ts 36-39, "Older observations never replace newer": of two
\* observations of one process, whichever hook finishes its reads first, the
\* newer one is written last, or only.
PublishedInOrder ==
    \A m, n \in DOMAIN published :
        /\ m < n
        /\ published[m].artifact = published[n].artifact
        /\ published[m].proc = published[n].proc
        /\ published[m].run = published[n].run
        => published[m].number < published[n].number

\* The first publication of a process, the only one that looks, replaces no
\* newer observation that any process had published by then.
FirstDefers ==
    \A n \in DOMAIN published, m \in DOMAIN published :
        /\ m <= published[n].looked
        /\ published[m].artifact = published[n].artifact
        => published[m].at < published[n].at

\* What may become of a call among those of its artifact in one life of a
\* process: its artifact is written, or fails to be; or it gives way, as the
\* first of them to be considered, to an artifact that another process, or an
\* earlier life, wrote after the observation was made.
Sibling(i, h) ==
    /\ hook[i].artifact = hook[h].artifact
    /\ hook[i].proc = hook[h].proc /\ hook[i].run = hook[h].run
Tried(h) == hook[h].pc \in {"write", "fallback", "published", "unwritten"}
ForeignWrite(h, n) ==
    /\ published[n].artifact = hook[h].artifact
    /\ published[n].mtime > hook[h].at
    /\ <<published[n].proc, published[n].run>> # <<hook[h].proc, hook[h].run>>
GaveWay(h) ==
    /\ hook[h].pc = "overtaken"
    /\ \A i \in Hook : Sibling(i, h) /\ Tried(i) => hook[i].number > hook[h].number
    /\ \E n \in DOMAIN published : ForeignWrite(h, n)

\* index.ts 79-86, "preserves overlapping monotonic while not suppressing
\* normal sequential updates": an observation is dropped only for a newer one
\* of its own process, which was tried or gave way itself, or because it gave
\* way. So once a process has published, the files' times (those of its own
\* writes first of all) never suppress its newest observation. The artifact
\* another process wrote may be of an older observation: across processes
\* nothing is said of which observation the files keep.
NotSuppressed ==
    \A h \in Hook :
        hook[h].pc = "overtaken" /\ hook[h].run = run[hook[h].proc] =>
            \/ GaveWay(h)
            \/ \E i \in Hook :
                  /\ Sibling(i, h) /\ hook[i].number > hook[h].number
                  /\ Tried(i) \/ GaveWay(i)

\* A hook that waits behind another's publication comes to an end although
\* that one fails ("publication failure remains non-fatal").
EveryHookReturns ==
    \A h \in Hook : hook[h].pc = "history" ~> hook[h].pc \in Over
=============================================================================
