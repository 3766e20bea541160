------------------------- MODULE IdlePipeline_proofs -------------------------
(***************************************************************************)
(* Theorems about the idle pipeline, for any number of sessions,           *)
(* processes, events, audits, crashes and faults.                          *)
(***************************************************************************)
EXTENDS IdlePipeline, SequenceTheorems, FiniteSetTheorems,
        WellFoundedInduction, TLAPS

-----------------------------------------------------------------------------
(* The inductive invariant.                                                *)

PC == {"idle"} \cup Waiting \cup Active \cup Over
Row == [source : Source, state : {"pending", "success", "failed"}]
Guards == UNION {[D -> Row] : D \in SUBSET AuditId}
Memory == [ledger : Seq(Source), audits : Guards, model : {"ready", "cooling"}]

\* The type invariant.
TypeOK ==
    /\ transcript \in [Session -> Version]
    /\ prompted \in SUBSET AuditId /\ created \in 0 .. MaxAudits
    /\ memory \in Memory
    /\ retained \in [Process -> SUBSET AuditId]
    /\ queue \in [Process -> Seq(Job)]
    /\ pc \in [Job -> PC]
    /\ proc \in [Job -> Process \cup {0}]
    /\ session \in [Job -> Session \cup AuditId \cup {0}]
    /\ source \in [Job -> Source \cup {NoSource}]
    /\ audit \in [Job -> 0 .. MaxAudits]
    /\ attempt \in [Job -> 0 .. 2]
    /\ verdict \in [Job -> {"none", "success", "failed"}]
    /\ outcome \in [Job -> Outcome]
    /\ log \in Seq([source : Source, job : Job])
    /\ forgotten \in [audits : SUBSET AuditId, sources : SUBSET Source]
    /\ crashes \in Nat /\ faults \in Nat /\ unread \in SUBSET Job

\* A queue holds the jobs of its process that wait or work, each once; only
\* the first works.  An event that shares a promise shares that of a queued job.
Queued(p, n) ==
    LET j == queue[p][n] IN
    /\ proc[j] = p /\ pc[j] \in {"queued"} \cup Active
    /\ n > 1 => pc[j] = "queued"
    /\ \A m \in 1 .. (n - 1) : queue[p][m] # j
InQueue(j) ==
    \E n \in 1 .. Len(queue[proc[j]]) : queue[proc[j]][n] = j
QueueShape ==
    /\ \A p \in Process : \A n \in 1 .. Len(queue[p]) : Queued(p, n)
    /\ \A j \in Job : pc[j] \in {"queued"} \cup Active => InQueue(j)
    /\ \A j \in Job : pc[j] = "joined" => InFlight(proc[j], source[j])

\* What a job knows at each point of its way.
Extracting == {"guard", "prompt", "answer", "settle", "health", "merge"}
Guarded == {"prompt", "answer", "settle"}
Knows(j) ==
    /\ pc[j] # "idle" => proc[j] \in Process /\ session[j] \in Session \cup AuditId
    /\ pc[j] \in {"prepare", "joined", "queued"} \cup Active
          => source[j] \in Source
    /\ audit[j] <= created
    /\ pc[j] \in Extracting => audit[j] # 0
    /\ pc[j] \in {"guard", "prompt"} => attempt[j] < 2
    /\ pc[j] \in {"settle", "health"} => verdict[j] # "none"
JobShape ==
    /\ \A j \in Job : Knows(j)
    /\ \A i, j \in Job : audit[i] = audit[j] /\ audit[i] # 0 => i = j

\* The guard row of a running extraction is pending, or it was displaced; that
\* of an audit session that was ever prompted is there, or it was dropped.
Guarding(j) ==
    /\ pc[j] \in Guarded => audit[j] \in DOMAIN memory.audits \cup forgotten.audits
    /\ pc[j] \in Guarded /\ audit[j] \in DOMAIN memory.audits
          => memory.audits[audit[j]].state = "pending"
GuardShape ==
    /\ \A j \in Job : Guarding(j)
    /\ prompted \subseteq DOMAIN memory.audits \cup forgotten.audits

\* The ledger holds sources that were merged, every one but those it dropped,
\* and without pressure exactly the last.
Merged == {log[n].source : n \in DOMAIN log}
LedgerIsTail ==
    /\ Len(memory.ledger) = IF Len(log) < LedgerCap THEN Len(log) ELSE LedgerCap
    /\ \A n \in 1 .. Len(memory.ledger) :
          memory.ledger[n] = log[Len(log) - Len(memory.ledger) + n].source
LedgerShape ==
    /\ Range(memory.ledger) \subseteq Merged
    /\ Merged \subseteq Range(memory.ledger) \cup forgotten.sources
    /\ ~Pressure => LedgerIsTail

\* An event is answered when it is done, and the job of a merge with success.
OutcomeShape ==
    /\ \A j \in Job : pc[j] # "done" => outcome[j] = "none"
    /\ \A n \in DOMAIN log :
          pc[log[n].job] = "done" /\ outcome[log[n].job] = "llm-success"
    /\ \A j \in Job :
          outcome[j] \in {"llm-success", "cache-hit"} => source[j] \in Merged

IInv ==
    /\ QueueShape /\ JobShape /\ GuardShape /\ LedgerShape /\ OutcomeShape
    /\ LedgerRemembers /\ DurablyGuarded

\* What a step leaves of the counters and of the record of unread guards.
Mishaps ==
    /\ crashes' \in Nat /\ faults' \in Nat
    /\ unread' \in SUBSET Job /\ unread \subseteq unread'

-----------------------------------------------------------------------------
(* The operators on a memory's collections.                                *)

(* The last n elements of a sequence, in their order.                      *)
LEMMA Lasts ==
    ASSUME NEW S, NEW s \in Seq(S), NEW n \in Nat
    PROVE  LET t == LastOf(s, n) IN
           /\ t \in Seq(S)
           /\ Len(t) = IF Len(s) > n THEN n ELSE Len(s)
           /\ \A i \in 1 .. Len(t) : t[i] = s[Len(s) - Len(t) + i]
<1> DEFINE N == Len(s)
           k == IF N > n THEN N - n + 1 ELSE 1
           t == SubSeq(s, k, N)
<1>1. N \in Nat /\ \A i \in 1 .. N : s[i] \in S
  OBVIOUS
<1> HIDE DEF N
<1>2. /\ k \in Int /\ N \in Int /\ \A i \in k .. N : i \in 1 .. N
      /\ N - k + 1 = IF N > n THEN n ELSE N
      /\ k <= N \/ N - k + 1 = 0
  BY <1>1
<1> HIDE DEF k
<1>3. /\ t \in Seq(S)
      /\ Len(t) = IF k <= N THEN N - k + 1 ELSE 0
      /\ \A i \in 1 .. (N - k + 1) : t[i] = s[k + i - 1]
  <2>1. \A i \in k .. N : s[i] \in S
    BY <1>1, <1>2
  <2> QED
    BY <1>2, <2>1, SubSeqProperties
<1>4. LastOf(s, n) = t
  BY DEF LastOf, N, k
<1> HIDE DEF t
<1>5. Len(t) = N - k + 1 /\ Len(t) = IF N > n THEN n ELSE N
  <2>1. IF k <= N THEN N - k + 1 = N - k + 1 ELSE N - k + 1 = 0
    BY <1>2
  <2> QED
    BY <1>2, <1>3, <2>1
<1>6. \A i \in 1 .. Len(t) : k + i - 1 = N - Len(t) + i
  BY <1>1, <1>2, <1>5
<1> QED
  BY <1>3, <1>4, <1>5, <1>6 DEF N

(* The whole of a sequence is its own last part.                           *)
LEMMA LastAll ==
    ASSUME NEW S, NEW s \in Seq(S)
    PROVE  LastOf(s, Len(s)) = s
<1>1. Len(s) \in Nat
  OBVIOUS
<1>2. /\ LastOf(s, Len(s)) \in Seq(S)
      /\ Len(LastOf(s, Len(s))) = Len(s)
      /\ \A i \in 1 .. Len(s) : LastOf(s, Len(s))[i] = s[Len(s) - Len(s) + i]
  BY <1>1, Lasts
<1>3. \A i \in 1 .. Len(s) : Len(s) - Len(s) + i = i
  BY <1>1
<1> QED
  BY <1>2, <1>3, SeqEqual

(* Guard rows: a function on some of the audit sessions.                   *)
LEMMA GuardsAre ==
    ASSUME NEW f \in Guards
    PROVE  /\ DOMAIN f \in SUBSET AuditId
           /\ f \in [DOMAIN f -> Row]
           /\ \A a \in DOMAIN f :
                 /\ f[a] \in Row /\ f[a].source \in Source
                 /\ f[a].state \in {"pending", "success", "failed"}
           /\ Pending(f) \subseteq DOMAIN f
           /\ Completed(f) = DOMAIN f \ Pending(f)
<1>1. PICK D \in SUBSET AuditId : f \in [D -> Row]
  BY DEF Guards
<1>2. DOMAIN f = D
  BY <1>1
<1> QED
  BY <1>1, <1>2 DEF Row, Pending, Completed

(* Dropping rows leaves the others as they are.                            *)
LEMMA Restricted ==
    ASSUME NEW f \in Guards, NEW D \in SUBSET DOMAIN f
    PROVE  /\ Restrict(f, D) \in Guards /\ DOMAIN Restrict(f, D) = D
           /\ \A a \in D : Restrict(f, D)[a] = f[a]
<1>1. D \in SUBSET AuditId /\ \A a \in D : f[a] \in Row
  BY GuardsAre
<1>2. Restrict(f, D) \in [D -> Row]
  BY <1>1 DEF Restrict
<1> QED
  BY <1>1, <1>2 DEF Guards, Restrict

(* The bounds of the audits drop rows; a pending one only for newer ones.  *)
LEMMA Bounded ==
    ASSUME NEW f \in Guards
    PROVE  LET g == BoundedAudits(f) IN
           /\ g \in Guards /\ DOMAIN g \subseteq DOMAIN f
           /\ \A a \in DOMAIN g : g[a] = f[a]
           /\ Newest(Pending(f), AuditCap) \subseteq DOMAIN g
<1> DEFINE active == Newest(Pending(f), AuditCap)
           room == AuditCap - Cardinality(active)
           kept == active \cup
               IF room = 0 THEN Completed(f) ELSE Newest(Completed(f), room)
<1>1. kept \in SUBSET DOMAIN f
  BY GuardsAre DEF Newest
<1>2. BoundedAudits(f) = Restrict(f, kept)
  BY DEF BoundedAudits
<1> HIDE DEF kept
<1>3. active \subseteq kept
  BY DEF kept
<1> QED
  BY <1>1, <1>2, <1>3, Restricted

(* Expiry touches abandoned rows only.                                     *)
LEMMA Aged ==
    ASSUME NEW f \in Guards
    PROVE  LET g == Expired(f) IN
           /\ g \in Guards /\ DOMAIN g = DOMAIN f
           /\ \A a \in DOMAIN g : a \notin Abandoned(f) => g[a] = f[a]
           /\ Pending(f) \ Abandoned(f) \subseteq Pending(g)
<1>1. ASSUME NEW a \in DOMAIN f PROVE [f[a] EXCEPT !.state = "failed"] \in Row
  BY GuardsAre DEF Row
<1>2. Expired(f) \in [DOMAIN f -> Row]
  BY <1>1, GuardsAre DEF Expired
<1>3. \A a \in DOMAIN f : a \notin Abandoned(f) => Expired(f)[a] = f[a]
  BY DEF Expired
<1>4. DOMAIN f \in SUBSET AuditId
  BY GuardsAre
<1> QED
  BY <1>2, <1>3, <1>4 DEF Guards, Pending

(* What the budget makes of a memory.                                      *)
LEMMA FittedIs ==
    ASSUME NEW m \in Memory, NEW kept \in 0 .. Len(m.ledger),
           NEW f \in Fitted(m, kept)
    PROVE  /\ f \in Memory
           /\ \E n \in kept .. Len(m.ledger) :
                 f.ledger = LastOf(m.ledger, n) /\ (~Pressure => n = Len(m.ledger))
           /\ DOMAIN f.audits \subseteq DOMAIN m.audits
           /\ \A a \in DOMAIN f.audits :
                 a \notin Abandoned(m.audits) => f.audits[a] = m.audits[a]
           /\ Pending(m.audits) \ Abandoned(m.audits) \subseteq Pending(f.audits)
<1>1. /\ m.ledger \in Seq(Source) /\ m.audits \in Guards /\ m.model \in {"ready", "cooling"}
      /\ Len(m.ledger) \in Nat
  BY DEF Memory
<1> DEFINE aged == {m.audits, Expired(m.audits)}
           audits == IF Pressure THEN UNION {Shed(a) : a \in aged} ELSE aged
           least == IF Pressure THEN kept ELSE Len(m.ledger)
<1>2. PICK g \in audits, n \in least .. Len(m.ledger), h \in {m.model, "ready"} :
        f = [ledger |-> LastOf(m.ledger, n), audits |-> g, model |-> h]
  BY DEF Fitted
<1>3. f.ledger = LastOf(m.ledger, n) /\ f.audits = g /\ f.model = h
  BY <1>2
<1>4. n \in kept .. Len(m.ledger) /\ (~Pressure => n = Len(m.ledger))
  BY <1>1
<1>5. LastOf(m.ledger, n) \in Seq(Source)
  BY <1>1, <1>4, Lasts
<1>6. PICK b \in aged : g = b \/ g \in Shed(b)
  BY <1>2
<1>7. /\ b \in Guards /\ DOMAIN b = DOMAIN m.audits
      /\ \A a \in DOMAIN b : a \notin Abandoned(m.audits) => b[a] = m.audits[a]
      /\ Pending(m.audits) \ Abandoned(m.audits) \subseteq Pending(b)
  BY <1>1, Aged
<1>8. /\ g \in Guards /\ DOMAIN g \subseteq DOMAIN b
      /\ \A a \in DOMAIN g : g[a] = b[a]
      /\ Pending(b) \subseteq Pending(g)
  <2>1. CASE g = b
    BY <1>7, <2>1
  <2>2. CASE g \in Shed(b)
    <3>1. PICK D \in SUBSET Completed(b) : g = Restrict(b, Pending(b) \cup D)
      BY <2>2 DEF Shed
    <3>2. Pending(b) \cup D \in SUBSET DOMAIN b
      BY <1>7, GuardsAre
    <3>3. /\ g \in Guards /\ DOMAIN g = Pending(b) \cup D
          /\ \A a \in DOMAIN g : g[a] = b[a]
      BY <1>7, <3>1, <3>2, Restricted
    <3>4. Pending(b) \subseteq Pending(g)
      BY <3>3 DEF Pending
    <3> QED
      BY <3>2, <3>3, <3>4
  <2> QED
    BY <1>6, <2>1, <2>2
<1>9. f \in Memory
  BY <1>1, <1>2, <1>5, <1>8 DEF Memory
<1> QED
  BY <1>3, <1>4, <1>7, <1>8, <1>9

(* What a committed transaction makes of the memory and of the record of   *)
(* what it dropped.                                                        *)
Live == {a \in AuditId : \E j \in Job : audit[j] = a}

Commits(m, kept) ==
    /\ memory' \in Memory
    /\ forgotten' \in [audits : SUBSET AuditId, sources : SUBSET Source]
    /\ DOMAIN m.audits \cup forgotten.audits
          \subseteq DOMAIN memory'.audits \cup forgotten'.audits
    /\ forgotten.audits \subseteq forgotten'.audits
    /\ \A a \in DOMAIN memory'.audits : a \in DOMAIN m.audits
          /\ (a \in Live => memory'.audits[a] = m.audits[a])
    /\ \E n \in kept .. Len(m.ledger) :
          /\ memory'.ledger = LastOf(m.ledger, n)
          /\ ~Pressure => n = Len(m.ledger)
    /\ Range(memory.ledger) \cup forgotten.sources
          \subseteq Range(memory'.ledger) \cup forgotten'.sources

LEMMA Committed ==
    ASSUME TypeOK, NEW m \in Memory, NEW kept \in 0 .. Len(m.ledger),
           Commit(m, kept), DOMAIN memory.audits \subseteq DOMAIN m.audits
    PROVE  Commits(m, kept)
<1> DEFINE b == [m EXCEPT !.audits = BoundedAudits(@)]
<1>1. /\ m.audits \in Guards /\ m.ledger \in Seq(Source)
      /\ DOMAIN m.audits \in SUBSET AuditId
  BY GuardsAre DEF Memory
<1>2. /\ BoundedAudits(m.audits) \in Guards
      /\ DOMAIN BoundedAudits(m.audits) \subseteq DOMAIN m.audits
      /\ \A a \in DOMAIN BoundedAudits(m.audits) :
            BoundedAudits(m.audits)[a] = m.audits[a]
  BY <1>1, Bounded
<1>3. b \in Memory /\ b.ledger = m.ledger /\ b.audits = BoundedAudits(m.audits)
  BY <1>2 DEF Memory
<1>4. memory' \in Fitted(b, kept)
  BY DEF Commit, Candidates
<1> HIDE DEF b
<1>5. /\ memory' \in Memory
      /\ DOMAIN memory'.audits \subseteq DOMAIN b.audits
      /\ \A a \in DOMAIN memory'.audits :
            a \notin Abandoned(b.audits) => memory'.audits[a] = b.audits[a]
      /\ \E n \in kept .. Len(b.ledger) :
            /\ memory'.ledger = LastOf(b.ledger, n)
            /\ ~Pressure => n = Len(b.ledger)
  BY <1>3, <1>4, FittedIs
<1>6. \A a \in Live : a \notin Abandoned(b.audits)
  <2> TAKE a \in Live
  <2>1. PICK j \in Job : audit[j] = a
    BY DEF Live
  <2>2. a \in Nat /\ a # 0 /\ ~(a > a)
    BY PipelineAssumption DEF Live, AuditId
  <2> QED
    BY <2>1, <2>2 DEF Abandoned
<1>7. /\ forgotten'.audits = forgotten.audits
                               \cup (DOMAIN m.audits \ DOMAIN memory'.audits)
      /\ forgotten'.sources = (forgotten.sources \cup Range(memory.ledger))
                                \ Range(memory'.ledger)
      /\ forgotten' = [audits |-> forgotten'.audits, sources |-> forgotten'.sources]
  BY DEF Commit, Candidates
<1>8. Range(memory.ledger) \subseteq Source
  <2>1. memory.ledger \in Seq(Source)
    BY DEF TypeOK, Memory
  <2> QED
    BY <2>1 DEF Range
<1>9. forgotten' \in [audits : SUBSET AuditId, sources : SUBSET Source]
  <2>1. forgotten.audits \in SUBSET AuditId /\ forgotten.sources \in SUBSET Source
    BY DEF TypeOK
  <2> QED
    BY <1>1, <1>7, <1>8, <2>1
<1> QED
  BY <1>2, <1>3, <1>5, <1>6, <1>7, <1>9 DEF Commits

(* A step that leaves the memory alone does no less.                       *)
LEMMA Rested ==
    ASSUME TypeOK, memory' = memory, forgotten' = forgotten
    PROVE  Commits(memory, 0)
<1>1. /\ memory \in Memory /\ memory.ledger \in Seq(Source)
      /\ forgotten \in [audits : SUBSET AuditId, sources : SUBSET Source]
  BY DEF TypeOK, Memory
<1>2. Len(memory.ledger) \in 0 .. Len(memory.ledger)
  BY <1>1
<1>3. memory.ledger = LastOf(memory.ledger, Len(memory.ledger))
  BY <1>1, LastAll
<1> QED
  BY <1>1, <1>2, <1>3 DEF Commits

(* The initial states.                                                     *)
LEMMA Initially == Init => TypeOK /\ IInv
<1> SUFFICES ASSUME Init PROVE TypeOK /\ IInv
  OBVIOUS
<1>0. <<>> \in Guards
  BY DEF Guards
<1> USE PipelineAssumption DEF Init
<1>1. memory \in Memory
  BY <1>0 DEF Memory
<1>2. /\ pc \in [Job -> PC] /\ outcome \in [Job -> Outcome]
      /\ log \in Seq([source : Source, job : Job])
  BY DEF PC, Outcome
<1>3. /\ transcript \in [Session -> Version]
      /\ retained \in [Process -> SUBSET AuditId]
      /\ queue \in [Process -> Seq(Job)]
      /\ forgotten \in [audits : SUBSET AuditId, sources : SUBSET Source]
  BY DEF Version
<1>4. TypeOK
  BY <1>1, <1>2, <1>3 DEF TypeOK
<1>5. QueueShape
  BY DEF QueueShape, Active, Queued
<1>6. JobShape
  BY DEF JobShape, Knows, Active, Extracting
<1>7. GuardShape
  BY DEF GuardShape, Guarding, Guarded
<1>8. LedgerShape
  BY DEF LedgerShape, LedgerIsTail, Merged, Range
<1>9. OutcomeShape /\ LedgerRemembers /\ DurablyGuarded
  BY DEF OutcomeShape, LedgerRemembers, DurablyGuarded, AuditId
<1> QED
  BY <1>4, <1>5, <1>6, <1>7, <1>8, <1>9 DEF IInv

-----------------------------------------------------------------------------
(* How the jobs move: what a step leaves of a job, and the queues.         *)

(* A job that a step does not touch; one that is over keeps no audit.      *)
Still(i) ==
    /\ pc'[i] = pc[i] /\ proc'[i] = proc[i] /\ session'[i] = session[i]
    /\ source'[i] = source[i] /\ outcome'[i] = outcome[i]
    /\ audit'[i] \in {audit[i], 0}
    /\ pc[i] \notin Over => /\ audit'[i] = audit[i] /\ attempt'[i] = attempt[i]
                            /\ verdict'[i] = verdict[i]

Ended(i, o) ==
    /\ pc'[i] = "done" /\ outcome'[i] = o /\ audit'[i] \in {audit[i], 0}
    /\ proc'[i] = proc[i] /\ session'[i] = session[i] /\ source'[i] = source[i]

Works(i) == pc[i] \in {"queued"} \cup Active
Seated(j) ==
    LET q == queue[proc[j]] IN proc[j] \in Process /\ Len(q) > 0 /\ q[1] = j
Settles(i, j) == i = j \/ Joined(i, j)

(* The active job is at the head of its process's queue.                   *)
LEMMA Heads ==
    ASSUME TypeOK, QueueShape, NEW j \in Job, proc[j] \in Process, Works(j),
           pc[j] \in Active \/ Head(queue[proc[j]]) = j
    PROVE  Seated(j)
<1> DEFINE q == queue[proc[j]]
<1>1. q \in Seq(Job)
  BY DEF TypeOK
<1>2. PICK n \in 1 .. Len(q) : q[n] = j
  BY DEF QueueShape, InQueue, Works
<1>3. Len(q) \in Nat /\ Len(q) > 0
  BY <1>1, <1>2
<1>4. CASE pc[j] \in Active
  <2>1. n > 1 => pc[j] = "queued"
    BY <1>2 DEF QueueShape, Queued
  <2>2. pc[j] # "queued"
    BY <1>4 DEF Active
  <2>3. n = 1
    BY <1>2, <1>3, <2>1, <2>2
  <2> QED
    BY <1>2, <1>3, <2>3 DEF Seated
<1>5. CASE Head(q) = j
  <2>1. Head(q) = q[1]
    BY <1>1, <1>3
  <2> QED
    BY <1>3, <1>5, <2>1 DEF Seated
<1> QED
  BY <1>4, <1>5

(* A job that is in no queue moves without entering one.                   *)
LEMMA QueueAside ==
    ASSUME TypeOK, QueueShape, JobShape, NEW j \in Job, queue' = queue,
           \A i \in Job \ {j} :
               pc'[i] = pc[i] /\ proc'[i] = proc[i] /\ source'[i] = source[i],
           ~Works(j), ~Works(j)',
           pc'[j] = "joined" => InFlight(proc'[j], source'[j])
                                /\ proc'[j] \in Process
    PROVE  QueueShape'
<1>1. ASSUME NEW p \in Process, NEW n \in 1 .. Len(queue[p])
      PROVE  /\ Queued(p, n)'
             /\ source'[queue[p][n]] = source[queue[p][n]]
  <2>1. queue[p][n] \in Job
    BY DEF TypeOK
  <2>2. Queued(p, n)
    BY DEF QueueShape
  <2>3. queue[p][n] # j
    BY <2>2 DEF Queued, Works
  <2> QED
    BY <2>1, <2>2, <2>3 DEF Queued
<1>2. ASSUME NEW p \in Process, NEW v, InFlight(p, v)
      PROVE  \E n \in DOMAIN queue'[p] : source'[queue'[p][n]] = v
  <2>1. DOMAIN queue[p] = 1 .. Len(queue[p])
    BY DEF TypeOK
  <2> QED
    BY <1>1, <1>2, <2>1 DEF InFlight
<1>3. ASSUME NEW i \in Job, Works(i)' PROVE InQueue(i)'
  <2>1. i # j
    BY <1>3
  <2>2. Works(i) /\ proc'[i] = proc[i]
    BY <1>3, <2>1 DEF Works
  <2>3. InQueue(i)
    BY <2>2 DEF QueueShape, Works
  <2> QED
    BY <2>2, <2>3 DEF InQueue
<1>4. ASSUME NEW i \in Job, pc'[i] = "joined" PROVE InFlight(proc[i], source[i])'
  <2>1. CASE i = j
    BY <1>2, <1>4, <2>1 DEF InFlight
  <2>2. CASE i # j
    <3>1. pc[i] = "joined" /\ proc'[i] = proc[i] /\ source'[i] = source[i]
      BY <1>4, <2>2
    <3>2. InFlight(proc[i], source[i]) /\ proc[i] \in Process
      BY <3>1 DEF QueueShape, JobShape, Knows
    <3> QED
      BY <1>2, <3>1, <3>2 DEF InFlight
  <2> QED
    BY <2>1, <2>2
<1> QED
  BY <1>1, <1>3, <1>4 DEF QueueShape, Works

(* The first of a queue works on.                                          *)
LEMMA QueueWorks ==
    ASSUME TypeOK, QueueShape, JobShape, NEW j \in Job, queue' = queue,
           \A i \in Job \ {j} : pc'[i] = pc[i],
           proc' = proc, source' = source, Seated(j), pc'[j] \in Active
    PROVE  QueueShape'
<1>1. ASSUME NEW p \in Process, NEW n \in 1 .. Len(queue[p])
      PROVE  Queued(p, n)'
  <2> DEFINE k == queue[p][n]
  <2>1. k \in Job /\ Len(queue[p]) \in Nat /\ n \in Nat
    BY DEF TypeOK
  <2>2. Queued(p, n)
    BY DEF QueueShape
  <2>3. CASE k = j
    <3>1. queue[p][1] = j /\ proc[j] = p
      BY <2>2, <2>3 DEF Queued, Seated
    <3>2. 1 \in 1 .. (n - 1) => queue[p][1] # k
      BY <2>2 DEF Queued
    <3>3. ~(n > 1)
      BY <2>1, <2>3, <3>1, <3>2
    <3> QED
      BY <2>2, <2>3, <3>1, <3>3 DEF Queued
  <2>4. CASE k # j
    BY <2>1, <2>2, <2>4 DEF Queued
  <2> QED
    BY <2>3, <2>4
<1>2. ASSUME NEW i \in Job, Works(i)' PROVE InQueue(i)'
  <2>1. CASE i = j
    <3>1. 1 \in 1 .. Len(queue[proc[j]])
      BY DEF Seated, TypeOK
    <3> QED
      BY <2>1, <3>1 DEF InQueue, Seated
  <2>2. CASE i # j
    <3>1. Works(i)
      BY <1>2, <2>2 DEF Works
    <3> QED
      BY <3>1 DEF QueueShape, InQueue, Works
  <2> QED
    BY <2>1, <2>2
<1>3. ASSUME NEW i \in Job, pc'[i] = "joined" PROVE InFlight(proc[i], source[i])'
  <2>1. i # j
    BY <1>3 DEF Active
  <2>2. pc[i] = "joined"
    BY <1>3, <2>1
  <2> QED
    BY <2>2 DEF QueueShape, InFlight
<1> QED
  BY <1>1, <1>2, <1>3 DEF QueueShape, Works

(* What follows the first of a queue.                                      *)
LEMMA Shortened ==
    ASSUME NEW S, NEW q \in Seq(S), Len(q) > 0
    PROVE  /\ Tail(q) \in Seq(S) /\ Len(Tail(q)) = Len(q) - 1
           /\ \A n \in 1 .. Len(Tail(q)) : Tail(q)[n] = q[n + 1]
<1>1. q # <<>>
  OBVIOUS
<1> QED
  BY <1>1, HeadTailProperties

(* The first of a queue leaves it, and those that share its promise end.   *)
LEMMA QueueEnds ==
    ASSUME TypeOK, QueueShape, JobShape, NEW j \in Job, Seated(j),
           queue' = [queue EXCEPT ![proc[j]] = Tail(@)],
           proc' = proc, source' = source,
           \A i \in Job : IF Settles(i, j) THEN pc'[i] = "done" ELSE pc'[i] = pc[i]
    PROVE  QueueShape'
<1> DEFINE p == proc[j]
           q == queue[p]
           t == Tail(q)
<1>1. /\ p \in Process /\ q \in Seq(Job) /\ Len(q) > 0 /\ q[1] = j
      /\ Len(q) \in Nat
  BY DEF Seated, TypeOK
<1>2. /\ t \in Seq(Job) /\ Len(t) = Len(q) - 1
      /\ \A n \in 1 .. Len(t) : t[n] = q[n + 1]
  BY <1>1, Shortened
<1>3. queue'[p] = t /\ \A r \in Process \ {p} : queue'[r] = queue[r]
  BY <1>1 DEF TypeOK
<1>4. \A n \in 1 .. Len(q) : Queued(p, n)
  BY <1>1 DEF QueueShape
<1>5. queue[p] = q
  OBVIOUS
<1> HIDE DEF t, q
<1>6. ASSUME NEW n \in 1 .. Len(t) PROVE Queued(p, n)'
  <2> DEFINE k == q[n + 1]
  <2>1. n \in Nat /\ n + 1 \in 1 .. Len(q) /\ 1 \in 1 .. n /\ (n + 1) - 1 = n
        /\ n + 1 > 1
    BY <1>1, <1>2
  <2>2. /\ proc[k] = p /\ pc[k] = "queued"
        /\ \A m \in 1 .. n : q[m] # k
    BY <1>4, <1>5, <2>1 DEF Queued
  <2>3. k # j /\ k \in Job
    BY <1>1, <2>1, <2>2
  <2>4. pc'[k] = "queued"
    BY <2>2, <2>3 DEF Settles, Joined
  <2>5. t[n] = k
    BY <1>2
  <2>6. ASSUME NEW m \in 1 .. (n - 1) PROVE t[m] # k
    <3>1. m \in 1 .. Len(t) /\ m + 1 \in 1 .. n
      BY <1>2, <2>1, <1>1
    <3> QED
      BY <1>2, <2>2, <3>1
  <2> QED
    BY <1>3, <2>2, <2>4, <2>5, <2>6 DEF Queued
<1>7. ASSUME NEW r \in Process \ {p}, NEW n \in 1 .. Len(queue[r])
      PROVE  Queued(r, n)' /\ ~Settles(queue[r][n], j)
  <2> DEFINE k == queue[r][n]
  <2>1. Queued(r, n) /\ k \in Job
    BY DEF QueueShape, TypeOK
  <2>2. k # j /\ pc[k] # "joined"
    BY <2>1 DEF Queued, Active
  <2>3. pc'[k] = pc[k] /\ ~Settles(k, j)
    BY <2>1, <2>2 DEF Settles, Joined
  <2> QED
    BY <1>3, <2>1, <2>3 DEF Queued
<1>8. ASSUME NEW i \in Job, Works(i)' PROVE InQueue(i)'
  <2>1. ~Settles(i, j) /\ pc'[i] = pc[i]
    BY <1>8 DEF Works, Active
  <2>2. Works(i) /\ i # j
    BY <1>8, <2>1 DEF Works, Settles
  <2>3. PICK n \in 1 .. Len(queue[proc[i]]) : queue[proc[i]][n] = i
    BY <2>2 DEF QueueShape, InQueue, Works
  <2>4. proc[i] \in Process
    BY <2>2 DEF JobShape, Knows, Works, Active
  <2>5. CASE proc[i] # p
    BY <1>3, <2>3, <2>4, <2>5 DEF InQueue
  <2>6. CASE proc[i] = p
    <3>1. n # 1 /\ n \in 1 .. Len(q) /\ n \in Nat
      BY <1>1, <1>5, <2>2, <2>3, <2>6
    <3>2. n - 1 \in 1 .. Len(t) /\ (n - 1) + 1 = n
      BY <1>1, <1>2, <3>1
    <3>3. t[n - 1] = i
      BY <1>2, <1>5, <2>3, <2>6, <3>2
    <3> QED
      BY <1>3, <2>6, <3>2, <3>3 DEF InQueue
  <2> QED
    BY <2>5, <2>6
<1>9. ASSUME NEW i \in Job, pc'[i] = "joined" PROVE InFlight(proc[i], source[i])'
  <2>1. ~Settles(i, j) /\ pc[i] = "joined"
    BY <1>9
  <2>2. proc[i] \in Process /\ InFlight(proc[i], source[i])
    BY <2>1 DEF QueueShape, JobShape, Knows
  <2>3. DOMAIN queue[proc[i]] = 1 .. Len(queue[proc[i]])
    BY <2>2 DEF TypeOK
  <2>4. PICK n \in 1 .. Len(queue[proc[i]]) :
          source[queue[proc[i]][n]] = source[i]
    BY <2>2, <2>3 DEF InFlight
  <2>5. DOMAIN queue'[proc[i]] = 1 .. Len(queue'[proc[i]])
    BY <1>2, <1>3, <2>2, <2>3
  <2>6. CASE proc[i] = p
    <3>1. source[i] # source[j]
      BY <2>1, <2>6 DEF Settles, Joined
    <3>2. n # 1 /\ n \in 1 .. Len(q) /\ n \in Nat /\ source[q[n]] = source[i]
      BY <1>1, <1>5, <2>4, <2>6, <3>1
    <3>3. n - 1 \in 1 .. Len(t) /\ (n - 1) + 1 = n
      BY <1>1, <1>2, <3>2
    <3>4. t[n - 1] = q[n]
      BY <1>2, <3>3
    <3>5. PICK m \in 1 .. Len(t) : source[t[m]] = source[i]
      BY <3>2, <3>3, <3>4
    <3>6. DOMAIN t = 1 .. Len(t)
      BY <1>2
    <3>7. queue'[proc[i]] = t
      BY <1>3, <2>6
    <3> QED
      BY <3>5, <3>6, <3>7 DEF InFlight
  <2>7. CASE proc[i] # p
    BY <1>3, <2>2, <2>4, <2>5, <2>7 DEF InFlight
  <2> QED
    BY <2>6, <2>7
<1>10. ASSUME NEW r \in Process, NEW n \in 1 .. Len(queue'[r]) PROVE Queued(r, n)'
  BY <1>3, <1>6, <1>7
<1> QED
  BY <1>8, <1>9, <1>10 DEF QueueShape, Works

(* A job joins the end of its process's queue.                             *)
LEMMA Appended ==
    ASSUME NEW S, NEW q \in Seq(S), NEW e \in S
    PROVE  /\ Append(q, e) \in Seq(S) /\ Len(Append(q, e)) = Len(q) + 1
           /\ \A n \in 1 .. Len(q) : Append(q, e)[n] = q[n]
           /\ Append(q, e)[Len(q) + 1] = e
BY AppendProperties

LEMMA QueueGrows ==
    ASSUME TypeOK, QueueShape, JobShape, NEW j \in Job, proc[j] \in Process,
           queue' = [queue EXCEPT ![proc[j]] = Append(@, j)],
           proc' = proc, source' = source, ~Works(j), pc'[j] = "queued",
           \A i \in Job \ {j} : pc'[i] = pc[i]
    PROVE  QueueShape'
<1> DEFINE p == proc[j]
           q == queue[p]
           t == Append(q, j)
<1>1. q \in Seq(Job) /\ Len(q) \in Nat /\ queue[p] = q /\ p \in Process
  BY DEF TypeOK
<1>2. /\ t \in Seq(Job) /\ Len(t) = Len(q) + 1
      /\ \A n \in 1 .. Len(q) : t[n] = q[n]
      /\ t[Len(q) + 1] = j
  BY <1>1, Appended
<1>3. queue'[p] = t /\ \A r \in Process \ {p} : queue'[r] = queue[r]
  BY <1>1 DEF TypeOK
<1> HIDE DEF t, q
<1>4. ASSUME NEW r \in Process, NEW n \in 1 .. Len(queue[r])
      PROVE  Queued(r, n) /\ queue[r][n] \in Job \ {j}
  <2>1. Queued(r, n) /\ queue[r][n] \in Job
    BY DEF QueueShape, TypeOK
  <2> QED
    BY <2>1 DEF Queued, Works
<1>5. ASSUME NEW r \in Process, NEW n \in 1 .. Len(queue[r])
      PROVE  n \in 1 .. Len(queue'[r]) /\ queue'[r][n] = queue[r][n]
  <2>1. CASE r = p
    BY <1>1, <1>2, <1>3, <2>1
  <2>2. CASE r # p
    BY <1>3, <2>2
  <2> QED
    BY <2>1, <2>2
<1>6. ASSUME NEW r \in Process, NEW n \in 1 .. Len(queue[r]) PROVE Queued(r, n)'
  <2>1. Len(queue[r]) \in Nat /\ n \in Nat
    BY DEF TypeOK
  <2>2. \A m \in 1 .. (n - 1) : m \in 1 .. Len(queue[r])
    BY <2>1
  <2>3. \A m \in 1 .. (n - 1) : queue'[r][m] # queue[r][n]
    BY <1>4, <1>5, <2>2 DEF Queued
  <2> QED
    BY <1>4, <1>5, <2>3 DEF Queued
<1>7. ASSUME NEW n \in 1 .. Len(t), n = Len(q) + 1 PROVE Queued(p, n)'
  <2>1. \A m \in 1 .. (n - 1) : m \in 1 .. Len(q)
    BY <1>1, <1>7
  <2>2. \A m \in 1 .. (n - 1) : t[m] # j
    BY <1>1, <1>2, <1>4, <2>1
  <2> QED
    BY <1>2, <1>3, <1>7, <2>2 DEF Queued
<1>8. ASSUME NEW r \in Process, NEW n \in 1 .. Len(queue'[r]) PROVE Queued(r, n)'
  <2>1. CASE r = p /\ n = Len(q) + 1
    BY <1>3, <1>7, <2>1
  <2>2. CASE ~(r = p /\ n = Len(q) + 1)
    <3>1. n \in 1 .. Len(queue[r])
      BY <1>1, <1>2, <1>3, <2>2
    <3> QED
      BY <1>6, <3>1
  <2> QED
    BY <2>1, <2>2
<1>9. ASSUME NEW i \in Job, Works(i)' PROVE InQueue(i)'
  <2>1. CASE i = j
    <3>1. Len(q) + 1 \in 1 .. Len(t)
      BY <1>1, <1>2
    <3> QED
      BY <1>2, <1>3, <2>1, <3>1 DEF InQueue
  <2>2. CASE i # j
    <3>1. Works(i)
      BY <1>9, <2>2 DEF Works
    <3>2. proc[i] \in Process
      BY <3>1 DEF JobShape, Knows, Works, Active
    <3>3. PICK n \in 1 .. Len(queue[proc[i]]) : queue[proc[i]][n] = i
      BY <3>1 DEF QueueShape, InQueue, Works
    <3> QED
      BY <1>5, <3>2, <3>3 DEF InQueue
  <2> QED
    BY <2>1, <2>2
<1>10. ASSUME NEW i \in Job, pc'[i] = "joined" PROVE InFlight(proc[i], source[i])'
  <2>1. i # j /\ pc[i] = "joined"
    BY <1>10
  <2>2. InFlight(proc[i], source[i]) /\ proc[i] \in Process
    BY <2>1 DEF QueueShape, JobShape, Knows
  <2>3. DOMAIN queue[proc[i]] = 1 .. Len(queue[proc[i]])
    BY <2>2 DEF TypeOK
  <2>4. DOMAIN queue'[proc[i]] = 1 .. Len(queue'[proc[i]])
    <3>1. queue'[proc[i]] = t \/ queue'[proc[i]] = queue[proc[i]]
      BY <1>3, <2>2
    <3> QED
      BY <1>2, <2>3, <3>1
  <2> QED
    BY <1>5, <2>2, <2>3, <2>4 DEF InFlight
<1> QED
  BY <1>8, <1>9, <1>10 DEF QueueShape, Works

(* With a process its queue is gone, and every job of it.                  *)
LEMMA QueueDies ==
    ASSUME TypeOK, QueueShape, JobShape, NEW p \in Process,
           queue' = [queue EXCEPT ![p] = <<>>], proc' = proc, source' = source,
           \A i \in Job : pc'[i] =
               IF proc[i] = p /\ pc[i] \in Waiting \cup Active THEN "dead"
               ELSE pc[i]
    PROVE  QueueShape'
<1>1. queue'[p] = <<>> /\ \A r \in Process \ {p} : queue'[r] = queue[r]
  BY DEF TypeOK
<1>2. ASSUME NEW r \in Process, NEW n \in 1 .. Len(queue'[r]) PROVE Queued(r, n)'
  <2>1. r # p
    BY <1>1
  <2>2. Queued(r, n) /\ queue[r][n] \in Job
    BY <1>1, <2>1 DEF QueueShape, TypeOK
  <2>3. pc'[queue[r][n]] = pc[queue[r][n]]
    BY <2>1, <2>2 DEF Queued
  <2> QED
    BY <1>1, <2>1, <2>2, <2>3 DEF Queued
<1>3. ASSUME NEW i \in Job, Works(i)' \/ pc'[i] = "joined"
      PROVE  pc[i] = pc'[i] /\ proc[i] \in Process \ {p}
  <2>1. pc'[i] # "dead"
    BY <1>3 DEF Works, Active
  <2>2. pc'[i] = pc[i] /\ (proc[i] # p \/ pc[i] \notin Waiting \cup Active)
    BY <2>1
  <2>3. pc[i] \in Waiting \cup Active /\ pc[i] # "idle"
    BY <1>3, <2>2 DEF Works, Waiting, Active
  <2> QED
    BY <2>2, <2>3 DEF JobShape, Knows
<1>4. ASSUME NEW i \in Job, Works(i)' PROVE InQueue(i)'
  <2>1. Works(i) /\ proc[i] \in Process \ {p}
    BY <1>3, <1>4 DEF Works
  <2>2. InQueue(i)
    BY <2>1 DEF QueueShape, Works
  <2> QED
    BY <1>1, <2>1, <2>2 DEF InQueue
<1>5. ASSUME NEW i \in Job, pc'[i] = "joined" PROVE InFlight(proc[i], source[i])'
  <2>1. pc[i] = "joined" /\ proc[i] \in Process \ {p}
    BY <1>3, <1>5
  <2>2. InFlight(proc[i], source[i])
    BY <2>1 DEF QueueShape
  <2> QED
    BY <1>1, <2>1, <2>2 DEF InFlight
<1> QED
  BY <1>2, <1>4, <1>5 DEF QueueShape, Works

-----------------------------------------------------------------------------
(* The other parts of the invariant, for any step.                         *)

(* What the jobs know, when no audit is handed out.                        *)
LEMMA JobKept ==
    ASSUME TypeOK, JobShape, created' \in Nat, created <= created',
           \A i \in Job : Still(i) \/ (Knows(i)' /\ audit'[i] \in {audit[i], 0})
    PROVE  JobShape'
<1>1. ASSUME NEW i \in Job PROVE Knows(i)'
  <2>1. CASE Still(i)
    <3>1. Knows(i) /\ audit[i] \in Nat /\ created \in Nat
      BY PipelineAssumption DEF JobShape, TypeOK
    <3>2. audit'[i] <= created'
      BY <2>1, <3>1 DEF Still, Knows
    <3>3. CASE pc[i] \in Over
      BY <2>1, <3>1, <3>2, <3>3
         DEF Still, Knows, Over, Active, Extracting
    <3>4. CASE pc[i] \notin Over
      BY <2>1, <3>1, <3>2, <3>4 DEF Still, Knows
    <3> QED
      BY <3>3, <3>4
  <2> QED
    BY <2>1
<1>2. \A i \in Job : audit'[i] \in {audit[i], 0}
  BY DEF Still
<1> QED
  BY <1>1, <1>2 DEF JobShape

(* The guard rows, after a transaction that makes m of the memory.         *)
LEMMA GuardKept ==
    ASSUME TypeOK, GuardShape, NEW m \in Memory, NEW kept, Commits(m, kept),
           prompted' \subseteq DOMAIN m.audits \cup forgotten.audits,
           \A i \in Job : pc'[i] \in Guarded =>
               /\ audit'[i] = audit[i] /\ audit[i] # 0
               /\ audit[i] \in DOMAIN m.audits \cup forgotten.audits
               /\ audit[i] \in DOMAIN m.audits
                     => m.audits[audit[i]].state = "pending"
    PROVE  GuardShape'
<1>1. ASSUME NEW i \in Job, pc'[i] \in Guarded PROVE Guarding(i)'
  <2>1. audit'[i] \in DOMAIN memory'.audits \cup forgotten'.audits
    BY <1>1 DEF Commits
  <2>2. audit[i] \in Live
    BY <1>1, PipelineAssumption DEF TypeOK, Live, AuditId
  <2>3. audit[i] \in DOMAIN memory'.audits
          => memory'.audits[audit[i]].state = "pending"
    BY <1>1, <2>2 DEF Commits
  <2> QED
    BY <1>1, <2>1, <2>3 DEF Guarding
<1>2. \A i \in Job : Guarding(i)'
  BY <1>1 DEF Guarding
<1>3. prompted' \subseteq DOMAIN memory'.audits \cup forgotten'.audits
  BY DEF Commits
<1> QED
  BY <1>2, <1>3 DEF GuardShape

(* The merges so far.                                                      *)
LEMMA LogIs ==
    ASSUME TypeOK
    PROVE  /\ DOMAIN log = 1 .. Len(log) /\ Len(log) \in Nat
           /\ \A n \in DOMAIN log : log[n].source \in Source /\ log[n].job \in Job
<1> DEFINE R == [source : Source, job : Job]
<1>1. log \in Seq(R)
  BY DEF TypeOK
<1>2. \A r \in R : r.source \in Source /\ r.job \in Job
  OBVIOUS
<1> HIDE DEF R
<1>3. DOMAIN log = 1 .. Len(log) /\ Len(log) \in Nat /\ \A n \in DOMAIN log : log[n] \in R
  BY <1>1
<1> QED
  BY <1>2, <1>3

(* The ledger, when nothing is merged.                                     *)
LEMMA LedgerKept ==
    ASSUME TypeOK, LedgerShape, LedgerRemembers, NEW m \in Memory,
           Commits(m, 0), m.ledger = memory.ledger, log' = log
    PROVE  LedgerShape' /\ LedgerRemembers'
<1>1. m.ledger \in Seq(Source) /\ Len(m.ledger) \in Nat
  BY DEF Memory
<1>2. PICK n \in 0 .. Len(m.ledger) :
        memory'.ledger = LastOf(m.ledger, n) /\ (~Pressure => n = Len(m.ledger))
  BY DEF Commits
<1>3. /\ memory'.ledger \in Seq(Source)
      /\ Len(memory'.ledger) = n
      /\ \A i \in 1 .. n :
            memory'.ledger[i] = m.ledger[Len(m.ledger) - n + i]
  <2> DEFINE t == LastOf(m.ledger, n)
  <2>1. /\ t \in Seq(Source)
        /\ Len(t) = IF Len(m.ledger) > n THEN n ELSE Len(m.ledger)
        /\ \A i \in 1 .. Len(t) : t[i] = m.ledger[Len(m.ledger) - Len(t) + i]
    BY <1>1, <1>2, Lasts
  <2>2. memory'.ledger = t
    BY <1>2
  <2> HIDE DEF t
  <2>3. Len(t) = n
    BY <1>1, <1>2, <2>1
  <2> QED
    BY <2>1, <2>2, <2>3
<1>4. Range(memory'.ledger) \subseteq Range(m.ledger)
  <2>1. \A i \in 1 .. n : Len(m.ledger) - n + i \in 1 .. Len(m.ledger)
    BY <1>1, <1>2
  <2>2. DOMAIN m.ledger = 1 .. Len(m.ledger) /\ DOMAIN memory'.ledger = 1 .. n
    BY <1>1, <1>3
  <2>3. ASSUME NEW i \in 1 .. n PROVE memory'.ledger[i] \in Range(m.ledger)
    BY <1>3, <2>1, <2>2 DEF Range
  <2> QED
    BY <2>2, <2>3 DEF Range
<1>5. ~Pressure => memory'.ledger = memory.ledger
  BY <1>1, <1>2, LastAll
<1>6. Merged' = Merged
  BY DEF Merged
<1> QED
  BY <1>4, <1>5, <1>6 DEF LedgerShape, LedgerIsTail, LedgerRemembers, Commits

(* What the host's answers say, when nothing is merged.                    *)
Answers(i) ==
    \/ pc[i] # "done" /\ pc'[i] # "done" /\ outcome'[i] = "none"
    \/ /\ pc[i] # "done" /\ pc'[i] = "done" /\ source'[i] = source[i]
       /\ outcome'[i] # "llm-success"
       /\ outcome'[i] = "cache-hit" => source[i] \in Merged

LEMMA OutcomeKept ==
    ASSUME TypeOK, OutcomeShape, log' = log,
           \A i \in Job : Still(i) \/ Answers(i)
    PROVE  OutcomeShape'
<1>1. Merged' = Merged
  BY DEF Merged
<1>2. ASSUME NEW i \in Job
      PROVE  /\ pc'[i] # "done" => outcome'[i] = "none"
             /\ outcome'[i] \in {"llm-success", "cache-hit"} => source'[i] \in Merged
  BY DEF OutcomeShape, Still, Answers
<1>3. ASSUME NEW n \in DOMAIN log
      PROVE  pc'[log[n].job] = "done" /\ outcome'[log[n].job] = "llm-success"
  <2>1. log[n].job \in Job
    BY LogIs
  <2> QED
    BY <2>1 DEF OutcomeShape, Still, Answers
<1> QED
  BY <1>1, <1>2, <1>3 DEF OutcomeShape

(* The ledger after a merge.                                               *)
LEMMA LedgerGrows ==
    ASSUME TypeOK, LedgerShape, LedgerRemembers, NEW j \in Job, NEW v \in Source,
           v \notin Range(memory.ledger), NEW m \in Memory, Commits(m, 1),
           m.ledger = BoundedLedger(Append(memory.ledger, v)),
           log' = Append(log, [source |-> v, job |-> j])
    PROVE  LedgerShape' /\ LedgerRemembers' /\ Merged' = Merged \cup {v}
<1> DEFINE l == memory.ledger
           K == Len(l)
           a == Append(l, v)
           b == LastOf(a, LedgerCap)
           B == Len(b)
           N == Len(log)
           r == memory'.ledger
<1>1. l \in Seq(Source) /\ K \in Nat /\ LedgerCap \in Nat \ {0} /\ DOMAIN l = 1 .. K
  BY PipelineAssumption DEF TypeOK, Memory
<1>2. /\ a \in Seq(Source) /\ Len(a) = K + 1
      /\ \A n \in 1 .. K : a[n] = l[n]
      /\ a[K + 1] = v
  BY <1>1, Appended
<1> HIDE DEF a
<1>3. /\ b \in Seq(Source) /\ B \in Nat
      /\ B = IF K + 1 > LedgerCap THEN LedgerCap ELSE K + 1
      /\ \A i \in 1 .. B : b[i] = a[K + 1 - B + i]
  <2>1. /\ b \in Seq(Source)
        /\ B = IF Len(a) > LedgerCap THEN LedgerCap ELSE Len(a)
        /\ \A i \in 1 .. B : b[i] = a[Len(a) - B + i]
    BY <1>1, <1>2, Lasts
  <2>2. B \in Nat
    BY <2>1
  <2>3. Len(a) = K + 1 /\ K \in Nat
    BY <1>1, <1>2
  <2> HIDE DEF b, B, K
  <2> QED
    BY <2>1, <2>2, <2>3
<1>4. m.ledger = b
  BY DEF BoundedLedger, a
<1> HIDE DEF b
<1>5. PICK n \in 1 .. B : r = LastOf(b, n) /\ (~Pressure => n = B)
  BY <1>4 DEF Commits
<1>6. B >= 1 /\ B <= K + 1 /\ n \in Nat /\ n >= 1 /\ n <= B
  BY <1>1, <1>3, <1>5
<1>7. /\ r \in Seq(Source) /\ Len(r) = n
      /\ \A i \in 1 .. n : r[i] = b[B - n + i]
  <2> DEFINE t == LastOf(b, n)
  <2>1. /\ t \in Seq(Source) /\ Len(t) = IF B > n THEN n ELSE B
        /\ \A i \in 1 .. Len(t) : t[i] = b[B - Len(t) + i]
    BY <1>3, <1>6, Lasts
  <2>2. r = t
    BY <1>5
  <2> HIDE DEF t
  <2>3. Len(t) = n
    BY <1>3, <1>6, <2>1
  <2> QED
    BY <2>1, <2>2, <2>3
<1> HIDE DEF r, B, K, l
<1>8. ASSUME NEW i \in 1 .. n
      PROVE  /\ r[i] = a[K + 1 - n + i]
             /\ K + 1 - n + i \in 1 .. (K + 1)
  <2>1. B - n + i \in 1 .. B
    BY <1>3, <1>6
  <2>2. r[i] = a[K + 1 - B + (B - n + i)]
    BY <1>3, <1>7, <2>1
  <2>3. K + 1 - B + (B - n + i) = K + 1 - n + i
    BY <1>1, <1>3, <1>6
  <2>4. K + 1 - n + i \in 1 .. (K + 1)
    <3>1. K \in Nat /\ i \in Nat /\ n \in Nat /\ 1 <= i /\ i <= n
      BY <1>1, <1>6
    <3>2. n <= K + 1
      BY <1>1, <1>3, <1>6
    <3> QED
      BY <3>1, <3>2
  <2> QED
    BY <2>2, <2>3, <2>4
<1>9. \A i \in 1 .. (K + 1) : a[i] \in Range(l) \cup {v}
  <2>1. \A i \in 1 .. K : a[i] \in Range(l)
    BY <1>1, <1>2 DEF Range
  <2> QED
    BY <1>1, <1>2, <2>1
<1>10. DOMAIN r = 1 .. n
  BY <1>7
<1>11. Range(r) \subseteq Range(l) \cup {v} /\ v \in Range(r)
  <2>1. \A i \in DOMAIN r : r[i] \in Range(l) \cup {v}
    BY <1>8, <1>9, <1>10
  <2>2. n \in 1 .. n /\ K + 1 - n + n = K + 1
    BY <1>1, <1>6
  <2>3. r[n] = v
    BY <1>2, <1>8, <2>2
  <2> QED
    BY <1>10, <2>1, <2>2, <2>3 DEF Range
<1>12. /\ DOMAIN log = 1 .. N /\ N \in Nat
       /\ \A k \in 1 .. N : log[k].source \in Source
  BY LogIs
<1>13. /\ DOMAIN log' = 1 .. (N + 1) /\ Len(log') = N + 1
       /\ \A k \in 1 .. N : log'[k] = log[k]
       /\ log'[N + 1].source = v
  <2> DEFINE R == [source : Source, job : Job]
             e == [source |-> v, job |-> j]
  <2>1. log \in Seq(R) /\ e \in R /\ e.source = v
    BY DEF TypeOK
  <2> HIDE DEF R, e
  <2>2. log' = Append(log, e)
    BY DEF e
  <2> QED
    BY <2>1, <2>2, Appended
<1> HIDE DEF N
<1>14. N + 1 \in 1 .. (N + 1) /\ \A k \in 1 .. (N + 1) : k = N + 1 \/ k \in 1 .. N
  BY <1>12
<1>15. Merged' = Merged \cup {v}
  <2>1. Merged = {log[k].source : k \in 1 .. N}
    BY <1>12 DEF Merged
  <2>2. Merged' = {log'[k].source : k \in 1 .. (N + 1)}
    BY <1>13 DEF Merged
  <2>3. \A k \in 1 .. N : log'[k].source = log[k].source /\ k \in 1 .. (N + 1)
    BY <1>12, <1>13
  <2> QED
    BY <1>13, <1>14, <2>1, <2>2, <2>3
<1>16. Range(r) \subseteq Merged' /\ Merged' \subseteq Range(r) \cup forgotten'.sources
  BY <1>11, <1>15 DEF LedgerShape, Commits, l, r
<1>17. ASSUME ~Pressure PROVE LedgerIsTail'
  <2>1. /\ K = IF N < LedgerCap THEN N ELSE LedgerCap
        /\ \A i \in 1 .. K : l[i] = log[N - K + i].source
    BY <1>17 DEF LedgerShape, LedgerIsTail, K, l, N
  <2>2. n = B
    BY <1>5, <1>17
  <2>3. n = IF N + 1 < LedgerCap THEN N + 1 ELSE LedgerCap
    BY <1>1, <1>3, <1>12, <2>1, <2>2
  <2>4. ASSUME NEW i \in 1 .. n PROVE r[i] = log'[N + 1 - n + i].source
    <3> DEFINE k == K + 1 - n + i
    <3>1. r[i] = a[k] /\ k \in 1 .. (K + 1)
      BY <1>8
    <3>2. CASE k = K + 1
      <4>1. N + 1 - n + i = N + 1
        BY <1>1, <1>6, <1>12, <3>2
      <4> QED
        BY <1>2, <1>13, <3>1, <3>2, <4>1
    <3>3. CASE k # K + 1
      <4>1. k \in 1 .. K
        BY <1>1, <3>1, <3>3
      <4>2. r[i] = log[N - K + k].source
        BY <1>2, <2>1, <3>1, <4>1
      <4>3. N - K + k = N + 1 - n + i
        BY <1>1, <1>6, <1>12
      <4>4. N - K + k \in 1 .. N
        BY <1>1, <1>12, <2>1, <4>1
      <4> QED
        BY <1>13, <4>2, <4>3, <4>4
    <3> QED
      BY <3>2, <3>3
  <2> QED
    <3>1. memory'.ledger = r
      BY DEF r
    <3>2. Len(memory'.ledger) = IF Len(log') < LedgerCap THEN Len(log') ELSE LedgerCap
      BY <1>7, <1>13, <2>3, <3>1
    <3>3. \A i \in 1 .. Len(memory'.ledger) :
             memory'.ledger[i] = log'[Len(log') - Len(memory'.ledger) + i].source
      <4>1. Len(memory'.ledger) = n /\ Len(log') = N + 1 /\ n \in Nat /\ N \in Nat
        BY <1>6, <1>7, <1>12, <1>13, <3>1
      <4>2. ASSUME NEW i \in 1 .. n
            PROVE  r[i] = log'[Len(log') - Len(memory'.ledger) + i].source
        <5>1. Len(log') - Len(memory'.ledger) + i = N + 1 - n + i
          BY <4>1
        <5> QED
          BY <2>4, <5>1
      <4> QED
        BY <3>1, <4>1, <4>2
    <3> QED
      BY <3>2, <3>3 DEF LedgerIsTail
<1>18. ASSUME ~Pressure, NEW i \in 1 .. N, log[i].source = v
       PROVE  N + 1 - i > LedgerCap
  <2>1. /\ K = IF N < LedgerCap THEN N ELSE LedgerCap
        /\ \A k \in 1 .. K : l[k] = log[N - K + k].source
    BY <1>18 DEF LedgerShape, LedgerIsTail, K, l, N
  <2>2. ASSUME i > N - K PROVE FALSE
    <3>1. i - (N - K) \in 1 .. K /\ N - K + (i - (N - K)) = i
      BY <1>1, <1>12, <2>2
    <3>2. l[i - (N - K)] = v
      BY <1>18, <2>1, <3>1
    <3>3. v \in Range(l)
      BY <1>1, <3>1, <3>2 DEF Range
    <3> QED
      BY <3>3 DEF l
  <2>3. i <= N - K
    BY <1>1, <1>12, <2>2
  <2>4. K = LedgerCap
    BY <1>1, <1>12, <2>1, <2>3
  <2> QED
    BY <1>1, <1>12, <2>3, <2>4
<1>19. LedgerRemembers'
  <2> SUFFICES ASSUME ~Pressure, NEW i \in 1 .. (N + 1), NEW k \in 1 .. (N + 1),
                      i < k, log'[i].source = log'[k].source
               PROVE  k - i > LedgerCap
    BY <1>13 DEF LedgerRemembers
  <2>1. i \in 1 .. N
    <3>1. N \in Nat
      BY <1>12
    <3> QED
      BY <3>1
  <2>2. CASE k = N + 1
    <3>1. log[i].source = v
      BY <1>13, <2>1, <2>2
    <3>2. N + 1 - i > LedgerCap
      BY <1>18, <2>1, <3>1
    <3>3. N \in Nat /\ LedgerCap \in Nat
      BY <1>1, <1>12
    <3> QED
      BY <2>2, <3>2, <3>3
  <2>3. CASE k \in 1 .. N
    BY <1>12, <1>13, <2>1, <2>3 DEF LedgerRemembers
  <2> QED
    BY <1>14, <2>2, <2>3
<1> QED
  BY <1>15, <1>16, <1>17, <1>19 DEF LedgerShape, r

(* The answers after a merge.                                              *)
LEMMA OutcomeMerged ==
    ASSUME TypeOK, OutcomeShape, NEW j \in Job, pc[j] # "done",
           NEW v \in Source, log' = Append(log, [source |-> v, job |-> j]),
           Merged' = Merged \cup {v},
           \A i \in Job :
               \/ Still(i) /\ i # j
               \/ /\ pc[i] # "done" /\ pc'[i] = "done" /\ source'[i] = v
                  /\ outcome'[i] = "llm-success"
    PROVE  OutcomeShape'
<1>1. ASSUME NEW i \in Job
      PROVE  /\ pc'[i] # "done" => outcome'[i] = "none"
             /\ outcome'[i] \in {"llm-success", "cache-hit"} => source'[i] \in Merged'
  BY DEF OutcomeShape, Still
<1>2. ASSUME NEW i \in Job, pc[i] = "done", outcome[i] = "llm-success"
      PROVE  pc'[i] = "done" /\ outcome'[i] = "llm-success"
  BY <1>2 DEF Still
<1>3. ASSUME NEW n \in DOMAIN log'
      PROVE  pc'[log'[n].job] = "done" /\ outcome'[log'[n].job] = "llm-success"
  <2> DEFINE R == [source : Source, job : Job]
             e == [source |-> v, job |-> j]
             N == Len(log)
  <2>1. log \in Seq(R) /\ e \in R /\ e.job = j
    BY DEF TypeOK
  <2> HIDE DEF R, e
  <2>2. log' = Append(log, e)
    BY DEF e
  <2>3. /\ DOMAIN log' = 1 .. (N + 1) /\ DOMAIN log = 1 .. N /\ N \in Nat
        /\ \A k \in 1 .. N : log'[k] = log[k]
        /\ log'[N + 1].job = j
    BY <2>1, <2>2, Appended, LogIs
  <2>4. CASE n = N + 1
    BY <2>3, <2>4 DEF Still
  <2>5. CASE n # N + 1
    <3>1. n \in DOMAIN log /\ log'[n] = log[n]
      BY <2>3, <2>5
    <3>2. log[n].job \in Job
      BY <3>1, LogIs
    <3> QED
      BY <1>2, <3>1, <3>2 DEF OutcomeShape
  <2> QED
    BY <2>4, <2>5
<1> QED
  BY <1>1, <1>3 DEF OutcomeShape

-----------------------------------------------------------------------------
(* The steps of a job that works.                                          *)

(* The job goes on and the others stay.                                    *)
LEMMA Gone ==
    ASSUME TypeOK, NEW j \in Job, NEW from \in PC \ Over, NEW to \in PC \ Over,
           Goto(j, from, to), Unchanged
    PROVE  /\ pc[j] = from /\ pc'[j] = to /\ audit'[j] = audit[j]
           /\ attempt'[j] = attempt[j] /\ verdict'[j] = verdict[j]
           /\ \A i \in Job \ {j} : Still(i)
           /\ pc' \in [Job -> PC] /\ audit' \in [Job -> 0 .. MaxAudits]
           /\ attempt' \in [Job -> 0 .. 2]
           /\ verdict' \in [Job -> {"none", "success", "failed"}]
<1>1. /\ pc[j] = from /\ pc'[j] = to /\ pc' \in [Job -> PC]
      /\ \A i \in Job \ {j} : pc'[i] = pc[i]
  BY DEF Goto, TypeOK
<1>2. ASSUME NEW i \in Job
      PROVE  /\ audit'[i] = IF pc'[i] \in Over THEN 0 ELSE audit[i]
             /\ attempt'[i] = IF pc'[i] \in Over THEN 0 ELSE attempt[i]
             /\ verdict'[i] = IF pc'[i] \in Over THEN "none" ELSE verdict[i]
  BY DEF Unchanged
<1>3. \A i \in Job \ {j} : Still(i)
  BY <1>1, <1>2 DEF Still, Unchanged, Goto
<1>4. 0 \in 0 .. MaxAudits /\ 0 \in 0 .. 2
  BY PipelineAssumption
<1>5. /\ audit' \in [Job -> 0 .. MaxAudits] /\ attempt' \in [Job -> 0 .. 2]
      /\ verdict' \in [Job -> {"none", "success", "failed"}]
  BY <1>4 DEF TypeOK, Unchanged
<1> QED
  BY <1>1, <1>2, <1>3, <1>5

(* The job is over, and so are those that share its promise.               *)
LEMMA Finished ==
    ASSUME TypeOK, NEW j \in Job, NEW o \in Outcome, Finish(j, o), Unchanged
    PROVE  /\ \A i \in Job : Settles(i, j) => Ended(i, o)
           /\ \A i \in Job : ~Settles(i, j) => Still(i) /\ pc'[i] = pc[i]
           /\ queue' = [queue EXCEPT ![proc[j]] = Tail(@)]
           /\ pc' \in [Job -> PC] /\ outcome' \in [Job -> Outcome]
           /\ audit' \in [Job -> 0 .. MaxAudits] /\ attempt' \in [Job -> 0 .. 2]
           /\ verdict' \in [Job -> {"none", "success", "failed"}]
<1>1. ASSUME NEW i \in Job
      PROVE  /\ pc'[i] = IF Settles(i, j) THEN "done" ELSE pc[i]
             /\ outcome'[i] = IF Settles(i, j) THEN o ELSE outcome[i]
  BY DEF Finish, Settles
<1>2. ASSUME NEW i \in Job
      PROVE  /\ audit'[i] = IF pc'[i] \in Over THEN 0 ELSE audit[i]
             /\ attempt'[i] = IF pc'[i] \in Over THEN 0 ELSE attempt[i]
             /\ verdict'[i] = IF pc'[i] \in Over THEN "none" ELSE verdict[i]
  BY DEF Unchanged
<1>3. \A i \in Job : ~Settles(i, j) => Still(i) /\ pc'[i] = pc[i]
  BY <1>1, <1>2 DEF Still, Unchanged
<1>4. \A i \in Job : Settles(i, j) => Ended(i, o)
  BY <1>1, <1>2 DEF Ended, Unchanged
<1>5. 0 \in 0 .. MaxAudits /\ 0 \in 0 .. 2
  BY PipelineAssumption
<1>6. /\ audit' \in [Job -> 0 .. MaxAudits] /\ attempt' \in [Job -> 0 .. 2]
      /\ verdict' \in [Job -> {"none", "success", "failed"}]
  BY <1>5 DEF TypeOK, Unchanged
<1>7. pc' \in [Job -> PC] /\ outcome' \in [Job -> Outcome]
  BY DEF Finish, TypeOK, PC, Over
<1> QED
  BY <1>3, <1>4, <1>6, <1>7 DEF Finish

(* A transaction, or none, on the way of a job.                            *)
LEMMA Worked ==
    ASSUME TypeOK, IInv, NEW j \in Job,
           NEW from \in {"queued"} \cup Active, NEW to \in Active \ {"guard"},
           Goto(j, from, to), from # "queued" \/ Head(queue[proc[j]]) = j,
           Unchanged, log' = log, Mishaps,
           NEW m \in Memory, Commits(m, 0), m.ledger = memory.ledger,
           DOMAIN memory.audits \subseteq DOMAIN m.audits,
           \A a \in DOMAIN m.audits : a = audit[j]
               \/ (a \in DOMAIN memory.audits /\ m.audits[a] = memory.audits[a]),
           to \in Extracting => from \in Extracting,
           to = "prompt" => from = "guard",
           to \in {"settle", "health"} => from \in {"settle", "health"},
           to \in Guarded => audit[j] \in DOMAIN m.audits
                             /\ m.audits[audit[j]].state = "pending"
    PROVE  TypeOK' /\ IInv'
<1>1. from \in PC \ Over /\ to \in PC \ Over
  BY DEF PC, Over, Active, Waiting
<1>2. /\ pc[j] = from /\ pc'[j] = to /\ audit'[j] = audit[j]
      /\ attempt'[j] = attempt[j] /\ verdict'[j] = verdict[j]
      /\ \A i \in Job \ {j} : Still(i)
      /\ pc' \in [Job -> PC] /\ audit' \in [Job -> 0 .. MaxAudits]
      /\ attempt' \in [Job -> 0 .. 2]
      /\ verdict' \in [Job -> {"none", "success", "failed"}]
  BY <1>1, Gone
<1>3. /\ queue' = queue /\ outcome' = outcome /\ proc' = proc
      /\ session' = session /\ source' = source
      /\ UNCHANGED <<hostVars, retained>>
  BY DEF Goto, Unchanged
<1>4. /\ memory' \in Memory
      /\ forgotten' \in [audits : SUBSET AuditId, sources : SUBSET Source]
  BY DEF Commits
<1>5. TypeOK'
  BY <1>2, <1>3, <1>4 DEF TypeOK, hostVars, Mishaps
<1>6. Knows(j) /\ Works(j) /\ proc[j] \in Process
  BY <1>2 DEF IInv, JobShape, Knows, Works, Active
<1>7. QueueShape'
  <2>1. Seated(j)
    BY <1>2, <1>6, Heads DEF IInv
  <2>2. \A i \in Job \ {j} : pc'[i] = pc[i]
    BY <1>2 DEF Still
  <2>3. pc'[j] \in Active
    BY <1>2
  <2> QED
    BY <1>3, <2>1, <2>2, <2>3, QueueWorks DEF IInv
<1>8. JobShape'
  <2>1. Knows(j)'
    BY <1>2, <1>3, <1>6 DEF Knows, Works, hostVars, Active, Extracting
  <2>2. created' \in Nat /\ created <= created'
    <3>1. created' = created
      BY <1>3 DEF hostVars
    <3>2. created \in Nat
      BY PipelineAssumption DEF TypeOK
    <3> QED
      BY <3>1, <3>2
  <2> QED
    BY <1>2, <2>1, <2>2, JobKept DEF IInv
<1>9. GuardShape'
  <2>1. ASSUME NEW i \in Job, pc'[i] \in Guarded
        PROVE  /\ audit'[i] = audit[i] /\ audit[i] # 0
               /\ audit[i] \in DOMAIN m.audits \cup forgotten.audits
               /\ audit[i] \in DOMAIN m.audits
                     => m.audits[audit[i]].state = "pending"
    <3>1. CASE i = j
      <4>1. from \in Extracting
        BY <1>2, <2>1, <3>1 DEF Guarded, Extracting
      <4> QED
        BY <1>2, <1>6, <2>1, <3>1, <4>1 DEF Knows
    <3>2. CASE i # j
      <4>1. pc[i] \in Guarded /\ audit'[i] = audit[i]
        BY <1>2, <2>1, <3>2 DEF Still, Guarded, Over
      <4>2. Knows(i) /\ Guarding(i)
        BY DEF IInv, JobShape, GuardShape
      <4>3. audit[i] # 0
        BY <4>1, <4>2 DEF Knows, Guarded, Extracting
      <4>4. audit[i] # audit[j]
        BY <3>2, <4>3 DEF IInv, JobShape
      <4> QED
        BY <4>1, <4>2, <4>3, <4>4 DEF Guarding
    <3> QED
      BY <3>1, <3>2
  <2>2. prompted' \subseteq DOMAIN m.audits \cup forgotten.audits
    BY <1>3 DEF hostVars, IInv, GuardShape
  <2> QED
    BY <2>1, <2>2, GuardKept DEF IInv
<1>10. LedgerShape' /\ LedgerRemembers'
  BY LedgerKept DEF IInv
<1>11. OutcomeShape'
  <2>1. pc[j] # "done" /\ pc'[j] # "done" /\ outcome'[j] = "none"
    BY <1>1, <1>2, <1>3 DEF Over, IInv, OutcomeShape
  <2> QED
    BY <1>2, <2>1, OutcomeKept DEF IInv, Answers
<1>12. DurablyGuarded'
  BY <1>3 DEF IInv, DurablyGuarded, Commits, Mishaps
<1> QED
  BY <1>5, <1>7, <1>8, <1>9, <1>10, <1>11, <1>12 DEF IInv

(* The end of a job, and of those that share its promise, without a merge. *)
LEMMA Ends ==
    ASSUME TypeOK, IInv, NEW j \in Job,
           NEW o \in Outcome \ {"none", "llm-success"}, Finish(j, o), Works(j),
           pc[j] \in Active \/ Head(queue[proc[j]]) = j,
           Unchanged, log' = log, Mishaps,
           NEW m \in Memory, Commits(m, 0),
           m.ledger = memory.ledger, m.audits = memory.audits,
           o = "cache-hit" => source[j] \in Merged
    PROVE  TypeOK' /\ IInv'
<1>1. /\ \A i \in Job : Settles(i, j) => Ended(i, o)
      /\ \A i \in Job : ~Settles(i, j) => Still(i) /\ pc'[i] = pc[i]
      /\ queue' = [queue EXCEPT ![proc[j]] = Tail(@)]
      /\ pc' \in [Job -> PC] /\ outcome' \in [Job -> Outcome]
      /\ audit' \in [Job -> 0 .. MaxAudits] /\ attempt' \in [Job -> 0 .. 2]
      /\ verdict' \in [Job -> {"none", "success", "failed"}]
  BY Finished
<1>2. proc' = proc /\ session' = session /\ source' = source
      /\ UNCHANGED <<hostVars, retained>>
  BY DEF Unchanged
<1>3. Knows(j) /\ proc[j] \in Process /\ source[j] \in Source
  BY DEF IInv, JobShape, Knows, Works, Active
<1>4. Seated(j)
  BY <1>3, Heads DEF IInv
<1>5. queue' \in [Process -> Seq(Job)]
  <2>1. queue[proc[j]] \in Seq(Job) /\ Len(queue[proc[j]]) > 0
    BY <1>4 DEF Seated, TypeOK
  <2>2. Tail(queue[proc[j]]) \in Seq(Job)
    BY <2>1, Shortened
  <2> QED
    BY <1>1, <2>2 DEF TypeOK
<1>6. TypeOK'
  BY <1>1, <1>2, <1>5 DEF TypeOK, hostVars, Commits, Mishaps
<1>7. QueueShape'
  <2>1. \A i \in Job : IF Settles(i, j) THEN pc'[i] = "done" ELSE pc'[i] = pc[i]
    BY <1>1 DEF Ended
  <2> QED
    BY <1>1, <1>2, <1>4, <2>1, QueueEnds DEF IInv
<1>8. JobShape'
  <2>1. created' \in Nat /\ created <= created'
    <3>1. created' = created
      BY <1>2 DEF hostVars
    <3>2. created \in Nat
      BY PipelineAssumption DEF TypeOK
    <3> QED
      BY <3>1, <3>2
  <2>2. ASSUME NEW i \in Job, Settles(i, j)
        PROVE  Knows(i)' /\ audit'[i] \in {audit[i], 0}
    <3>1. Knows(i) /\ pc[i] # "idle"
      BY <2>2 DEF IInv, JobShape, Settles, Joined, Works, Active
    <3>2. /\ pc'[i] = "done" /\ proc'[i] = proc[i] /\ session'[i] = session[i]
          /\ audit'[i] \in {audit[i], 0}
      BY <1>1, <2>2 DEF Ended
    <3>3. audit'[i] <= created'
      <4>1. audit[i] \in Nat /\ audit[i] <= created /\ created' = created
            /\ created \in Nat
        BY <1>2, <3>1, PipelineAssumption DEF Knows, TypeOK, hostVars
      <4> QED
        BY <3>2, <4>1
    <3> QED
      BY <3>1, <3>2, <3>3 DEF Knows, Active, Extracting
  <2> QED
    BY <1>1, <2>1, <2>2, JobKept DEF IInv
<1>9. GuardShape'
  <2>1. ASSUME NEW i \in Job, pc'[i] \in Guarded
        PROVE  /\ audit'[i] = audit[i] /\ audit[i] # 0
               /\ audit[i] \in DOMAIN m.audits \cup forgotten.audits
               /\ audit[i] \in DOMAIN m.audits
                     => m.audits[audit[i]].state = "pending"
    <3>1. ~Settles(i, j)
      BY <1>1, <2>1 DEF Ended, Guarded
    <3>2. pc[i] \in Guarded /\ audit'[i] = audit[i]
      BY <1>1, <2>1, <3>1 DEF Still, Guarded, Over
    <3>3. Knows(i) /\ Guarding(i)
      BY DEF IInv, JobShape, GuardShape
    <3> QED
      BY <3>2, <3>3 DEF Knows, Guarding, Guarded, Extracting
  <2>2. prompted' \subseteq DOMAIN m.audits \cup forgotten.audits
    BY <1>2 DEF hostVars, IInv, GuardShape
  <2> QED
    BY <2>1, <2>2, GuardKept DEF IInv
<1>10. LedgerShape' /\ LedgerRemembers'
  BY LedgerKept DEF IInv
<1>11. OutcomeShape'
  <2>1. ASSUME NEW i \in Job PROVE Still(i) \/ Answers(i)
    <3>1. CASE Settles(i, j)
      <4>1. pc[i] # "done" /\ source[i] = source[j]
        BY <3>1 DEF Settles, Joined, Works, Active
      <4> QED
        BY <1>1, <3>1, <4>1 DEF Ended, Answers
    <3>2. CASE ~Settles(i, j)
      BY <1>1, <3>2
    <3> QED
      BY <3>1, <3>2
  <2> QED
    BY <2>1, OutcomeKept DEF IInv
<1>12. DurablyGuarded'
  BY <1>2 DEF IInv, DurablyGuarded, Commits, Mishaps
<1> QED
  BY <1>6, <1>7, <1>8, <1>9, <1>10, <1>11, <1>12 DEF IInv

(* The ledger that a merge asks for.                                       *)
LEMMA MergedLedger ==
    ASSUME NEW l \in Seq(Source), NEW v \in Source
    PROVE  LET b == BoundedLedger(Append(l, v)) IN
           b \in Seq(Source) /\ Len(b) >= 1 /\ 1 \in 0 .. Len(b)
<1> DEFINE a == Append(l, v)
           t == LastOf(a, LedgerCap)
<1>1. Len(l) \in Nat /\ a \in Seq(Source) /\ Len(a) = Len(l) + 1
  BY Appended
<1>2. LedgerCap \in Nat /\ LedgerCap >= 1
  BY PipelineAssumption
<1> HIDE DEF a
<1>3. t \in Seq(Source)
      /\ Len(t) = IF Len(a) > LedgerCap THEN LedgerCap ELSE Len(a)
  BY <1>1, <1>2, Lasts
<1>4. BoundedLedger(Append(l, v)) = t
  BY DEF BoundedLedger, a
<1> HIDE DEF t
<1>5. Len(a) >= 1 /\ Len(a) \in Nat
  BY <1>1
<1>6. Len(t) \in Nat /\ Len(t) >= 1
  BY <1>2, <1>3, <1>5
<1> QED
  BY <1>3, <1>4, <1>6

(* The end of a job that merges.                                           *)
LEMMA Merges ==
    ASSUME TypeOK, IInv, NEW j \in Job, FinalMerge(j)
    PROVE  TypeOK' /\ IInv'
<1> DEFINE v == source[j]
           b == BoundedLedger(Append(memory.ledger, v))
           m == [memory EXCEPT !.ledger = b]
<1>1. /\ pc[j] = "merge" /\ v \notin Range(memory.ledger)
      /\ Finish(j, "llm-success") /\ Commit(m, 1) /\ Unchanged /\ Sound
      /\ log' = Append(log, [source |-> v, job |-> j])
  BY DEF FinalMerge, AlreadyMerged, IsProcessed
<1>2. "llm-success" \in Outcome /\ Works(j) /\ pc[j] \in Active
  BY <1>1 DEF Outcome, Works, Active
<1>3. /\ \A i \in Job : Settles(i, j) => Ended(i, "llm-success")
      /\ \A i \in Job : ~Settles(i, j) => Still(i) /\ pc'[i] = pc[i]
      /\ queue' = [queue EXCEPT ![proc[j]] = Tail(@)]
      /\ pc' \in [Job -> PC] /\ outcome' \in [Job -> Outcome]
      /\ audit' \in [Job -> 0 .. MaxAudits] /\ attempt' \in [Job -> 0 .. 2]
      /\ verdict' \in [Job -> {"none", "success", "failed"}]
  BY <1>1, <1>2, Finished
<1>4. proc' = proc /\ session' = session /\ source' = source
      /\ UNCHANGED <<hostVars, retained>>
  BY <1>1 DEF Unchanged
<1>5. Knows(j) /\ proc[j] \in Process /\ v \in Source
  BY <1>1 DEF IInv, JobShape, Knows, Active
<1>6. Seated(j)
  BY <1>2, <1>5, Heads DEF IInv
<1>7. b \in Seq(Source) /\ Len(b) >= 1
  <2>1. memory.ledger \in Seq(Source)
    BY DEF TypeOK, Memory
  <2> QED
    BY <1>5, <2>1, MergedLedger
<1> HIDE DEF b
<1>8. m \in Memory /\ m.ledger = b /\ m.audits = memory.audits
  BY <1>7 DEF TypeOK, Memory
<1>9. 1 \in 0 .. Len(m.ledger) /\ DOMAIN memory.audits \subseteq DOMAIN m.audits
  BY <1>7, <1>8
<1> HIDE DEF m
<1>10. Commits(m, 1)
  BY <1>1, <1>8, <1>9, Committed
<1>11. LedgerShape' /\ LedgerRemembers' /\ Merged' = Merged \cup {v}
  <2>1. m.ledger = BoundedLedger(Append(memory.ledger, v))
    BY <1>8 DEF b
  <2> HIDE DEF v
  <2> QED
    BY <1>1, <1>5, <1>8, <1>10, <2>1, LedgerGrows DEF IInv
<1>12. queue' \in [Process -> Seq(Job)]
  <2>1. queue[proc[j]] \in Seq(Job) /\ Len(queue[proc[j]]) > 0
    BY <1>6 DEF Seated, TypeOK
  <2>2. Tail(queue[proc[j]]) \in Seq(Job)
    BY <2>1, Shortened
  <2> QED
    BY <1>3, <2>2 DEF TypeOK
<1>13. log' \in Seq([source : Source, job : Job])
  <2> DEFINE R == [source : Source, job : Job]
             e == [source |-> v, job |-> j]
  <2>1. log \in Seq(R) /\ e \in R
    BY <1>5 DEF TypeOK
  <2>2. log' = Append(log, e)
    BY <1>1
  <2> HIDE DEF R, e
  <2>3. log' \in Seq(R)
    BY <2>1, <2>2, Appended
  <2> QED
    BY <2>3 DEF R
<1>14. Mishaps
  BY <1>1 DEF TypeOK, Sound, bounds, Mishaps
<1>15. TypeOK'
  BY <1>3, <1>4, <1>10, <1>12, <1>13, <1>14 DEF TypeOK, hostVars, Commits, Mishaps
<1>16. QueueShape'
  <2>1. \A i \in Job : IF Settles(i, j) THEN pc'[i] = "done" ELSE pc'[i] = pc[i]
    BY <1>3 DEF Ended
  <2> QED
    BY <1>3, <1>4, <1>6, <2>1, QueueEnds DEF IInv
<1>17. JobShape'
  <2>1. created' \in Nat /\ created <= created'
    <3>1. created' = created
      BY <1>4 DEF hostVars
    <3>2. created \in Nat
      BY PipelineAssumption DEF TypeOK
    <3> QED
      BY <3>1, <3>2
  <2>2. ASSUME NEW i \in Job, Settles(i, j)
        PROVE  Knows(i)' /\ audit'[i] \in {audit[i], 0}
    <3>1. Knows(i) /\ pc[i] # "idle"
      BY <1>2, <2>2 DEF IInv, JobShape, Settles, Joined, Works, Active
    <3>2. /\ pc'[i] = "done" /\ proc'[i] = proc[i] /\ session'[i] = session[i]
          /\ audit'[i] \in {audit[i], 0}
      BY <1>3, <2>2 DEF Ended
    <3>3. audit'[i] <= created'
      <4>1. audit[i] \in Nat /\ audit[i] <= created /\ created' = created
            /\ created \in Nat
        BY <1>4, <3>1, PipelineAssumption DEF Knows, TypeOK, hostVars
      <4> QED
        BY <3>2, <4>1
    <3> QED
      BY <3>1, <3>2, <3>3 DEF Knows, Active, Extracting
  <2> QED
    BY <1>3, <2>1, <2>2, JobKept DEF IInv
<1>18. GuardShape'
  <2>1. ASSUME NEW i \in Job, pc'[i] \in Guarded
        PROVE  /\ audit'[i] = audit[i] /\ audit[i] # 0
               /\ audit[i] \in DOMAIN m.audits \cup forgotten.audits
               /\ audit[i] \in DOMAIN m.audits
                     => m.audits[audit[i]].state = "pending"
    <3>1. ~Settles(i, j)
      BY <1>3, <2>1 DEF Ended, Guarded
    <3>2. pc[i] \in Guarded /\ audit'[i] = audit[i]
      BY <1>3, <2>1, <3>1 DEF Still, Guarded, Over
    <3>3. Knows(i) /\ Guarding(i)
      BY DEF IInv, JobShape, GuardShape
    <3> QED
      BY <1>8, <3>2, <3>3 DEF Knows, Guarding, Guarded, Extracting
  <2>2. prompted' \subseteq DOMAIN m.audits \cup forgotten.audits
    BY <1>4, <1>8 DEF hostVars, IInv, GuardShape
  <2> QED
    BY <1>8, <1>10, <2>1, <2>2, GuardKept DEF IInv
<1>19. OutcomeShape'
  <2>1. ASSUME NEW i \in Job
        PROVE  \/ Still(i) /\ i # j
               \/ /\ pc[i] # "done" /\ pc'[i] = "done" /\ source'[i] = v
                  /\ outcome'[i] = "llm-success"
    <3>1. CASE Settles(i, j)
      <4>1. pc[i] # "done" /\ source[i] = v
        BY <1>1, <3>1 DEF Settles, Joined
      <4> QED
        BY <1>3, <3>1, <4>1 DEF Ended
    <3>2. CASE ~Settles(i, j)
      BY <1>3, <3>2 DEF Settles
    <3> QED
      BY <3>1, <3>2
  <2>2. pc[j] # "done"
    BY <1>1
  <2> HIDE DEF v
  <2> QED
    BY <1>1, <1>5, <1>11, <2>1, <2>2, OutcomeMerged DEF IInv
<1>20. DurablyGuarded'
  BY <1>4, <1>10, <1>14 DEF IInv, DurablyGuarded, Commits, Mishaps
<1> QED
  BY <1>11, <1>15, <1>16, <1>17, <1>18, <1>19, <1>20 DEF IInv

-----------------------------------------------------------------------------
(* Every action of a working job keeps the invariant.                      *)

LEMMA Bounds ==
    ASSUME TypeOK, Sound \/ Fault
    PROVE  Mishaps
BY DEF TypeOK, Sound, Fault, bounds, Mishaps

LEMMA Processed ==
    ASSUME TypeOK, IInv, NEW v, IsProcessed(v)
    PROVE  v \in Merged
BY DEF IInv, LedgerShape, IsProcessed

(* A job that goes on without a transaction.                               *)
LEMMA GoesOn ==
    ASSUME TypeOK, IInv, NEW j \in Job,
           NEW from \in {"queued"} \cup Active, NEW to \in Active,
           Goto(j, from, to), from # "queued" \/ Head(queue[proc[j]]) = j,
           UNCHANGED <<memory, history>>, Unchanged, Sound \/ Fault,
           <<from, to>> \in {<<"queued", "heuristic">>, <<"recheck", "create">>,
                             <<"settle", "health">>, <<"health", "merge">>}
    PROVE  TypeOK' /\ IInv'
<1>1. memory' = memory /\ forgotten' = forgotten /\ log' = log
  BY DEF history
<1>2. memory \in Memory /\ Commits(memory, 0)
  BY <1>1, Rested DEF TypeOK
<1>3. Mishaps
  BY Bounds
<1>4. /\ to \in Active \ {"guard"} /\ to \notin Guarded
      /\ to \in Extracting => from \in Extracting
      /\ to = "prompt" => from = "guard"
      /\ to \in {"settle", "health"} => from \in {"settle", "health"}
  BY DEF Active, Guarded, Extracting
<1> QED
  BY <1>1, <1>2, <1>3, <1>4, Worked

(* A job that ends without a transaction.                                  *)
LEMMA EndsAt ==
    ASSUME TypeOK, IInv, NEW j \in Job,
           NEW o \in Outcome \ {"none", "llm-success"}, Finish(j, o), Works(j),
           pc[j] \in Active \/ Head(queue[proc[j]]) = j,
           UNCHANGED <<memory, history>>, Unchanged,
           Mishaps,
           o = "cache-hit" => IsProcessed(source[j])
    PROVE  TypeOK' /\ IInv'
<1>1. memory' = memory /\ forgotten' = forgotten /\ log' = log
  BY DEF history
<1>2. memory \in Memory /\ Commits(memory, 0)
  BY <1>1, Rested DEF TypeOK
<1>3. o = "cache-hit" => source[j] \in Merged
  BY Processed
<1> QED
  BY <1>1, <1>2, <1>3, Ends

LEMMA Starting ==
    ASSUME TypeOK, IInv, NEW j \in Job, Start(j) PROVE TypeOK' /\ IInv'
<1>1. /\ pc[j] = "queued" /\ Head(queue[proc[j]]) = j /\ Works(j)
      /\ UNCHANGED <<memory, history>> /\ Unchanged /\ Sound
      /\ Mishaps
  BY Bounds DEF Start, Works
<1>2. CASE IsProcessed(source[j])
  <2>1. Finish(j, "cache-hit")
    BY <1>2 DEF Start
  <2>2. "cache-hit" \in Outcome \ {"none", "llm-success"}
    BY DEF Outcome
  <2> QED
    BY <1>1, <1>2, <2>1, <2>2, EndsAt
<1>3. CASE ~IsProcessed(source[j])
  <2>1. Goto(j, "queued", "heuristic")
    BY <1>3 DEF Start
  <2>2. "heuristic" \in Active
    BY DEF Active
  <2> QED
    BY <1>1, <2>1, <2>2, GoesOn
<1> QED
  BY <1>2, <1>3

LEMMA Rechecking ==
    ASSUME TypeOK, IInv, NEW j \in Job, Recheck(j) PROVE TypeOK' /\ IInv'
<1>1. /\ pc[j] = "recheck" /\ pc[j] \in Active /\ Works(j)
      /\ UNCHANGED <<memory, history>> /\ Unchanged /\ Sound
      /\ Mishaps
  BY Bounds DEF Recheck, Works, Active
<1>2. {"cache-hit", "heuristic-only"} \subseteq Outcome \ {"none", "llm-success"}
  BY DEF Outcome
<1>3. CASE IsProcessed(source[j]) /\ Finish(j, "cache-hit")
  BY <1>1, <1>2, <1>3, EndsAt
<1>4. CASE Finish(j, "heuristic-only")
  BY <1>1, <1>2, <1>4, EndsAt
<1>5. CASE Goto(j, "recheck", "create")
  <2>1. {"create", "recheck"} \subseteq Active
    BY DEF Active
  <2> QED
    BY <1>1, <1>5, <2>1, GoesOn
<1> QED
  BY <1>3, <1>4, <1>5 DEF Recheck

LEMMA FailingOrDone ==
    ASSUME TypeOK, IInv, NEW j \in Job,
           \/ CreateFails(j) \/ FinalNoop(j)
           \/ \E o \in {"write-failed", "queue-failed"} : TransactionFails(j, o)
    PROVE  TypeOK' /\ IInv'
<1>1. {"llm-failed", "cache-hit", "write-failed", "queue-failed"}
         \subseteq Outcome \ {"none", "llm-success"}
  BY DEF Outcome
<1>2. CASE CreateFails(j)
  <2>1. /\ pc[j] \in Active /\ Works(j) /\ Finish(j, "llm-failed") /\ Unchanged
        /\ UNCHANGED <<memory, history>>
    BY <1>2 DEF CreateFails, Works, Active
  <2>2. Mishaps
    BY <1>2 DEF CreateFails, TypeOK, Mishaps
  <2> QED
    BY <1>1, <2>1, <2>2, EndsAt
<1>3. CASE FinalNoop(j)
  <2>1. /\ pc[j] \in Active /\ Works(j) /\ Finish(j, "cache-hit") /\ Unchanged
        /\ UNCHANGED <<memory, history>> /\ Sound /\ IsProcessed(source[j])
    BY <1>3 DEF FinalNoop, AlreadyMerged, Works, Active
  <2> QED
    BY <1>1, <2>1, Bounds, EndsAt
<1>4. CASE \E o \in {"write-failed", "queue-failed"} : TransactionFails(j, o)
  <2>1. PICK o \in {"write-failed", "queue-failed"} : TransactionFails(j, o)
    BY <1>4
  <2>2. /\ Works(j) /\ Finish(j, o) /\ Unchanged /\ UNCHANGED <<memory, history>>
        /\ pc[j] \in Active \/ Head(queue[proc[j]]) = j
    BY <2>1 DEF TransactionFails, Works, Active
  <2>3. Mishaps
    <3>1. Fault \/ Sound
      BY <2>1 DEF TransactionFails, GuardRefused
    <3> QED
      BY <3>1, Bounds
  <2> QED
    BY <1>1, <2>2, <2>3, EndsAt
<1> QED
  BY <1>2, <1>3, <1>4

LEMMA Reporting ==
    ASSUME TypeOK, IInv, NEW j \in Job, ReportFails(j) PROVE TypeOK' /\ IInv'
<1>1. /\ UNCHANGED <<memory, history>> /\ Unchanged /\ Fault
      /\ Mishaps
  BY Bounds DEF ReportFails
<1>2. {"settle", "health", "merge"} \subseteq Active
  BY DEF Active
<1>3. CASE Goto(j, "settle", "health")
  BY <1>1, <1>2, <1>3, GoesOn
<1>4. CASE Goto(j, "health", "merge")
  BY <1>1, <1>2, <1>4, GoesOn
<1>5. CASE pc[j] = "health" /\ Finish(j, "llm-failed")
  <2>1. "llm-failed" \in Outcome \ {"none", "llm-success"} /\ Works(j)
    BY <1>2, <1>5 DEF Outcome, Works
  <2> QED
    BY <1>1, <1>2, <1>5, <2>1, EndsAt
<1> QED
  BY <1>3, <1>4, <1>5 DEF ReportFails, Reported

LEMMA Heuristics ==
    ASSUME TypeOK, IInv, NEW j \in Job, Heuristic(j) PROVE TypeOK' /\ IInv'
<1>1. /\ Goto(j, "heuristic", "recheck") /\ Commit(memory, 0) /\ log' = log
      /\ Unchanged /\ Sound /\ Mishaps
  BY Bounds DEF Heuristic
<1>2. memory \in Memory /\ 0 \in 0 .. Len(memory.ledger)
  BY DEF TypeOK, Memory
<1>3. Commits(memory, 0)
  BY <1>1, <1>2, Committed
<1>4. /\ {"heuristic", "recheck"} \subseteq Active \ {"guard"}
      /\ "recheck" \notin Guarded \cup Extracting
  BY DEF Active, Guarded, Extracting
<1> QED
  BY <1>1, <1>2, <1>3, <1>4, Worked

LEMMA Healthy ==
    ASSUME TypeOK, IInv, NEW j \in Job, PersistHealth(j) PROVE TypeOK' /\ IInv'
<1> DEFINE h == IF verdict[j] = "success" THEN "ready" ELSE "cooling"
           m == [memory EXCEPT !.model = h]
<1>1. /\ Reported(j) /\ Commit(m, 0) /\ log' = log
      /\ Unchanged /\ Sound /\ Mishaps
  BY Bounds DEF PersistHealth
<1>2. m \in Memory /\ m.ledger = memory.ledger /\ m.audits = memory.audits
  BY DEF TypeOK, Memory
<1> HIDE DEF m
<1>3. 0 \in 0 .. Len(m.ledger)
  BY <1>2 DEF Memory
<1>4. Commits(m, 0)
  BY <1>1, <1>2, <1>3, Committed
<1>5. /\ {"health", "merge"} \subseteq Active \ {"guard"}
      /\ {"health", "merge"} \subseteq Extracting /\ "merge" \notin Guarded
  BY DEF Active, Guarded, Extracting
<1>6. CASE Goto(j, "health", "merge")
  BY <1>1, <1>2, <1>4, <1>5, <1>6, Worked
<1>7. CASE pc[j] = "health" /\ Finish(j, "llm-failed")
  <2>1. "llm-failed" \in Outcome \ {"none", "llm-success"} /\ Works(j)
    BY <1>5, <1>7 DEF Outcome, Works
  <2> QED
    BY <1>1, <1>2, <1>4, <1>5, <1>7, <2>1, Ends
<1> QED
  BY <1>1, <1>6, <1>7 DEF Reported

(* The memory with the guard row of an audit session that is about to be   *)
(* prompted, and with the outcome of one that was.                         *)
LEMMA GuardRow ==
    ASSUME TypeOK, IInv, NEW j \in Job, pc[j] = "guard"
    PROVE  LET g == WithPending(memory.audits, j)
               m == [memory EXCEPT !.audits = g]
           IN  /\ m \in Memory /\ m.ledger = memory.ledger /\ m.audits = g
               /\ 0 \in 0 .. Len(m.ledger)
               /\ DOMAIN g = DOMAIN memory.audits \cup {audit[j]}
               /\ g[audit[j]].state = "pending"
               /\ \A a \in DOMAIN g : a = audit[j]
                     \/ (a \in DOMAIN memory.audits /\ g[a] = memory.audits[a])
<1> DEFINE g == WithPending(memory.audits, j)
           m == [memory EXCEPT !.audits = g]
<1>2. source[j] \in Source /\ audit[j] \in AuditId
  <2>1. pc[j] = "guard" /\ Knows(j)
    BY DEF IInv, JobShape
  <2>2. source[j] \in Source /\ audit[j] # 0
    BY <2>1 DEF Knows, Active, Extracting
  <2> QED
    BY <2>2, PipelineAssumption DEF TypeOK, AuditId
<1>3. memory \in Memory /\ memory.audits \in Guards
  BY DEF TypeOK, Memory
<1>4. /\ DOMAIN g = DOMAIN memory.audits \cup {audit[j]}
      /\ \A a \in DOMAIN g : g[a] = IF a = audit[j]
                                    THEN [source |-> source[j], state |-> "pending"]
                                    ELSE memory.audits[a]
  BY DEF WithPending
<1>5. g \in Guards
  <2> DEFINE e == [source |-> source[j], state |-> "pending"]
  <2>1. e \in Row
    BY <1>2 DEF Row
  <2>2. DOMAIN g \in SUBSET AuditId
    BY <1>2, <1>3, <1>4, GuardsAre
  <2> HIDE DEF e
  <2>3. \A a \in DOMAIN memory.audits : memory.audits[a] \in Row
    BY <1>3, GuardsAre
  <2>4. \A a \in DOMAIN g : g[a] = IF a = audit[j] THEN e ELSE memory.audits[a]
    BY <1>4 DEF e
  <2>5. \A a \in DOMAIN g : g[a] \in Row
    BY <1>4, <2>1, <2>3, <2>4
  <2>6. g = [a \in DOMAIN g |-> g[a]]
    BY DEF WithPending
  <2> HIDE DEF g
  <2>7. g \in [DOMAIN g -> Row]
    BY <2>5, <2>6
  <2> QED
    BY <2>2, <2>7 DEF Guards
<1>6. /\ audit[j] \in DOMAIN g /\ g[audit[j]].state = "pending"
      /\ \A a \in DOMAIN g : a = audit[j]
            \/ (a \in DOMAIN memory.audits /\ g[a] = memory.audits[a])
  BY <1>4
<1> HIDE DEF g
<1>7. m \in Memory /\ m.ledger = memory.ledger /\ m.audits = g
  BY <1>3, <1>5 DEF Memory
<1> HIDE DEF m
<1>8. 0 \in 0 .. Len(m.ledger)
  BY <1>7 DEF Memory
<1> QED
  BY <1>4, <1>6, <1>7, <1>8 DEF m, g

LEMMA SettledRow ==
    ASSUME TypeOK, IInv, NEW j \in Job, pc[j] = "settle",
           audit[j] \in DOMAIN memory.audits
    PROVE  LET e == [memory.audits[audit[j]] EXCEPT !.state = verdict[j]]
               g == [memory.audits EXCEPT ![audit[j]] = e]
               m == [memory EXCEPT !.audits = g]
           IN  /\ m \in Memory /\ m.ledger = memory.ledger /\ m.audits = g
               /\ 0 \in 0 .. Len(m.ledger)
               /\ DOMAIN g = DOMAIN memory.audits
               /\ \A a \in DOMAIN g : a # audit[j] => g[a] = memory.audits[a]
<1> DEFINE e == [memory.audits[audit[j]] EXCEPT !.state = verdict[j]]
           g == [memory.audits EXCEPT ![audit[j]] = e]
           m == [memory EXCEPT !.audits = g]
<1>1. memory \in Memory /\ memory.audits \in Guards
  BY DEF TypeOK, Memory
<1>2. verdict[j] \in {"success", "failed"}
  BY DEF IInv, JobShape, Knows, TypeOK
<1>3. e \in Row
  <2>1. memory.audits[audit[j]] \in Row
    BY <1>1, GuardsAre
  <2> QED
    BY <1>2, <2>1 DEF Row
<1> HIDE DEF e
<1>4. /\ g \in Guards /\ DOMAIN g = DOMAIN memory.audits
      /\ \A a \in DOMAIN g : a # audit[j] => g[a] = memory.audits[a]
  <2>1. memory.audits \in [DOMAIN memory.audits -> Row]
        /\ DOMAIN memory.audits \in SUBSET AuditId
    BY <1>1, GuardsAre
  <2>2. g \in [DOMAIN memory.audits -> Row]
    BY <1>3, <2>1
  <2> QED
    BY <2>1, <2>2 DEF Guards
<1> HIDE DEF g
<1>5. m \in Memory /\ m.ledger = memory.ledger /\ m.audits = g
  BY <1>1, <1>4 DEF Memory
<1> HIDE DEF m
<1>6. 0 \in 0 .. Len(m.ledger)
  BY <1>5 DEF Memory
<1> QED
  BY <1>4, <1>5, <1>6 DEF m, g, e

LEMMA GuardWritten ==
    ASSUME TypeOK, IInv, NEW j \in Job, PersistGuard(j) PROVE TypeOK' /\ IInv'
<1> DEFINE g == WithPending(memory.audits, j)
           m == [memory EXCEPT !.audits = g]
<1>1. /\ Goto(j, "guard", "prompt") /\ Commit(m, 0) /\ log' = log
      /\ Unchanged /\ Sound /\ Mishaps
  BY Bounds DEF PersistGuard, WithGuard
<1>2. /\ m \in Memory /\ m.ledger = memory.ledger /\ m.audits = g
      /\ 0 \in 0 .. Len(m.ledger)
      /\ DOMAIN g = DOMAIN memory.audits \cup {audit[j]}
      /\ g[audit[j]].state = "pending"
      /\ \A a \in DOMAIN g : a = audit[j]
            \/ (a \in DOMAIN memory.audits /\ g[a] = memory.audits[a])
  BY <1>1, GuardRow DEF Goto
<1> HIDE DEF m, g
<1>3. Commits(m, 0)
  BY <1>1, <1>2, Committed
<1>4. /\ {"guard", "prompt"} \subseteq Active /\ {"guard", "prompt"} \subseteq Extracting
  BY DEF Active, Extracting
<1> QED
  BY <1>1, <1>2, <1>3, <1>4, Worked

LEMMA Settling ==
    ASSUME TypeOK, IInv, NEW j \in Job, Settle(j) PROVE TypeOK' /\ IInv'
<1>1. /\ Goto(j, "settle", "health") /\ pc[j] = "settle" /\ log' = log
      /\ Unchanged /\ Sound /\ Mishaps
  BY Bounds DEF Settle, Goto
<1>2. /\ {"settle", "health"} \subseteq Active \ {"guard"}
      /\ {"settle", "health"} \subseteq Extracting /\ "health" \notin Guarded
  BY DEF Active, Guarded, Extracting
<1>3. CASE audit[j] \notin DOMAIN memory.audits
  <2>1. memory' = memory /\ forgotten' = forgotten /\ memory \in Memory
    BY <1>3 DEF Settle, TypeOK
  <2> QED
    BY <1>1, <1>2, <2>1, Rested, Worked
<1>4. CASE audit[j] \in DOMAIN memory.audits
  <2> DEFINE e == [memory.audits[audit[j]] EXCEPT !.state = verdict[j]]
             g == [memory.audits EXCEPT ![audit[j]] = e]
             m == [memory EXCEPT !.audits = g]
  <2>1. Commit(m, 0)
    BY <1>4 DEF Settle
  <2>2. /\ m \in Memory /\ m.ledger = memory.ledger /\ m.audits = g
        /\ 0 \in 0 .. Len(m.ledger)
        /\ DOMAIN g = DOMAIN memory.audits
        /\ \A a \in DOMAIN g : a # audit[j] => g[a] = memory.audits[a]
    BY <1>1, <1>4, SettledRow
  <2> HIDE DEF m, g
  <2>3. Commits(m, 0)
    BY <2>1, <2>2, Committed
  <2>4. \A a \in DOMAIN m.audits : a = audit[j]
           \/ (a \in DOMAIN memory.audits /\ m.audits[a] = memory.audits[a])
    BY <2>2
  <2> QED
    BY <1>1, <1>2, <2>2, <2>3, <2>4, Worked
<1> QED
  BY <1>3, <1>4

(* A step without a transaction, of a job or of none.                      *)
LEMMA Rests ==
    ASSUME TypeOK, IInv, memory'.ledger = memory.ledger,
           memory'.audits = memory.audits, forgotten' = forgotten, log' = log,
           prompted' \subseteq
              prompted \cup {audit[i] : i \in {k \in Job : pc[k] \in Guarded}},
           \A i \in Job : pc'[i] \in Guarded
              => pc[i] \in Guarded /\ audit'[i] = audit[i]
    PROVE  GuardShape' /\ LedgerShape' /\ LedgerRemembers'
<1>1. ASSUME NEW i \in Job PROVE Guarding(i)'
  <2>1. Guarding(i)
    BY DEF IInv, GuardShape
  <2> QED
    BY <2>1 DEF Guarding
<1>2. prompted' \subseteq DOMAIN memory'.audits \cup forgotten'.audits
  BY DEF IInv, GuardShape, Guarding
<1>3. LedgerShape' /\ LedgerRemembers'
  BY DEF IInv, LedgerShape, LedgerIsTail, LedgerRemembers, Merged
<1> QED
  BY <1>1, <1>2, <1>3 DEF GuardShape

(* A working job that goes on and touches no file.                         *)
LEMMA Turned ==
    ASSUME TypeOK, IInv, NEW j \in Job, NEW from \in Active, NEW to \in Active,
           Goto(j, from, to), UNCHANGED <<memory, history>>,
           UNCHANGED <<proc, session, source>>, JobShape', Mishaps,
           to \in Guarded => from \in Guarded /\ audit'[j] = audit[j],
           \A i \in Job \ {j} : audit'[i] = audit[i],
           prompted' \subseteq
              prompted \cup {audit[i] : i \in {k \in Job : pc[k] \in Guarded}}
    PROVE  /\ IInv' /\ pc' \in [Job -> PC] /\ queue' = queue
           /\ outcome' = outcome
<1>1. /\ pc[j] = from /\ pc'[j] = to /\ pc' \in [Job -> PC]
      /\ queue' = queue /\ outcome' = outcome
      /\ \A i \in Job \ {j} : pc'[i] = pc[i]
  BY DEF Goto, TypeOK, PC
<1>2. /\ memory' = memory /\ forgotten' = forgotten /\ log' = log
      /\ proc' = proc /\ session' = session /\ source' = source
  BY DEF history
<1>3. Works(j) /\ proc[j] \in Process
  BY <1>1 DEF IInv, JobShape, Knows, Works, Active
<1>4. QueueShape'
  <2>1. Seated(j)
    BY <1>1, <1>3, Heads DEF IInv
  <2> QED
    BY <1>1, <1>2, <2>1, QueueWorks DEF IInv
<1>5. GuardShape' /\ LedgerShape' /\ LedgerRemembers'
  <2>1. \A i \in Job : pc'[i] \in Guarded => pc[i] \in Guarded /\ audit'[i] = audit[i]
    BY <1>1
  <2> QED
    BY <1>2, <2>1, Rests
<1>6. OutcomeShape'
  <2>1. from # "done" /\ to # "done"
    BY DEF Active
  <2>2. \A i \in Job : pc'[i] = "done" <=> pc[i] = "done"
    BY <1>1, <2>1
  <2>3. \A n \in DOMAIN log : log[n].job \in Job
    BY LogIs
  <2> QED
    BY <1>1, <1>2, <2>2, <2>3 DEF IInv, OutcomeShape, Merged
<1>7. DurablyGuarded'
  BY <1>2 DEF IInv, DurablyGuarded, Mishaps
<1> QED
  BY <1>1, <1>4, <1>5, <1>6, <1>7 DEF IInv

LEMMA Prompting ==
    ASSUME TypeOK, IInv, NEW j \in Job, Prompt(j) PROVE TypeOK' /\ IInv'
<1>1. /\ Goto(j, "prompt", "answer") /\ pc[j] = "prompt"
      /\ UNCHANGED <<memory, history>> /\ UNCHANGED <<proc, session, source>>
      /\ audit' = audit /\ verdict' = verdict /\ created' = created
      /\ attempt' = [attempt EXCEPT ![j] = @ + 1]
      /\ prompted' = prompted \cup {audit[j]}
      /\ Mishaps
  BY Bounds DEF Prompt, Goto, RequestOutput
<1>2. /\ {"prompt", "answer"} \subseteq Active \cap Guarded \cap Extracting
      /\ "answer" \notin {"guard", "prompt", "settle", "health"}
  BY DEF Active, Guarded, Extracting
<1>3. Knows(j) /\ attempt[j] < 2 /\ audit[j] # 0
  BY <1>1, <1>2 DEF IInv, JobShape, Knows
<1>4. attempt' \in [Job -> 0 .. 2]
  <2>1. attempt \in [Job -> 0 .. 2]
    BY DEF TypeOK
  <2>2. attempt[j] + 1 \in 0 .. 2
    BY <1>3, <2>1
  <2> QED
    BY <1>1, <2>1, <2>2
<1>5. pc'[j] = "answer" /\ \A i \in Job \ {j} : pc'[i] = pc[i] /\ attempt'[i] = attempt[i]
  BY <1>1 DEF Goto, TypeOK
<1>6. JobShape'
  <2>1. ASSUME NEW i \in Job \ {j} PROVE Knows(i)'
    BY <1>1, <1>5 DEF IInv, JobShape, Knows
  <2>2. Knows(j)'
    BY <1>1, <1>2, <1>3, <1>5 DEF Knows
  <2> QED
    BY <1>1, <2>1, <2>2 DEF IInv, JobShape
<1>7. /\ IInv' /\ pc' \in [Job -> PC] /\ queue' = queue /\ outcome' = outcome
  <2>1. prompted' \subseteq
           prompted \cup {audit[i] : i \in {k \in Job : pc[k] \in Guarded}}
    BY <1>1, <1>2
  <2> QED
    BY <1>1, <1>2, <1>6, <2>1, Turned
<1>8. audit[j] \in AuditId
  BY <1>3, PipelineAssumption DEF TypeOK, AuditId
<1> QED
  BY <1>1, <1>4, <1>7, <1>8 DEF TypeOK, Prompt, history, Mishaps

LEMMA Answered ==
    ASSUME TypeOK, IInv, NEW j \in Job, Accept(j) \/ Refuse(j)
    PROVE  TypeOK' /\ IInv'
<1>1. PICK to \in {"prompt", "settle"}, v \in {"success", "failed"} :
        /\ Goto(j, "answer", to) /\ verdict' = [verdict EXCEPT ![j] = v]
        /\ to = "prompt" => attempt[j] < 2
  BY DEF Accept, Refuse
<1>2. /\ UNCHANGED <<memory, history>> /\ UNCHANGED <<proc, session, source>>
      /\ audit' = audit /\ attempt' = attempt /\ UNCHANGED hostVars
      /\ retained' = retained /\ Mishaps
  BY Bounds DEF Accept, Refuse
<1>3. /\ {"prompt", "answer", "settle"} \subseteq Active \cap Guarded \cap Extracting
  BY DEF Active, Guarded, Extracting
<1>4. /\ pc[j] = "answer" /\ pc'[j] = to /\ verdict'[j] = v
      /\ verdict' \in [Job -> {"none", "success", "failed"}]
      /\ \A i \in Job \ {j} : pc'[i] = pc[i] /\ verdict'[i] = verdict[i]
  BY <1>1 DEF Goto, TypeOK
<1>5. prompted' = prompted /\ created' = created /\ transcript' = transcript
  BY <1>2 DEF hostVars
<1>6. JobShape'
  <2>1. ASSUME NEW i \in Job \ {j} PROVE Knows(i)'
    BY <1>2, <1>4, <1>5 DEF IInv, JobShape, Knows
  <2>2. Knows(j)
    BY DEF IInv, JobShape
  <2>3. Knows(j)'
    BY <1>1, <1>2, <1>3, <1>4, <1>5, <2>2 DEF Knows
  <2> QED
    BY <1>2, <2>1, <2>3 DEF IInv, JobShape
<1>7. /\ IInv' /\ pc' \in [Job -> PC] /\ queue' = queue /\ outcome' = outcome
  BY <1>1, <1>2, <1>3, <1>5, <1>6, Turned
<1> QED
  BY <1>2, <1>4, <1>5, <1>7 DEF TypeOK, history, Mishaps

LEMMA Creating ==
    ASSUME TypeOK, IInv, NEW j \in Job, CreateSession(j) PROVE TypeOK' /\ IInv'
<1> DEFINE c == created + 1
<1>1. /\ Goto(j, "create", "guard") /\ created < MaxAudits /\ created' = c
      /\ UNCHANGED <<memory, history>> /\ UNCHANGED <<proc, session, source>>
      /\ audit' = [audit EXCEPT ![j] = c]
      /\ attempt' = [attempt EXCEPT ![j] = 0] /\ verdict' = verdict
      /\ retained' = [retained EXCEPT ![proc[j]] = @ \cup {c}]
      /\ prompted' = prompted /\ transcript' = transcript
      /\ Mishaps
  BY Bounds DEF CreateSession
<1>2. created \in Nat /\ c \in Nat /\ c # 0 /\ c \in AuditId /\ c \in 0 .. MaxAudits
  BY <1>1, PipelineAssumption DEF TypeOK, AuditId
<1>3. created <= c /\ ~(c <= created)
  BY <1>2
<1> HIDE DEF c
<1>4. /\ {"create", "guard"} \subseteq Active /\ "guard" \notin Guarded
      /\ "guard" \in Extracting
  BY DEF Active, Guarded, Extracting
<1>5. /\ pc[j] = "create" /\ pc'[j] = "guard" /\ audit'[j] = c /\ attempt'[j] = 0
      /\ audit' \in [Job -> 0 .. MaxAudits] /\ attempt' \in [Job -> 0 .. 2]
      /\ retained' \in [Process -> SUBSET AuditId]
      /\ \A i \in Job \ {j} : pc'[i] = pc[i] /\ audit'[i] = audit[i]
                              /\ attempt'[i] = attempt[i]
  <2>1. 0 \in 0 .. 2
    OBVIOUS
  <2> QED
    BY <1>1, <1>2, <2>1 DEF Goto, TypeOK
<1>6. JobShape'
  <2>1. \A i \in Job : Knows(i) /\ audit[i] <= created /\ audit[i] \in Nat
    BY PipelineAssumption DEF IInv, JobShape, Knows, TypeOK
  <2>2. \A i \in Job : audit[i] # c /\ audit[i] <= c
    BY <1>2, <1>3, <2>1
  <2>3. ASSUME NEW i \in Job \ {j} PROVE Knows(i)'
    BY <1>1, <1>5, <2>1, <2>2 DEF Knows
  <2>4. Knows(j)'
    <3>1. audit'[j] <= created'
      BY <1>1, <1>2, <1>5
    <3> QED
      BY <1>1, <1>2, <1>4, <1>5, <2>1, <3>1 DEF Knows
  <2> QED
    BY <1>5, <2>2, <2>3, <2>4 DEF IInv, JobShape
<1>7. /\ IInv' /\ pc' \in [Job -> PC] /\ queue' = queue /\ outcome' = outcome
  BY <1>1, <1>4, <1>5, <1>6, Turned
<1> QED
  BY <1>1, <1>2, <1>5, <1>7 DEF TypeOK, history, Mishaps

-----------------------------------------------------------------------------
(* The steps before the queue, and the environment's.                      *)

(* A job on its way to the queue.                                          *)
LEMMA Comes ==
    ASSUME TypeOK, IInv, NEW j \in Job,
           UNCHANGED <<memory, history, created, prompted>>,
           audit' = audit, attempt' = attempt, verdict' = verdict,
           ~Works(j), pc[j] \notin Over, pc'[j] \notin Active,
           \A i \in Job \ {j} : Still(i) /\ pc'[i] = pc[i],
           Knows(j)', Mishaps,
           \/ session'[j] = session[j] \/ session'[j] \notin AuditId
           \/ session'[j] \in forgotten.audits \/ j \in unread',
           QueueShape',
           \/ pc'[j] # "done" /\ outcome'[j] = "none"
           \/ pc'[j] = "done" /\ source' = source
              /\ outcome'[j] \in {"error", "write-failed"}
    PROVE  IInv'
<1>1. memory' = memory /\ forgotten' = forgotten /\ log' = log
  BY DEF history
<1>2. GuardShape' /\ LedgerShape' /\ LedgerRemembers'
  <2>1. \A i \in Job : pc'[i] \in Guarded => pc[i] \in Guarded /\ audit'[i] = audit[i]
    BY DEF Guarded, Active
  <2> QED
    BY <1>1, <2>1, Rests
<1>3. JobShape'
  <2>1. created' \in Nat /\ created <= created'
    <3>1. created' = created /\ created \in Nat
      BY PipelineAssumption DEF TypeOK
    <3> QED
      BY <3>1
  <2> QED
    BY <2>1, JobKept DEF IInv
<1>4. OutcomeShape'
  <2>1. pc[j] # "done"
    BY DEF Over
  <2>2. Answers(j)
    BY <2>1 DEF Answers
  <2> QED
    BY <1>1, <2>2, OutcomeKept DEF IInv
<1>5. DurablyGuarded'
  BY <1>1 DEF IInv, DurablyGuarded, Still, Mishaps
<1> QED
  BY <1>2, <1>3, <1>4, <1>5 DEF IInv

LEMMA Arriving ==
    ASSUME TypeOK, IInv, NEW j \in Job, NEW p \in Process,
           NEW s \in Session \cup prompted, IdleEvent(j, p, s)
    PROVE  TypeOK' /\ IInv'
<1>1. /\ pc[j] = "idle" /\ pc' = [pc EXCEPT ![j] = "fetch"]
      /\ proc' = [proc EXCEPT ![j] = p] /\ session' = [session EXCEPT ![j] = s]
      /\ UNCHANGED <<hostVars, memory, retained, queue, source, audit, attempt,
                     verdict, outcome, history>>
      /\ Mishaps /\ (s \notin DOMAIN memory.audits \/ j \in unread')
  <2>1. CASE ~KnownAudit(p, s) /\ Sound
    BY <2>1, Bounds DEF IdleEvent, KnownAudit
  <2>2. CASE GuardUnread(j, p, s)
    BY <2>2 DEF IdleEvent, GuardUnread, Mishaps, TypeOK
  <2> QED
    BY <2>1, <2>2 DEF IdleEvent
<1>2. /\ pc'[j] = "fetch" /\ proc'[j] = p /\ session'[j] = s
      /\ \A i \in Job \ {j} : pc'[i] = pc[i] /\ proc'[i] = proc[i]
                              /\ session'[i] = session[i]
  BY <1>1 DEF TypeOK
<1>3. s \in Session \cup AuditId
  BY DEF TypeOK
<1>4. TypeOK'
  <2>1. /\ pc' \in [Job -> PC] /\ proc' \in [Job -> Process \cup {0}]
        /\ session' \in [Job -> Session \cup AuditId \cup {0}]
    BY <1>1, <1>3 DEF TypeOK, PC, Waiting
  <2> QED
    BY <1>1, <2>1 DEF TypeOK, hostVars, history, Mishaps
<1>5. /\ ~Works(j) /\ ~Works(j)' /\ pc[j] \notin Over /\ pc'[j] \notin Active
      /\ pc'[j] \notin {"joined", "done"}
  BY <1>1, <1>2 DEF Works, Over, Active
<1>6. \A i \in Job \ {j} : Still(i)
  BY <1>1, <1>2 DEF Still, TypeOK
<1>7. QueueShape'
  BY <1>1, <1>2, <1>5, QueueAside DEF IInv
<1>8. Knows(j)'
  <2>1. audit[j] <= created
    BY DEF IInv, JobShape, Knows
  <2> QED
    BY <1>1, <1>2, <1>3, <2>1 DEF Knows, Active, Extracting, hostVars
<1>9. \/ session'[j] \notin AuditId \/ session'[j] \in forgotten.audits
      \/ j \in unread'
  <2>1. CASE s \in Session
    <3>1. s \notin AuditId
      BY <2>1, PipelineAssumption DEF AuditId
    <3> QED
      BY <1>2, <3>1
  <2>2. CASE s \in prompted
    BY <1>1, <1>2, <2>2 DEF IInv, GuardShape
  <2> QED
    BY <2>1, <2>2
<1>10. outcome'[j] = "none"
  BY <1>1 DEF IInv, OutcomeShape
<1>11. /\ UNCHANGED <<memory, history, created, prompted>>
       /\ audit' = audit /\ attempt' = attempt /\ verdict' = verdict
  BY <1>1 DEF hostVars
<1> QED
  BY <1>1, <1>2, <1>4, <1>5, <1>6, <1>7, <1>8, <1>9, <1>10, <1>11, Comes

LEMMA Fetching ==
    ASSUME TypeOK, IInv, NEW j \in Job, Fetch(j) PROVE TypeOK' /\ IInv'
<1> DEFINE v == <<session[j],
                  IF session[j] \in Session THEN transcript[session[j]] ELSE 1>>
<1>1. /\ Goto(j, "fetch", "prepare") /\ pc[j] = "fetch"
      /\ source' = [source EXCEPT ![j] = v]
      /\ UNCHANGED <<hostVars, memory, retained, proc, session, audit, attempt,
                     verdict, history>> /\ Sound
      /\ Mishaps
  BY Bounds DEF Fetch, Goto
<1>2. Knows(j) /\ proc[j] \in Process /\ session[j] \in Session \cup AuditId
  BY <1>1 DEF IInv, JobShape, Knows
<1>3. v \in Source
  BY <1>2, PipelineAssumption DEF TypeOK, Source, Version
<1> HIDE DEF v
<1>4. /\ pc'[j] = "prepare" /\ source'[j] = v /\ queue' = queue
      /\ outcome' = outcome /\ pc' \in [Job -> PC]
      /\ source' \in [Job -> Source \cup {NoSource}]
      /\ \A i \in Job \ {j} : pc'[i] = pc[i] /\ source'[i] = source[i]
  BY <1>1, <1>3 DEF Goto, TypeOK, PC, Waiting
<1>5. TypeOK'
  BY <1>1, <1>4 DEF TypeOK, hostVars, history, Mishaps
<1>6. /\ ~Works(j) /\ ~Works(j)' /\ pc[j] \notin Over /\ pc'[j] \notin Active
      /\ pc'[j] \notin {"joined", "done"}
  BY <1>1, <1>4 DEF Works, Over, Active
<1>7. \A i \in Job \ {j} : Still(i)
  BY <1>1, <1>4 DEF Still, TypeOK
<1>8. QueueShape'
  BY <1>1, <1>4, <1>6, QueueAside DEF IInv
<1>9. Knows(j)'
  BY <1>1, <1>2, <1>3, <1>4 DEF Knows, Active, Extracting, hostVars
<1>10. outcome'[j] = "none" /\ session'[j] = session[j]
  BY <1>1, <1>4 DEF IInv, OutcomeShape
<1>11. /\ UNCHANGED <<memory, history, created, prompted>>
       /\ audit' = audit /\ attempt' = attempt /\ verdict' = verdict
  BY <1>1 DEF hostVars
<1> QED
  BY <1>1, <1>4, <1>5, <1>6, <1>7, <1>8, <1>9, <1>10, <1>11, Comes

(* A job whose preparation fails is answered.                              *)
LEMMA Returning ==
    ASSUME TypeOK, IInv, NEW j \in Job, FetchFails(j) \/ PrepareFails(j)
    PROVE  TypeOK' /\ IInv'
<1>1. PICK o \in {"error", "write-failed"} :
        /\ Return(j, o) /\ pc[j] \in {"fetch", "prepare"} /\ Fault
        /\ UNCHANGED <<hostVars, memory, retained, jobVars, history>>
  BY DEF FetchFails, PrepareFails
<1>2. Mishaps
  BY <1>1, Bounds
<1>3. /\ pc'[j] = "done" /\ outcome'[j] = o /\ queue' = queue
      /\ pc' \in [Job -> PC] /\ outcome' \in [Job -> Outcome]
      /\ \A i \in Job \ {j} : pc'[i] = pc[i] /\ outcome'[i] = outcome[i]
  BY <1>1 DEF Return, TypeOK, PC, Over, Outcome
<1>4. /\ proc' = proc /\ session' = session /\ source' = source /\ audit' = audit
      /\ attempt' = attempt /\ verdict' = verdict
      /\ UNCHANGED <<memory, history, created, prompted>>
  BY <1>1 DEF jobVars, hostVars
<1>5. TypeOK'
  BY <1>1, <1>2, <1>3, <1>4 DEF TypeOK, hostVars, history, Mishaps
<1>6. ~Works(j) /\ ~Works(j)' /\ pc[j] \notin Over /\ pc'[j] \notin Active
      /\ pc[j] # "idle" /\ pc'[j] # "joined"
  BY <1>1, <1>3 DEF Works, Over, Active
<1>7. \A i \in Job \ {j} : Still(i)
  BY <1>3, <1>4 DEF Still, TypeOK
<1>8. QueueShape'
  BY <1>3, <1>4, <1>6, QueueAside DEF IInv
<1>9. Knows(j)'
  <2>1. Knows(j)
    BY DEF IInv, JobShape
  <2> QED
    BY <1>3, <1>4, <1>6, <2>1 DEF Knows, Active, Extracting
<1> QED
  BY <1>2, <1>3, <1>4, <1>5, <1>6, <1>7, <1>8, <1>9, Comes

LEMMA Preparing ==
    ASSUME TypeOK, IInv, NEW j \in Job, Prepare(j) PROVE TypeOK' /\ IInv'
<1>1. /\ pc[j] = "prepare"
      /\ UNCHANGED <<hostVars, memory, retained, jobVars, history>> /\ Sound
      /\ Mishaps
  BY Bounds DEF Prepare
<1>2. Knows(j) /\ proc[j] \in Process /\ source[j] \in Source
  BY <1>1 DEF IInv, JobShape, Knows
<1>3. /\ proc' = proc /\ session' = session /\ source' = source /\ audit' = audit
      /\ attempt' = attempt /\ verdict' = verdict
      /\ UNCHANGED <<memory, history, created, prompted>>
  BY <1>1 DEF jobVars, hostVars
<1>4. PICK to \in {"joined", "queued"} :
        /\ pc' = [pc EXCEPT ![j] = to] /\ outcome' = outcome
        /\ to = "joined" => queue' = queue /\ InFlight(proc[j], source[j])
        /\ to = "queued" => queue' = [queue EXCEPT ![proc[j]] = Append(@, j)]
  BY DEF Prepare, Goto
<1>5. /\ pc'[j] = to /\ pc' \in [Job -> PC]
      /\ \A i \in Job \ {j} : pc'[i] = pc[i]
  BY <1>4 DEF TypeOK, PC, Waiting
<1>6. queue' \in [Process -> Seq(Job)]
  <2>1. queue[proc[j]] \in Seq(Job)
    BY <1>2 DEF TypeOK
  <2>2. Append(queue[proc[j]], j) \in Seq(Job)
    BY <2>1, Appended
  <2> QED
    BY <1>4, <2>2 DEF TypeOK
<1>7. TypeOK'
  BY <1>1, <1>3, <1>4, <1>5, <1>6 DEF TypeOK, hostVars, history, Mishaps
<1>8. ~Works(j) /\ pc[j] \notin Over /\ pc'[j] \notin Active /\ pc'[j] # "done"
  BY <1>1, <1>5 DEF Works, Over, Active
<1>9. \A i \in Job \ {j} : Still(i)
  BY <1>3, <1>4, <1>5 DEF Still, TypeOK
<1>10. QueueShape'
  <2>1. CASE to = "joined"
    <3>1. ~Works(j)'
      BY <1>5, <2>1 DEF Works, Active
    <3>2. InFlight(proc'[j], source'[j]) /\ proc'[j] \in Process /\ queue' = queue
      BY <1>2, <1>3, <1>4, <2>1
    <3> QED
      BY <1>3, <1>5, <1>8, <3>1, <3>2, QueueAside DEF IInv
  <2>2. CASE to = "queued"
    BY <1>2, <1>3, <1>4, <1>5, <1>8, <2>2, QueueGrows DEF IInv
  <2> QED
    BY <2>1, <2>2
<1>11. Knows(j)'
  BY <1>1, <1>2, <1>3, <1>5 DEF Knows, Active, Extracting
<1>12. outcome'[j] = "none" /\ session'[j] = session[j]
  BY <1>1, <1>3, <1>4 DEF IInv, OutcomeShape
<1> QED
  BY <1>1, <1>3, <1>5, <1>7, <1>8, <1>9, <1>10, <1>11, <1>12, Comes

(* The jobs stay where they are.                                           *)
LEMMA Environment ==
    ASSUME TypeOK, IInv, (\E s \in Session : Talk(s)) \/ CoolDown
    PROVE  TypeOK' /\ IInv'
<1>1. /\ UNCHANGED <<prompted, created, retained, queue, pc, outcome, log,
                     forgotten, crashes, faults, unread, proc, session, source,
                     audit, attempt, verdict>>
  BY DEF Talk, CoolDown, history, jobVars, hostVars, Sound, bounds
<1>2. /\ memory' \in Memory /\ memory'.ledger = memory.ledger
      /\ memory'.audits = memory.audits
  BY DEF TypeOK, Memory, Talk, CoolDown
<1>3. transcript' \in [Session -> Version]
  <2>1. CASE CoolDown
    BY <2>1 DEF CoolDown, hostVars, TypeOK
  <2>2. CASE \E s \in Session : Talk(s)
    <3>1. PICK s \in Session : Talk(s)
      BY <2>2
    <3>2. transcript[s] + 1 \in Version
      BY <3>1, PipelineAssumption DEF Talk, TypeOK, Version
    <3> QED
      BY <3>1, <3>2 DEF Talk, TypeOK
  <2> QED
    BY <2>1, <2>2
<1>4. TypeOK'
  BY <1>1, <1>2, <1>3 DEF TypeOK
<1>5. QueueShape'
  BY <1>1 DEF IInv, QueueShape, Queued, InQueue, InFlight
<1>6. JobShape'
  BY <1>1 DEF IInv, JobShape, Knows
<1>7. GuardShape' /\ LedgerShape' /\ LedgerRemembers'
  BY <1>1, <1>2, Rests
<1>8. OutcomeShape' /\ DurablyGuarded'
  BY <1>1 DEF IInv, OutcomeShape, Merged, DurablyGuarded
<1> QED
  BY <1>4, <1>5, <1>6, <1>7, <1>8 DEF IInv

(* A process dies: nothing of its jobs is left but the memory.             *)
LEMMA Crashing ==
    ASSUME TypeOK, IInv, NEW p \in Process, Crash(p) PROVE TypeOK' /\ IInv'
<1>1. /\ UNCHANGED <<transcript, prompted, created, memory, proc, session,
                     source, outcome, log, forgotten, faults, unread>>
      /\ retained' = [retained EXCEPT ![p] = {}]
      /\ queue' = [queue EXCEPT ![p] = <<>>] /\ crashes' \in Nat
  BY DEF Crash, history, hostVars, TypeOK
<1>2. ASSUME NEW i \in Job
      PROVE  /\ pc'[i] = IF proc[i] = p /\ pc[i] \in Waiting \cup Active
                         THEN "dead" ELSE pc[i]
             /\ audit'[i] = IF pc'[i] \in Over THEN 0 ELSE audit[i]
             /\ attempt'[i] = IF pc'[i] \in Over THEN 0 ELSE attempt[i]
             /\ verdict'[i] = IF pc'[i] \in Over THEN "none" ELSE verdict[i]
  BY DEF Crash
<1>3. TypeOK'
  <2>1. /\ pc' \in [Job -> PC] /\ 0 \in 0 .. MaxAudits /\ 0 \in 0 .. 2
    BY PipelineAssumption DEF Crash, TypeOK, PC, Over
  <2>2. /\ audit' \in [Job -> 0 .. MaxAudits] /\ attempt' \in [Job -> 0 .. 2]
        /\ verdict' \in [Job -> {"none", "success", "failed"}]
    BY <2>1 DEF Crash, TypeOK
  <2>3. retained' \in [Process -> SUBSET AuditId]
        /\ queue' \in [Process -> Seq(Job)]
    BY <1>1 DEF TypeOK
  <2> QED
    BY <1>1, <2>1, <2>2, <2>3 DEF TypeOK
<1>4. QueueShape'
  <2>1. \A i \in Job : pc'[i] =
           IF proc[i] = p /\ pc[i] \in Waiting \cup Active THEN "dead" ELSE pc[i]
    BY <1>2
  <2> QED
    BY <1>1, <2>1, QueueDies DEF IInv
<1>5. ASSUME NEW i \in Job, pc'[i] # "dead"
      PROVE  pc'[i] = pc[i]
  BY <1>2, <1>5
<1>6. ASSUME NEW i \in Job PROVE Still(i) \/ (Knows(i)' /\ audit'[i] \in {audit[i], 0})
  <2>1. CASE proc[i] = p /\ pc[i] \in Waiting \cup Active
    <3>1. pc'[i] = "dead" /\ audit'[i] = 0 /\ pc[i] # "idle"
      BY <1>2, <2>1 DEF Over, Waiting, Active
    <3>2. proc[i] \in Process /\ session[i] \in Session \cup AuditId
      BY <3>1 DEF IInv, JobShape, Knows
    <3>3. 0 <= created'
      BY <1>1, PipelineAssumption DEF TypeOK
    <3> QED
      BY <1>1, <3>1, <3>2, <3>3 DEF Knows, Active, Extracting
  <2>2. CASE ~(proc[i] = p /\ pc[i] \in Waiting \cup Active)
    <3>1. pc'[i] = pc[i]
      BY <1>2, <2>2
    <3> QED
      BY <1>1, <1>2, <3>1 DEF Still
  <2> QED
    BY <2>1, <2>2
<1>7. JobShape'
  <2>1. created' = created /\ created \in Nat
    BY <1>1, PipelineAssumption DEF TypeOK
  <2>2. created' \in Nat /\ created <= created'
    BY <2>1
  <2> QED
    BY <1>6, <2>2, JobKept DEF IInv
<1>8. GuardShape' /\ LedgerShape' /\ LedgerRemembers'
  <2>1. \A i \in Job : pc'[i] \in Guarded => pc[i] \in Guarded /\ audit'[i] = audit[i]
    BY <1>2 DEF Guarded, Over
  <2> QED
    BY <1>1, <2>1, Rests
<1>9. OutcomeShape'
  <2>1. \A i \in Job : pc'[i] = "done" <=> pc[i] = "done"
    BY <1>2 DEF Waiting, Active
  <2>2. \A n \in DOMAIN log : log[n].job \in Job
    BY LogIs
  <2> QED
    BY <1>1, <2>1, <2>2 DEF IInv, OutcomeShape, Merged
<1>10. DurablyGuarded'
  BY <1>1 DEF IInv, DurablyGuarded
<1> QED
  BY <1>3, <1>4, <1>7, <1>8, <1>9, <1>10 DEF IInv

(* Nothing happens.                                                        *)
LEMMA Stuttering ==
    ASSUME TypeOK, IInv, UNCHANGED vars PROVE TypeOK' /\ IInv'
<1> USE DEF vars, hostVars, jobVars, history, bounds
<1>1. TypeOK'
  BY DEF TypeOK
<1>2. QueueShape' /\ JobShape' /\ GuardShape'
  BY DEF IInv, QueueShape, Queued, InQueue, InFlight, JobShape, Knows, GuardShape,
         Guarding
<1>3. LedgerShape' /\ LedgerRemembers'
  BY DEF IInv, LedgerShape, LedgerIsTail, LedgerRemembers, Merged
<1>4. OutcomeShape' /\ DurablyGuarded'
  BY DEF IInv, OutcomeShape, DurablyGuarded, Merged
<1> QED
  BY <1>1, <1>2, <1>3, <1>4 DEF IInv

-----------------------------------------------------------------------------
(* The theorems.                                                           *)

LEMMA Stepping ==
    ASSUME TypeOK, IInv, NEW j \in Job, Step(j) PROVE TypeOK' /\ IInv'
<1>1. CASE Fetch(j)
  BY <1>1, Fetching
<1>2. CASE FetchFails(j) \/ PrepareFails(j)
  BY <1>2, Returning
<1>3. CASE Prepare(j)
  BY <1>3, Preparing
<1>4. CASE Start(j)
  BY <1>4, Starting
<1>5. CASE Heuristic(j)
  BY <1>5, Heuristics
<1>6. CASE Recheck(j)
  BY <1>6, Rechecking
<1>7. CASE CreateSession(j)
  BY <1>7, Creating
<1>8. CASE PersistGuard(j)
  BY <1>8, GuardWritten
<1>9. CASE Prompt(j)
  BY <1>9, Prompting
<1>10. CASE Accept(j) \/ Refuse(j)
  BY <1>10, Answered
<1>11. CASE Settle(j)
  BY <1>11, Settling
<1>12. CASE PersistHealth(j)
  BY <1>12, Healthy
<1>13. CASE ReportFails(j)
  BY <1>13, Reporting
<1>14. CASE FinalMerge(j)
  BY <1>14, Merges
<1>15. CASE \/ CreateFails(j) \/ FinalNoop(j)
            \/ \E o \in {"write-failed", "queue-failed"} : TransactionFails(j, o)
  BY <1>15, FailingOrDone
<1> QED
  BY <1>1, <1>2, <1>3, <1>4, <1>5, <1>6, <1>7, <1>8, <1>9, <1>10, <1>11, <1>12,
     <1>13, <1>14, <1>15 DEF Step

(* The invariant holds of every reachable state, whatever the number of    *)
(* sessions, processes, events, audits, crashes and faults.                *)
THEOREM Inductive == Spec => [](TypeOK /\ IInv)
<1>1. Init => TypeOK /\ IInv
  BY Initially
<1>2. TypeOK /\ IInv /\ [Next]_vars => TypeOK' /\ IInv'
  <2> SUFFICES ASSUME TypeOK, IInv, [Next]_vars PROVE TypeOK' /\ IInv'
    OBVIOUS
  <2>1. CASE \E j \in Job : Step(j)
    BY <2>1, Stepping
  <2>2. CASE \E j \in Job, p \in Process, s \in Session \cup prompted :
                IdleEvent(j, p, s)
    BY <2>2, Arriving
  <2>3. CASE (\E s \in Session : Talk(s)) \/ CoolDown
    BY <2>3, Environment
  <2>4. CASE \E p \in Process : Crash(p)
    BY <2>4, Crashing
  <2>5. CASE UNCHANGED vars
    BY <2>5, Stuttering
  <2> QED
    BY <2>1, <2>2, <2>3, <2>4, <2>5 DEF Next
<1> QED
  BY <1>1, <1>2, PTL DEF Spec

(* Every variable keeps its type.                                          *)
THEOREM TypeCorrect == Spec => []TypeOK
<1>1. TypeOK /\ IInv => TypeOK
  OBVIOUS
<1> QED
  BY <1>1, Inductive, PTL

(* A living job is in its process's queue until it is over, and only the   *)
(* head of a queue works: no job of an idle event is lost or overtaken.    *)
THEOREM JobsKeepTheirPlace == Spec => []QueueHoldsJobs
<1>1. ASSUME TypeOK, IInv PROVE QueueHoldsJobs
  <2>1. ASSUME NEW j \in Job, pc[j] \in {"queued"} \cup Active
        PROVE  /\ proc[j] \in Process /\ queue[proc[j]] \in Seq(Job)
               /\ InQueue(j)
    <3>1. proc[j] \in Process
      BY <1>1, <2>1 DEF IInv, JobShape, Knows, Active
    <3> QED
      BY <1>1, <2>1, <3>1 DEF IInv, QueueShape, TypeOK
  <2>2. ASSUME NEW j \in Job, pc[j] \in Active
        PROVE  queue[proc[j]] # <<>> /\ Head(queue[proc[j]]) = j
    <3> DEFINE q == queue[proc[j]]
    <3>1. Seated(j)
      BY <1>1, <2>1, <2>2, Heads DEF IInv, Works
    <3>2. q \in Seq(Job) /\ Len(q) > 0 /\ q[1] = j
      BY <2>1, <2>2, <3>1 DEF Seated
    <3> HIDE DEF q
    <3>3. q # <<>> /\ Head(q) = q[1]
      BY <3>2
    <3> QED
      BY <3>2, <3>3 DEF q
  <2>3. ASSUME NEW j \in Job, pc[j] = "queued" PROVE j \in Range(queue[proc[j]])
    <3>1. PICK n \in 1 .. Len(queue[proc[j]]) : queue[proc[j]][n] = j
      BY <2>1, <2>3 DEF InQueue
    <3>2. n \in DOMAIN queue[proc[j]]
      BY <2>1, <2>3, <3>1
    <3> QED
      BY <3>1, <3>2 DEF Range
  <2> QED
    BY <1>1, <2>2, <2>3 DEF QueueHoldsJobs, IInv, QueueShape
<1> QED
  BY <1>1, Inductive, PTL

(* What writeMemoryOnIdle returns is what happened.                        *)
THEOREM TrueOutcomes == Spec => []OutcomesAreTrue
<1>1. ASSUME TypeOK, IInv PROVE OutcomesAreTrue
  BY <1>1 DEF IInv, OutcomeShape, OutcomesAreTrue, Merged
<1> QED
  BY <1>1, Inductive, PTL

(* What keeps a process from hearing itself: it retains the audit session  *)
(* that it works in, and audit sessions are numbered as they are created.  *)
Retaining ==
    /\ \A i \in Job : pc[i] = "idle" => audit[i] = 0
    /\ \A i \in Job : audit[i] # 0 => audit[i] \in retained[proc[i]]
    /\ \A a \in prompted : a <= created
    /\ \A i \in Job : session[i] \in AuditId => session[i] <= created
    /\ LocallyGuarded

(* A step that starts no job, creates no session and kills no process.     *)
LEMMA RetainingKept ==
    ASSUME TypeOK, IInv, Retaining, retained' = retained, created' = created,
           proc' = proc, session' = session, NEW j \in Job,
           prompted' \subseteq prompted \cup {audit[j]},
           \A i \in Job : audit'[i] \in {audit[i], 0}
                          /\ (pc'[i] = "idle" => pc[i] = "idle")
    PROVE  Retaining'
<1>1. \A a \in prompted' : a <= created'
  BY DEF Retaining, IInv, JobShape, Knows
<1>2. /\ \A i \in Job : pc'[i] = "idle" => audit'[i] = 0
      /\ \A i \in Job : audit'[i] # 0 => audit'[i] = audit[i]
  BY DEF Retaining
<1>3. LocallyGuarded'
  BY <1>2 DEF Retaining, LocallyGuarded
<1> QED
  BY <1>1, <1>2, <1>3 DEF Retaining

LEMMA RetainingSteps ==
    ASSUME TypeOK, IInv, Retaining, NEW j \in Job, Step(j), ~CreateSession(j)
    PROVE  Retaining'
<1>1. /\ retained' = retained /\ created' = created /\ proc' = proc
      /\ session' = session /\ prompted' \subseteq prompted \cup {audit[j]}
      /\ \A i \in Job : audit'[i] \in {audit[i], 0}
  <2> USE DEF hostVars, jobVars
  <2>1. CASE Fetch(j) \/ FetchFails(j) \/ Prepare(j) \/ PrepareFails(j)
    BY <2>1 DEF Fetch, FetchFails, Prepare, PrepareFails
  <2>2. CASE Prompt(j) \/ Accept(j) \/ Refuse(j)
    BY <2>2 DEF Prompt, RequestOutput, Accept, Refuse
  <2>3. CASE Unchanged
    BY <2>3 DEF Unchanged
  <2> QED
    BY <2>1, <2>2, <2>3
    DEF Step, Start, Heuristic, Recheck, CreateFails, PersistGuard, Settle,
        PersistHealth, ReportFails, FinalMerge, FinalNoop, TransactionFails
<1>2. \A i \in Job : pc'[i] = "idle" => pc[i] = "idle"
  <2>1. CASE \E from \in PC, to \in PC \ {"idle"} : Goto(j, from, to)
    BY <2>1 DEF Goto, TypeOK
  <2>2. CASE \E o \in Outcome : Finish(j, o) \/ Return(j, o)
    BY <2>2 DEF Finish, Return, TypeOK
  <2>3. CASE pc' = [pc EXCEPT ![j] = "queued"]
    BY <2>3 DEF TypeOK
  <2>4. \/ \E from \in PC, to \in PC \ {"idle"} : Goto(j, from, to)
        \/ \E o \in Outcome : Finish(j, o) \/ Return(j, o)
        \/ pc' = [pc EXCEPT ![j] = "queued"]
    <3> USE DEF PC, Waiting, Active, Over, Outcome
    <3>1. CASE Fetch(j) \/ FetchFails(j) \/ Prepare(j) \/ PrepareFails(j)
      BY <3>1 DEF Fetch, FetchFails, Prepare, PrepareFails
    <3>2. CASE Start(j) \/ Heuristic(j) \/ Recheck(j) \/ CreateFails(j)
      BY <3>2 DEF Start, Heuristic, Recheck, CreateFails
    <3>3. CASE PersistGuard(j) \/ Prompt(j) \/ Accept(j) \/ Refuse(j) \/ Settle(j)
      BY <3>3 DEF PersistGuard, Prompt, Accept, Refuse, Settle
    <3>4. CASE PersistHealth(j) \/ ReportFails(j)
      BY <3>4 DEF PersistHealth, ReportFails, Reported
    <3>5. CASE \/ FinalMerge(j) \/ FinalNoop(j)
               \/ \E o \in {"write-failed", "queue-failed"} : TransactionFails(j, o)
      BY <3>5 DEF FinalMerge, FinalNoop, TransactionFails
    <3> QED
      BY <3>1, <3>2, <3>3, <3>4, <3>5 DEF Step
  <2> QED
    BY <2>1, <2>2, <2>3, <2>4
<1> QED
  BY <1>1, <1>2, RetainingKept

LEMMA RetainingCreated ==
    ASSUME TypeOK, IInv, Retaining, NEW j \in Job, CreateSession(j)
    PROVE  Retaining'
<1> DEFINE c == created + 1
<1>1. /\ pc[j] = "create" /\ pc' = [pc EXCEPT ![j] = "guard"] /\ created' = c
      /\ audit' = [audit EXCEPT ![j] = c] /\ proc' = proc /\ session' = session
      /\ retained' = [retained EXCEPT ![proc[j]] = @ \cup {c}]
      /\ prompted' = prompted
  BY DEF CreateSession, Goto
<1>2. /\ created \in Nat /\ proc[j] \in Process
      /\ \A a \in prompted : a \in Nat /\ a <= created
      /\ \A i \in Job : session[i] \in AuditId => session[i] \in Nat
                                                  /\ session[i] <= created
  BY <1>1, PipelineAssumption DEF TypeOK, AuditId, Retaining, IInv, JobShape, Knows
<1>3. /\ \A a \in prompted : a <= c
      /\ \A i \in Job : session[i] \in AuditId => session[i] <= c /\ session[i] # c
      /\ c \in Nat
  BY <1>2
<1>4. c \in AuditId
  BY <1>2, PipelineAssumption DEF CreateSession, AuditId
<1> HIDE DEF c
<1>5. /\ pc'[j] = "guard" /\ audit'[j] = c /\ c \in retained'[proc[j]]
      /\ \A i \in Job \ {j} : pc'[i] = pc[i] /\ audit'[i] = audit[i]
      /\ \A p \in Process : retained[p] \subseteq retained'[p]
  BY <1>1, <1>2 DEF TypeOK
<1>6. ASSUME NEW i \in Job, audit'[i] # 0 PROVE audit'[i] \in retained'[proc'[i]]
  <2>1. CASE i = j
    BY <1>1, <1>5, <2>1
  <2>2. CASE i # j
    <3>1. audit[i] # 0 /\ audit[i] \in retained[proc[i]] /\ pc[i] # "idle"
      BY <1>5, <1>6, <2>2 DEF Retaining
    <3>2. proc[i] \in Process
      BY <3>1 DEF IInv, JobShape, Knows
    <3> QED
      BY <1>1, <1>5, <2>2, <3>1, <3>2
  <2> QED
    BY <2>1, <2>2
<1>7. LocallyGuarded'
  <2>1. \A i \in Job : session[i] # c
    BY <1>3, <1>4
  <2> QED
    BY <1>1, <1>5, <2>1 DEF Retaining, LocallyGuarded
<1> QED
  BY <1>1, <1>3, <1>5, <1>6, <1>7 DEF Retaining

LEMMA RetainingArrives ==
    ASSUME TypeOK, IInv, Retaining, NEW j \in Job, NEW p \in Process,
           NEW s \in Session \cup prompted, IdleEvent(j, p, s)
    PROVE  Retaining'
<1>1. /\ pc[j] = "idle" /\ pc' = [pc EXCEPT ![j] = "fetch"]
      /\ proc' = [proc EXCEPT ![j] = p] /\ session' = [session EXCEPT ![j] = s]
      /\ UNCHANGED <<hostVars, retained, audit>> /\ s \notin retained[p]
  BY DEF IdleEvent, KnownAudit, GuardUnread
<1>2. /\ pc'[j] = "fetch" /\ proc'[j] = p /\ session'[j] = s /\ audit[j] = 0
      /\ \A i \in Job \ {j} : pc'[i] = pc[i] /\ proc'[i] = proc[i]
                              /\ session'[i] = session[i]
  BY <1>1 DEF TypeOK, Retaining
<1>3. prompted' = prompted /\ created' = created
  BY <1>1 DEF hostVars
<1>4. s \in AuditId => s <= created
  BY PipelineAssumption DEF Retaining, AuditId
<1>5. LocallyGuarded'
  <2> SUFFICES ASSUME NEW i \in Job, NEW k \in Job, audit[i] # 0,
                      session'[k] = audit[i]
               PROVE  proc'[k] # proc'[i]
    BY <1>1 DEF LocallyGuarded
  <2>1. i # j /\ proc'[i] = proc[i] /\ audit[i] \in retained[proc[i]]
    BY <1>2 DEF Retaining
  <2>2. CASE k = j
    BY <1>1, <1>2, <2>1, <2>2
  <2>3. CASE k # j
    BY <1>2, <2>1, <2>3 DEF Retaining, LocallyGuarded
  <2> QED
    BY <2>2, <2>3
<1> QED
  BY <1>1, <1>2, <1>3, <1>4, <1>5 DEF Retaining

LEMMA RetainingDies ==
    ASSUME TypeOK, IInv, Retaining, NEW p \in Process, Crash(p)
    PROVE  Retaining'
<1>1. /\ retained' = [retained EXCEPT ![p] = {}]
      /\ UNCHANGED <<prompted, created, proc, session>>
  BY DEF Crash, hostVars
<1>2. ASSUME NEW i \in Job
      PROVE  /\ pc'[i] = "idle" => pc[i] = "idle"
             /\ audit'[i] # 0 => audit'[i] = audit[i] /\ proc[i] # p
                                 /\ proc[i] \in Process
  <2>1. /\ pc'[i] = IF proc[i] = p /\ pc[i] \in Waiting \cup Active
                    THEN "dead" ELSE pc[i]
        /\ audit'[i] = IF pc'[i] \in Over THEN 0 ELSE audit[i]
        /\ pc[i] \in {"idle"} \cup Waiting \cup Active \cup Over
    BY DEF Crash, TypeOK, PC
  <2>2. audit[i] # 0 => pc[i] # "idle" /\ proc[i] \in Process
    BY DEF Retaining, IInv, JobShape, Knows
  <2> QED
    BY <2>1, <2>2 DEF Over
<1>3. \A i \in Job : audit'[i] # 0 => retained'[proc[i]] = retained[proc[i]]
  BY <1>1, <1>2 DEF TypeOK
<1>4. \A i \in Job : pc'[i] = "idle" => audit'[i] = 0
  BY <1>2 DEF Retaining
<1>5. LocallyGuarded'
  BY <1>1, <1>2 DEF Retaining, LocallyGuarded
<1> QED
  BY <1>1, <1>2, <1>3, <1>4, <1>5 DEF Retaining

(* Extraction does not feed on itself.  An audit session becomes a job     *)
(* only after its guard row was dropped, or when a read of the rows failed *)
(* and so missed it; and never one of the process that works in it.        *)
THEOREM NeverRecursive == Spec => []NoRecursion
<1>1. Init => Retaining
  BY DEF Init, Retaining, LocallyGuarded, AuditId
<1>2. TypeOK /\ IInv /\ Retaining /\ [Next]_vars => Retaining'
  <2> SUFFICES ASSUME TypeOK, IInv, Retaining, [Next]_vars PROVE Retaining'
    OBVIOUS
  <2>1. CASE \E j \in Job : Step(j)
    BY <2>1, RetainingSteps, RetainingCreated
  <2>2. CASE \E j \in Job, p \in Process, s \in Session \cup prompted :
                IdleEvent(j, p, s)
    BY <2>2, RetainingArrives
  <2>3. CASE (\E s \in Session : Talk(s)) \/ CoolDown \/ UNCHANGED vars
    BY <2>3 DEF Talk, CoolDown, vars, hostVars, jobVars, Retaining, LocallyGuarded
  <2>4. CASE \E p \in Process : Crash(p)
    BY <2>4, RetainingDies
  <2> QED
    BY <2>1, <2>2, <2>3, <2>4 DEF Next
<1>3. IInv /\ Retaining => NoRecursion
  BY DEF IInv, Retaining, NoRecursion
<1> QED
  BY <1>1, <1>2, <1>3, Inductive, PTL DEF Spec

(* A completed source is forgotten only behind LedgerCap later ones.       *)
THEOREM Remembers == Spec => []LedgerRemembers
<1>1. TypeOK /\ IInv => LedgerRemembers
  BY DEF IInv
<1> QED
  BY <1>1, Inductive, PTL

-----------------------------------------------------------------------------
(* What a step does to the log and to the guard rows.                      *)

(* Only a final merge is logged.                                           *)
LEMMA LogGrowsByMerge ==
    ASSUME [Next]_vars, log' # log
    PROVE  \E j \in Job : FinalMerge(j)
<1> USE DEF vars, history
<1>1. CASE \E j \in Job : Step(j)
  <2>1. PICK j \in Job : Step(j)
    BY <1>1
  <2>2. ~(Fetch(j) \/ FetchFails(j) \/ Prepare(j) \/ PrepareFails(j))
    BY DEF Fetch, FetchFails, Prepare, PrepareFails
  <2>3. ~(Start(j) \/ Heuristic(j) \/ Recheck(j) \/ CreateSession(j))
    BY DEF Start, Heuristic, Recheck, CreateSession
  <2>4. ~(CreateFails(j) \/ PersistGuard(j) \/ Prompt(j) \/ Accept(j) \/ Refuse(j))
    BY DEF CreateFails, PersistGuard, Prompt, Accept, Refuse
  <2>5. ~(Settle(j) \/ PersistHealth(j) \/ ReportFails(j) \/ FinalNoop(j))
    BY DEF Settle, PersistHealth, ReportFails, FinalNoop
  <2>6. ~\E o \in {"write-failed", "queue-failed"} : TransactionFails(j, o)
    BY DEF TransactionFails
  <2> QED
    BY <2>1, <2>2, <2>3, <2>4, <2>5, <2>6 DEF Step
<1>2. ~\E j \in Job, p \in Process, s \in Session \cup prompted : IdleEvent(j, p, s)
  BY DEF IdleEvent
<1>3. ~\E s \in Session : Talk(s)
  BY DEF Talk
<1>4. ~CoolDown
  BY DEF CoolDown
<1>5. ~\E p \in Process : Crash(p)
  BY DEF Crash
<1> QED
  BY <1>1, <1>2, <1>3, <1>4, <1>5 DEF Next

(* A second merge of a source happens only after the bounded ledger has    *)
(* dropped its completion.                                                 *)
THEOREM MergesOnce == Spec => MergedOnce
<1> DEFINE Once ==
      Len(log') > Len(log) =>
        LET v == log'[Len(log')].source
        IN  v \in {log[n].source : n \in DOMAIN log} => v \in forgotten.sources
<1>1. TypeOK /\ IInv /\ [Next]_vars => [Once]_log
  <2> SUFFICES ASSUME TypeOK, IInv, [Next]_vars, log' # log PROVE Once
    OBVIOUS
  <2>1. PICK j \in Job : FinalMerge(j)
    BY LogGrowsByMerge
  <2> DEFINE v == source[j]
             R == [source : Source, job : Job]
             e == [source |-> v, job |-> j]
  <2>2. /\ pc[j] = "merge" /\ v \notin Range(memory.ledger) /\ log' = Append(log, e)
    BY <2>1 DEF FinalMerge, AlreadyMerged, IsProcessed
  <2>3. v \in Source
    BY <2>2 DEF IInv, JobShape, Knows, Active
  <2>4. log \in Seq(R) /\ e \in R /\ e.source = v
    BY <2>3 DEF TypeOK
  <2>5. v \in Merged => v \in forgotten.sources
    BY <2>2 DEF IInv, LedgerShape
  <2> HIDE DEF R, e, v
  <2>6. Len(log') = Len(log) + 1 /\ log'[Len(log) + 1] = e
    BY <2>2, <2>4, Appended
  <2>7. log'[Len(log')].source = v
    BY <2>4, <2>6
  <2> QED
    BY <2>5, <2>7 DEF Merged
<1> QED
  BY <1>1, Inductive, PTL DEF Spec, MergedOnce

(* The newest n of at least n numbers are n at least.                      *)
LEMMA NewestAreMany ==
    ASSUME NEW k \in Nat, NEW S \in SUBSET (0 .. k), NEW n \in Nat,
           Cardinality(S) >= n
    PROVE  Cardinality(Newest(S, n)) >= n
<1> DEFINE N == Newest(S, n)
           Above(x) == {b \in S : b > x}
<1>1. IsFiniteSet(S)
  <2>1. IsFiniteSet(0 .. k)
    BY FS_Interval
  <2> QED
    BY <2>1, FS_Subset
<1>2. N \in SUBSET S /\ \A x \in S : x \in N <=> Cardinality(Above(x)) < n
  BY DEF Newest
<1> HIDE DEF N
<1>3. IsFiniteSet(N) /\ Cardinality(N) \in Nat /\ Cardinality(S) \in Nat
  BY <1>1, <1>2, FS_Subset, FS_CardinalityType
<1>4. SUFFICES ASSUME Cardinality(N) < n PROVE FALSE
  BY <1>3 DEF N
<1>5. S \ N # {}
  <2>1. S # N
    BY <1>3, <1>4
  <2> QED
    BY <1>2, <2>1
<1> DEFINE T == {k - x : x \in S \ N}
<1>6. T \in SUBSET Nat /\ T # {}
  <2>1. \A x \in S \ N : k - x \in Nat
    OBVIOUS
  <2> QED
    BY <1>5, <2>1
<1> HIDE DEF T
<1>7. PICK t \in T : \A y \in T : <<y, t>> \notin OpToRel(<, Nat)
  BY <1>6, WFMin, NatLessThanWellFounded, Zenon
<1>8. \A y \in T : ~(y < t)
  BY <1>6, <1>7, Zenon DEF OpToRel
<1>9. PICK x \in S \ N : t = k - x
  BY <1>7 DEF T
<1>10. Above(x) \subseteq N
  <2> SUFFICES ASSUME NEW b \in S, b > x, b \notin N PROVE FALSE
    BY <1>2
  <2>1. k - b \in T
    BY DEF T
  <2>2. k - b < k - x
    OBVIOUS
  <2> QED
    BY <1>8, <1>9, <2>1, <2>2
<1>11. Cardinality(Above(x)) <= Cardinality(N) /\ Cardinality(Above(x)) \in Nat
  BY <1>3, <1>10, FS_Subset, FS_CardinalityType
<1>12. Cardinality(Above(x)) < n
  BY <1>3, <1>4, <1>11
<1> QED
  BY <1>2, <1>9, <1>12

(* A transaction drops the pending row of a running extraction only for    *)
(* AuditCap newer ones.                                                    *)
LEMMA Displaced ==
    ASSUME TypeOK, NEW m \in Memory, NEW kept \in 0 .. Len(m.ledger),
           Commit(m, kept), NEW j \in Job, audit[j] \in DOMAIN m.audits,
           m.audits[audit[j]].state = "pending",
           audit[j] \notin DOMAIN memory'.audits
    PROVE  Cardinality({b \in Pending(memory'.audits) : b > audit[j]}) >= AuditCap
<1> DEFINE a == audit[j]
           f == m.audits
           g == BoundedAudits(f)
           c == [m EXCEPT !.audits = BoundedAudits(@)]
           P == Pending(f)
           N == Newest(P, AuditCap)
           Above(x) == {b \in P : b > x}
<1>1. f \in Guards /\ m.ledger \in Seq(Source) /\ DOMAIN f \in SUBSET AuditId
  BY GuardsAre DEF Memory
<1>2. /\ P \in SUBSET AuditId /\ a \in P /\ a \in Nat
  BY <1>1, PipelineAssumption DEF Pending, AuditId
<1>3. /\ g \in Guards /\ DOMAIN g \subseteq DOMAIN f
      /\ \A x \in DOMAIN g : g[x] = f[x]
      /\ N \subseteq DOMAIN g
  BY <1>1, Bounded
<1>4. c \in Memory /\ c.ledger = m.ledger /\ c.audits = g
  BY <1>3 DEF Memory
<1>5. memory' \in Fitted(c, kept)
  BY DEF Commit, Candidates
<1>6. N \in SUBSET P /\ N \subseteq Pending(g)
  BY <1>3 DEF Newest, Pending
<1> HIDE DEF c, g
<1>7. Pending(g) \ Abandoned(g) \subseteq Pending(memory'.audits)
  BY <1>4, <1>5, FittedIs
<1>8. \A x \in Abandoned(g) : a # 0 => ~(x >= a)
  <2> SUFFICES ASSUME NEW x \in Abandoned(g), a # 0 PROVE ~(x >= a)
    OBVIOUS
  <2>1. x \in Pending(g) /\ a > x
    BY DEF Abandoned
  <2>2. x \in Nat
    BY <1>1, <1>3, <2>1, PipelineAssumption DEF Pending, AuditId
  <2> QED
    BY <1>2, <2>1, <2>2
<1>9. a # 0 /\ a \in AuditId
  BY <1>2, PipelineAssumption DEF AuditId
<1>10. /\ P \in SUBSET (0 .. MaxAudits) /\ MaxAudits \in Nat /\ AuditCap \in Nat
       /\ P \subseteq Nat
  BY <1>2, PipelineAssumption DEF AuditId
<1>11. a \notin N
  <2>1. a \notin Pending(memory'.audits)
    BY DEF Pending
  <2>2. a \notin Abandoned(g)
    BY <1>2, <1>8, <1>9
  <2> QED
    BY <1>6, <1>7, <2>1, <2>2
<1>12. IsFiniteSet(P) /\ Cardinality(P) \in Nat
  <2>1. IsFiniteSet(0 .. MaxAudits)
    BY <1>10, FS_Interval
  <2> QED
    BY <1>10, <2>1, FS_Subset, FS_CardinalityType
<1>13. \A x : Above(x) \in SUBSET P /\ IsFiniteSet(Above(x))
              /\ Cardinality(Above(x)) \in Nat
              /\ Cardinality(Above(x)) <= Cardinality(P)
  BY <1>12, FS_Subset, FS_CardinalityType
<1>14. \A x \in P : x \in N <=> Cardinality(Above(x)) < AuditCap
  BY DEF Newest
<1>15. Cardinality(Above(a)) >= AuditCap
  <2>1. ~(Cardinality(Above(a)) < AuditCap)
    BY <1>2, <1>11, <1>14
  <2>2. Cardinality(Above(a)) \in Nat
    BY <1>13
  <2> HIDE DEF Above
  <2> QED
    BY <1>10, <2>1, <2>2
<1>16. Cardinality(N) >= AuditCap
  <2>1. Cardinality(P) >= AuditCap
    <3>1. Cardinality(Above(a)) <= Cardinality(P) /\ Cardinality(Above(a)) \in Nat
      BY <1>13
    <3> HIDE DEF Above, P
    <3> QED
      BY <1>10, <1>12, <1>15, <3>1
  <2> QED
    BY <1>10, <2>1, NewestAreMany
<1>17. ASSUME NEW x \in N PROVE x > a
  <2>1. x \in P /\ x \in Nat
    BY <1>6, <1>10
  <2>2. SUFFICES ASSUME x <= a PROVE FALSE
    BY <1>2, <2>1
  <2>3. Above(a) \subseteq Above(x)
    BY <1>2, <1>10, <2>1, <2>2
  <2>4. Cardinality(Above(a)) <= Cardinality(Above(x))
    BY <1>13, <2>3, FS_Subset
  <2>5. Cardinality(Above(x)) < AuditCap
    BY <1>14, <2>1
  <2>6. Cardinality(Above(a)) \in Nat /\ Cardinality(Above(x)) \in Nat
    BY <1>13
  <2> HIDE DEF Above
  <2> QED
    BY <1>10, <1>15, <2>4, <2>5, <2>6
<1> DEFINE Q == {b \in Pending(memory'.audits) : b > a}
<1>18. N \subseteq Q
  <2> SUFFICES ASSUME NEW x \in N PROVE x \in Q
    OBVIOUS
  <2>1. x > a /\ x \in Nat /\ x \in Pending(g)
    BY <1>6, <1>10, <1>17
  <2>2. x \notin Abandoned(g)
    BY <1>2, <1>8, <1>9, <2>1
  <2> QED
    BY <1>7, <2>1, <2>2
<1>19. IsFiniteSet(Q)
  <2>1. memory' \in Memory
    BY <1>4, <1>5, FittedIs
  <2>2. Pending(memory'.audits) \subseteq AuditId
    BY <2>1, GuardsAre DEF Memory
  <2>3. IsFiniteSet(AuditId)
    BY PipelineAssumption, FS_Interval DEF AuditId
  <2> QED
    BY <2>2, <2>3, FS_Subset
<1>20. Cardinality(N) <= Cardinality(Q) /\ Cardinality(N) \in Nat
       /\ Cardinality(Q) \in Nat
  BY <1>18, <1>19, FS_Subset, FS_CardinalityType
<1> HIDE DEF N, Q
<1>21. Cardinality(Q) >= AuditCap
  BY <1>10, <1>16, <1>20
<1> QED
  BY <1>21 DEF Q

Stays ==
    \A j \in Job :
        pc'[j] \in {"prompt", "answer", "settle"}
        /\ audit[j] \in DOMAIN memory.audits \ DOMAIN memory'.audits
        => Cardinality({b \in Pending(memory'.audits) : b > audit[j]}) >= AuditCap

LEMMA AuditsUntouched ==
    ASSUME memory'.audits = memory.audits PROVE Stays
BY DEF Stays

(* The row of a guarded job is pending before the transaction.             *)
LEMMA RowIsPending ==
    ASSUME TypeOK, IInv, NEW i \in Job, pc[i] \in Guarded,
           audit[i] \in DOMAIN memory.audits
    PROVE  memory.audits[audit[i]].state = "pending"
BY DEF IInv, GuardShape, Guarding

LEMMA CommitsKeepGuards ==
    ASSUME TypeOK, IInv, NEW m \in Memory, NEW kept \in 0 .. Len(m.ledger),
           Commit(m, kept),
           \A i \in Job :
              pc'[i] \in Guarded /\ audit[i] \in DOMAIN memory.audits
              => audit[i] \in DOMAIN m.audits
                 /\ m.audits[audit[i]].state = "pending"
    PROVE  Stays
<1> SUFFICES ASSUME NEW i \in Job, pc'[i] \in Guarded,
                    audit[i] \in DOMAIN memory.audits,
                    audit[i] \notin DOMAIN memory'.audits
             PROVE  Cardinality({b \in Pending(memory'.audits) : b > audit[i]})
                       >= AuditCap
  BY DEF Stays, Guarded
<1> QED
  BY Displaced

(* A job that goes on: which others are guarded.                           *)
LEMMA GuardedBefore ==
    ASSUME TypeOK, NEW j \in Job, NEW i \in Job, pc'[i] \in Guarded,
           \/ \E from \in PC, to \in PC : Goto(j, from, to) /\ (i # j \/ to \notin Guarded)
           \/ \E o \in Outcome : Finish(j, o)
    PROVE  pc[i] \in Guarded /\ pc'[i] = pc[i]
<1>1. CASE \E from \in PC, to \in PC : Goto(j, from, to) /\ (i # j \/ to \notin Guarded)
  <2>1. PICK from \in PC, to \in PC : Goto(j, from, to) /\ (i # j \/ to \notin Guarded)
    BY <1>1
  <2> QED
    BY <2>1 DEF Goto, TypeOK
<1>2. CASE \E o \in Outcome : Finish(j, o)
  <2>1. pc'[i] = "done" \/ pc'[i] = pc[i]
    BY <1>2 DEF Finish
  <2> QED
    BY <2>1 DEF Guarded
<1> QED
  BY <1>1, <1>2

(* A transaction that writes no guard row.                                 *)
LEMMA OtherCommits ==
    ASSUME TypeOK, IInv, NEW j \in Job, NEW m \in Memory,
           NEW kept \in 0 .. Len(m.ledger), Commit(m, kept),
           m.audits = memory.audits,
           \/ \E from \in PC, to \in PC : Goto(j, from, to) /\ to \notin Guarded
           \/ \E o \in Outcome : Finish(j, o)
    PROVE  Stays
<1>1. ASSUME NEW i \in Job, pc'[i] \in Guarded, audit[i] \in DOMAIN memory.audits
      PROVE  m.audits[audit[i]].state = "pending"
  <2>1. pc[i] \in Guarded
    BY <1>1, GuardedBefore
  <2> QED
    BY <1>1, <2>1, RowIsPending
<1> QED
  BY <1>1, CommitsKeepGuards

LEMMA HeuristicStays ==
    ASSUME TypeOK, IInv, NEW j \in Job, Heuristic(j) PROVE Stays
<1>1. Goto(j, "heuristic", "recheck") /\ Commit(memory, 0)
  BY DEF Heuristic
<1>2. memory \in Memory /\ 0 \in 0 .. Len(memory.ledger)
  BY DEF TypeOK, Memory
<1>3. {"heuristic", "recheck"} \subseteq PC /\ "recheck" \notin Guarded
  BY DEF PC, Active, Guarded
<1> QED
  BY <1>1, <1>2, <1>3, OtherCommits

LEMMA HealthStays ==
    ASSUME TypeOK, IInv, NEW j \in Job, PersistHealth(j) PROVE Stays
<1> DEFINE h == IF verdict[j] = "success" THEN "ready" ELSE "cooling"
           m == [memory EXCEPT !.model = h]
<1>1. Reported(j) /\ Commit(m, 0)
  BY DEF PersistHealth
<1>2. m \in Memory /\ m.audits = memory.audits
  BY DEF TypeOK, Memory
<1> HIDE DEF m
<1>3. 0 \in 0 .. Len(m.ledger)
  BY <1>2 DEF Memory
<1>4. {"health", "merge"} \subseteq PC /\ "merge" \notin Guarded /\ "llm-failed" \in Outcome
  BY DEF PC, Active, Guarded, Outcome
<1>5. \/ \E from \in PC, to \in PC : Goto(j, from, to) /\ to \notin Guarded
      \/ \E o \in Outcome : Finish(j, o)
  BY <1>1, <1>4 DEF Reported
<1> QED
  BY <1>1, <1>2, <1>3, <1>5, OtherCommits

LEMMA MergeStays ==
    ASSUME TypeOK, IInv, NEW j \in Job, FinalMerge(j) PROVE Stays
<1> DEFINE l == memory.ledger
           b == BoundedLedger(Append(l, source[j]))
           m == [memory EXCEPT !.ledger = b]
<1>1. pc[j] = "merge" /\ Finish(j, "llm-success") /\ Commit(m, 1)
  BY DEF FinalMerge
<1>2. source[j] \in Source /\ l \in Seq(Source) /\ Len(l) \in Nat
  BY <1>1 DEF IInv, JobShape, Knows, Active, TypeOK, Memory
<1>3. b \in Seq(Source) /\ 1 \in 0 .. Len(b)
  BY <1>2, MergedLedger
<1> HIDE DEF b
<1>4. m \in Memory /\ m.audits = memory.audits /\ m.ledger = b
  BY <1>3 DEF TypeOK, Memory
<1> HIDE DEF m
<1>5. "llm-success" \in Outcome
  BY DEF Outcome
<1> QED
  BY <1>1, <1>3, <1>4, <1>5, OtherCommits

LEMMA GuardStays ==
    ASSUME TypeOK, IInv, NEW j \in Job, PersistGuard(j) PROVE Stays
<1> DEFINE g == WithPending(memory.audits, j)
           m == [memory EXCEPT !.audits = g]
<1>1. Goto(j, "guard", "prompt") /\ Commit(m, 0)
  BY DEF PersistGuard, WithGuard
<1>2. /\ m \in Memory /\ m.audits = g /\ 0 \in 0 .. Len(m.ledger)
      /\ DOMAIN g = DOMAIN memory.audits \cup {audit[j]}
      /\ g[audit[j]].state = "pending"
      /\ \A a \in DOMAIN g : a = audit[j]
            \/ (a \in DOMAIN memory.audits /\ g[a] = memory.audits[a])
  BY <1>1, GuardRow DEF Goto
<1> HIDE DEF m, g
<1>3. {"guard", "prompt"} \subseteq PC
  BY DEF PC, Active
<1>4. ASSUME NEW i \in Job, pc'[i] \in Guarded, audit[i] \in DOMAIN memory.audits
      PROVE  audit[i] \in DOMAIN m.audits /\ m.audits[audit[i]].state = "pending"
  <2>1. CASE audit[i] = audit[j]
    BY <1>2, <2>1
  <2>2. CASE audit[i] # audit[j]
    <3>1. pc[i] \in Guarded
      BY <1>1, <1>3, <1>4, <2>2, GuardedBefore
    <3>2. memory.audits[audit[i]].state = "pending"
      BY <1>4, <3>1, RowIsPending
    <3> QED
      BY <1>2, <1>4, <2>2, <3>2
  <2> QED
    BY <2>1, <2>2
<1> QED
  BY <1>1, <1>2, <1>4, CommitsKeepGuards

LEMMA SettleStays ==
    ASSUME TypeOK, IInv, NEW j \in Job, Settle(j) PROVE Stays
<1>1. CASE audit[j] \notin DOMAIN memory.audits
  <2>1. memory' = memory
    BY <1>1 DEF Settle
  <2> QED
    BY <2>1, AuditsUntouched
<1>2. CASE audit[j] \in DOMAIN memory.audits
  <2> DEFINE e == [memory.audits[audit[j]] EXCEPT !.state = verdict[j]]
             g == [memory.audits EXCEPT ![audit[j]] = e]
             m == [memory EXCEPT !.audits = g]
  <2>1. Goto(j, "settle", "health") /\ Commit(m, 0) /\ pc[j] = "settle"
    BY <1>2 DEF Settle, Goto
  <2>2. /\ m \in Memory /\ m.audits = g /\ 0 \in 0 .. Len(m.ledger)
        /\ DOMAIN g = DOMAIN memory.audits
        /\ \A a \in DOMAIN g : a # audit[j] => g[a] = memory.audits[a]
    BY <1>2, <2>1, SettledRow
  <2> HIDE DEF m, g
  <2>3. {"settle", "health"} \subseteq PC /\ "health" \notin Guarded
    BY DEF PC, Active, Guarded
  <2>4. ASSUME NEW i \in Job, pc'[i] \in Guarded, audit[i] \in DOMAIN memory.audits
        PROVE  audit[i] \in DOMAIN m.audits /\ m.audits[audit[i]].state = "pending"
    <3>1. pc[i] \in Guarded /\ pc'[i] = pc[i]
      BY <2>1, <2>3, <2>4, GuardedBefore
    <3>2. pc'[j] = "health"
      BY <2>1 DEF Goto, TypeOK
    <3>3. i # j
      BY <2>3, <2>4, <3>2
    <3>4. audit[i] # 0
      BY <3>1 DEF IInv, JobShape, Knows, Guarded, Extracting
    <3>5. audit[i] # audit[j]
      BY <3>3, <3>4 DEF IInv, JobShape
    <3>6. memory.audits[audit[i]].state = "pending"
      BY <2>4, <3>1, RowIsPending
    <3> QED
      BY <2>2, <2>4, <3>5, <3>6
  <2> QED
    BY <2>1, <2>2, <2>4, CommitsKeepGuards
<1> QED
  BY <1>1, <1>2

(* While an extraction is prompting, its guard row is dropped neither for  *)
(* completed history nor under pressure: only AuditCap newer pending ones  *)
(* displace it.                                                            *)
THEOREM GuardsStay == Spec => PendingGuardsStay
<1>1. TypeOK /\ IInv /\ [Next]_vars => [Stays]_memory
  <2> SUFFICES ASSUME TypeOK, IInv, [Next]_vars, memory' # memory PROVE Stays
    OBVIOUS
  <2>1. CASE \E j \in Job : Step(j)
    <3>1. PICK j \in Job : Step(j)
      BY <2>1
    <3>2. ~(Fetch(j) \/ FetchFails(j) \/ Prepare(j) \/ PrepareFails(j) \/ Start(j))
      BY DEF Fetch, FetchFails, Prepare, PrepareFails, Start
    <3>3. ~(Recheck(j) \/ CreateSession(j) \/ CreateFails(j) \/ Prompt(j))
      BY DEF Recheck, CreateSession, CreateFails, Prompt
    <3>4. ~(Accept(j) \/ Refuse(j) \/ ReportFails(j) \/ FinalNoop(j))
      BY DEF Accept, Refuse, ReportFails, FinalNoop
    <3>5. ~\E o \in {"write-failed", "queue-failed"} : TransactionFails(j, o)
      BY DEF TransactionFails
    <3>6. \/ Heuristic(j) \/ PersistGuard(j) \/ Settle(j) \/ PersistHealth(j)
          \/ FinalMerge(j)
      BY <3>1, <3>2, <3>3, <3>4, <3>5 DEF Step
    <3> QED
      BY <3>6, HeuristicStays, GuardStays, SettleStays, HealthStays, MergeStays
  <2>2. CASE CoolDown
    <3>1. memory'.audits = memory.audits
      BY <2>2 DEF CoolDown, TypeOK, Memory
    <3> QED
      BY <3>1, AuditsUntouched
  <2>3. ~\E j \in Job, p \in Process, s \in Session \cup prompted : IdleEvent(j, p, s)
    BY DEF IdleEvent
  <2>4. ~\E s \in Session : Talk(s)
    BY DEF Talk
  <2>5. ~\E p \in Process : Crash(p)
    BY DEF Crash
  <2> QED
    BY <2>1, <2>2, <2>3, <2>4, <2>5 DEF Next, vars
<1>2. TypeOK /\ IInv /\ [Next]_vars =>
        [\A j \in Job :
            /\ pc'[j] \in {"prompt", "answer", "settle"}
            /\ audit[j] \in DOMAIN memory.audits \ DOMAIN memory'.audits
            => Cardinality({b \in Pending(memory'.audits) : b > audit[j]}) >= AuditCap
        ]_memory
  BY <1>1 DEF Stays
<1> QED
  BY <1>2, Inductive, PTL DEF Spec, PendingGuardsStay
=============================================================================
