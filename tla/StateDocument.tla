----------------------------- MODULE StateDocument -----------------------------
(***************************************************************************)
(* The life of a project's STATE.json as a document: it is read through    *)
(* the migration of whatever release wrote it (Migration), a transaction   *)
(* of the writer, of the recall tools or of the CLI changes what was read, *)
(* and the budget (Budget) makes of that what is committed, or refuses it. *)
(*                                                                         *)
(* mutateMemory holds the project lock from the read to the commit (module *)
(* MemoryStore), so there is one transaction at a time.  The topics of the *)
(* decisions are all different: which row is the authority of a topic is   *)
(* the question of module Decisions.                                       *)
(***************************************************************************)
EXTENDS Budget, Migration

CONSTANTS
    InitialFiles, \* the documents that behaviours start from
    Session,      \* user sessions: naturals, which order as their ids compare
    Model,        \* models of which health is reported
    Text,         \* lengths of a rationale, a reason, a task or an entry
    MaxTurns,     \* bound: transactions
    MaxClock      \* bound: ticks of the clock

\* The keys of decisions that this program makes follow those of before.
FirstKey == 1000

LinksOf(m) == UNION {r.lineage : r \in Range(m.decisions)}

\* What was there before has a name for an id, of no digest or number.
FromBefore(m) == \A x \in Range(m.decisions) \cup LinksOf(m) :
    Len(x.id) = 1 /\ x.id[1] # "new" /\ x.key < FirstKey

\* Nor was a source of before completed in a turn that is to come.
DoneBefore(m) == \A k \in Range(m.sources) : k >= MaxTurns

\* A reference was made when the oldest of the rows with its id was the only one.
MeansOldest(rows) == \A i \in DOMAIN rows : \A l \in UNION {r.lineage : r \in Range(rows)} :
    rows[i].key = l.key <=>
        rows[i].id = l.id /\ \A j \in Namesakes(rows, i) : ~Earlier(rows, j, i)

ASSUME StateDocumentAssumption ==
    /\ \A m \in InitialFiles : /\ m \in Document /\ FromBefore(m) /\ DoneBefore(m)
                              /\ MeansOldest(m.decisions)
    /\ "new" \in Name
    /\ Session \subseteq Nat \ {0} /\ Model \subseteq Nat /\ Text \subseteq Nat
    /\ MaxTurns \in Nat /\ MaxClock \in Nat \ {0}

VARIABLES
    file,      \* the document on disk
    pending,   \* the transaction that holds the lock: its memory, what it
               \*   protects and what the budget says of it
    turns,     \* transactions begun; new ids and keys are numbered by it
    clock,
    shown,     \* the row that the CLI shows a human, and the id to be typed
    confirmed  \* the keys of the decisions that a human confirmed

vars == <<file, pending, turns, clock, shown, confirmed>>

Unjudged == [fits |-> FALSE, memory |-> Unreadable]
Idle == [memory |-> Unreadable, protection |-> Unprotected, verdict |-> Unjudged]
Nothing == [id |-> <<>>, key |-> 0]

Read == Load(file)
RowsOf(m) == Range(m.decisions)
Ids(rows) == {r.id : r \in rows}

NewId == <<"new", turns>>
NewKey == FirstKey + turns

-----------------------------------------------------------------------------
(* What the transactions make of the memory they read                      *)

\* recordRecentSession.
RecordSession(m, s) ==
    IF s \in Range(m.sessions) THEN m
    ELSE [m EXCEPT !.sessions = LastOf(Append(@, s), Cap.sessions)]

NewRow(by, text) ==
    [id |-> NewId, key |-> NewKey, by |-> by, flags |-> {"still_valid"},
     stamp |-> clock, used |-> 0, text |-> text, lineage |-> {}]

AddRow(m, r) == [m EXCEPT !.decisions = Append(@, r)]

\* The row of the same topic with another text gives way to the new one.
Replaceable(r) == Has(r, "still_valid") /\ ~ClaimsHuman(r)

GiveWay(m, id) ==
    [m EXCEPT !.decisions = Mapped(@, LAMBDA r :
        IF r.id # id THEN r
        ELSE [r EXCEPT !.flags = @ \ {"still_valid"},
                       !.lineage = @ \cup {[id |-> NewId, key |-> NewKey]}])]

\* The heuristics say anew what the session is about: what they do not find
\* is gone, but for the task.
Observed(m, s, t) ==
    RecordSession(
        [m EXCEPT !.files = IF t = 0 THEN <<>>
                            ELSE <<[path |-> 1, touched |-> clock,
                                    by |-> "heuristic", reason |-> t]>>,
                  !.blockers = IF t = 0 THEN <<>> ELSE <<t>>,
                  !.steps = IF t = 0 THEN <<>> ELSE <<t>>,
                  !.task = IF t = 0 THEN @ ELSE [text |-> t, by |-> "heuristic"]], s)

\* A recalled row remembers the session.
Recalled(m, id, s) ==
    [m EXCEPT !.decisions = Mapped(@, LAMBDA r :
        IF r.id = id THEN [r EXCEPT !.used = s] ELSE r)]

\* A bug: the entry is written without the version of the extraction contract.
CompletedUnversioned(m, k) ==
    [m EXCEPT !.cache = LastOf(Append(@, [key |-> k, kind |-> "old"]), Cap.cache),
              !.sources = LastOf(Append(@, k), Cap.sources)]

\* upsertExtractionCache and upsertProcessedSource for a new source.
Completed(m, k) ==
    [m EXCEPT !.cache = LastOf(Append(@, [key |-> k, kind |-> "current"]), Cap.cache),
              !.sources = LastOf(Append(@, k), Cap.sources)]

\* mostRecentAuditRecords: slice(-0) is all of the list.
MostRecent(s, n) ==
    LET after(i, j) == s[i].stamp > s[j].stamp \/ (s[i].stamp = s[j].stamp /\ i > j)
        recent == {j \in DOMAIN s : Cardinality({i \in DOMAIN s : after(i, j)}) < n}
    IN  IF n = 0 THEN s ELSE At(s, recent)

\* boundedAuditMetadata: the most recent pending audits, and completed ones
\* as far as there is room.

BoundedAudits(s) ==
    LET active == MostRecent(Those(s, IsPending), Cap.audits)
    IN  MostRecent(Those(s, IsCompleted), Cap.audits - Len(active)) \o active

Guarded(m) ==
    [m EXCEPT !.audits = BoundedAudits(
        Append(Those(@, LAMBDA a : a.id # turns),
               [id |-> turns, state |-> "pending", stamp |-> clock]))]

Settle(m, id) ==
    [m EXCEPT !.audits = Mapped(@, LAMBDA a :
        IF a.id = id THEN [a EXCEPT !.state = "completed"] ELSE a)]

Reported(m, model) ==
    [m EXCEPT !.health = LastOf(Append(Those(@, LAMBDA h : h # model), model),
                                Cap.health)]

Flagged(m, id, Op(_)) ==
    [m EXCEPT !.decisions = Mapped(@, LAMBDA r : IF r.id = id THEN Op(r) ELSE r)]

Requested(r) == [r EXCEPT !.flags = @ \cup {"foundational_requested"}]

Confirmed(r) ==
    [r EXCEPT !.flags = (@ \ {"foundational_requested"})
                           \cup {"foundational", "human_review"},
              !.by = "human"]

-----------------------------------------------------------------------------
Init ==
    /\ file \in InitialFiles
    /\ pending = Idle
    /\ turns = 0 /\ clock = 1
    /\ shown = Nothing
    /\ confirmed = {r.key : r \in {r \in RowsOf(file) :
          Has(r, "human_review") /\ \A q \in RowsOf(file) : q.id = r.id => q = r}}

\* mutateMemory: the lock is taken, the file could be read, and the
\* transaction makes m of it.
Begin(m, protection) ==
    /\ pending = Idle /\ turns < MaxTurns
    /\ pending' = [memory |-> m, protection |-> protection, verdict |-> Unjudged]
    /\ turns' = turns + 1
    /\ UNCHANGED <<file, clock>>

\* The heuristic transaction: it protects nothing. A transcript in which
\* nothing is found (t = 0) brings no decision either.
Observe(m, s, t) ==
    /\ \/ Begin(Observed(m, s, t), Unprotected)
       \/ t # 0 /\ Begin(AddRow(Observed(m, s, t), NewRow("heuristic", t)), Unprotected)
       \/ \E r \in RowsOf(m) :
             /\ t # 0 /\ Replaceable(r)
             /\ Begin(AddRow(GiveWay(Observed(m, s, t), r.id), NewRow("heuristic", t)),
                      Unprotected)
       \/ \E r \in RowsOf(m) : Begin(Recalled(Observed(m, s, t), r.id, s), Unprotected)
    /\ UNCHANGED <<shown, confirmed>>

\* The final merge of an LLM's facts protects the completion of its source.
Learn(m, s, t) ==
    /\ Begin(Completed(RecordSession(AddRow(m, NewRow("llm", t)), s), turns),
             [Unprotected EXCEPT !.sources = {turns}])
    /\ UNCHANGED <<shown, confirmed>>

PersistAuditGuard(m) ==
    /\ Begin(Guarded(m), [Unprotected EXCEPT !.audits = {turns}])
    /\ UNCHANGED <<shown, confirmed>>

PersistTerminal(m, id) ==
    /\ \E a \in Range(m.audits) : a.id = id
    /\ Begin(Settle(m, id), [Unprotected EXCEPT !.audits = {id}])
    /\ UNCHANGED <<shown, confirmed>>

PersistModelHealth(m, model) ==
    /\ Begin(Reported(m, model), Unprotected)
    /\ UNCHANGED <<shown, confirmed>>

RecallPromote(m) ==
    /\ \E r \in RowsOf(m) :
          /\ Replaceable(r)
          /\ Begin(Flagged(m, r.id, Requested), [Unprotected EXCEPT !.rows = {r.id}])
    /\ UNCHANGED <<shown, confirmed>>

Promotable(r) == Replaceable(r) /\ Has(r, "foundational_requested")

\* tokenmaxxer promote: the row is printed, the human types its id. This read
\* takes no lock, but until a transaction commits it reads what it would have
\* read before the transaction, and is put there.
Show(m) ==
    /\ shown = Nothing
    /\ \E r \in RowsOf(m) :
          Promotable(r) /\ shown' = [id |-> r.id, key |-> r.key]
    /\ UNCHANGED <<file, pending, turns, clock, confirmed>>

Confirm(m) ==
    /\ shown # Nothing
    /\ \E r \in RowsOf(m) : r.id = shown.id /\ Promotable(r)
    /\ Begin(Flagged(m, shown.id, Confirmed), [Unprotected EXCEPT !.rows = {shown.id}])
    /\ confirmed' = confirmed \cup {shown.key}
    /\ shown' = Nothing

\* The row is not what it was: "decision-changed-during-review".
LookAway ==
    /\ shown # Nothing /\ pending = Idle
    /\ shown' = Nothing
    /\ UNCHANGED <<file, pending, turns, clock, confirmed>>

FitToBudget ==
    /\ pending # Idle /\ pending.verdict = Unjudged
    /\ pending' = [pending EXCEPT !.verdict =
                      Fit(pending.memory, clock, pending.protection)]
    /\ UNCHANGED <<file, turns, clock, shown, confirmed>>

Judged == pending.verdict # Unjudged

\* commitMemoryExact validates what the budget made of the memory.
Accepted(v) == v.fits /\ Legal(v.memory)

Commit ==
    /\ Judged /\ Accepted(pending.verdict)
    /\ file' = pending.verdict.memory
    /\ pending' = Idle
    /\ UNCHANGED <<turns, clock, shown, confirmed>>

\* "budget-rejected" or "commit-failed": nothing is written.
Refuse ==
    /\ Judged /\ ~Accepted(pending.verdict)
    /\ pending' = Idle
    /\ UNCHANGED <<file, turns, clock, shown, confirmed>>

\* A transaction is short: a day does not pass while it holds the lock.
Tick ==
    /\ pending = Idle /\ clock < MaxClock
    /\ clock' = clock + 1
    /\ UNCHANGED <<file, pending, turns, shown, confirmed>>

Next ==
    \/ pending = Idle /\ LET m == Read IN
          /\ m # Unreadable
          /\ \/ \E s \in Session, t \in Text \cup {0} : Observe(m, s, t)
             \/ \E s \in Session, t \in Text : Learn(m, s, t)
             \/ PersistAuditGuard(m)
             \/ \E id \in Ids(Range(m.audits)) : PersistTerminal(m, id)
             \/ \E model \in Model : PersistModelHealth(m, model)
             \/ RecallPromote(m)
             \/ Show(m)
             \/ Confirm(m)
    \/ LookAway
    \/ FitToBudget
    \/ Commit \/ Refuse
    \/ Tick

Spec == Init /\ [][Next]_vars

-----------------------------------------------------------------------------
(* Properties                                                              *)

\* What this program wrote it reads as it wrote it, without a repair, and
\* with nothing left for the budget to do: a second commit of the same
\* memory at the same time changes nothing.
Settled == [][file' # file =>
    /\ Load(file') = file'
    /\ Fit(file', clock, pending.protection).memory = file']_vars

\* A row is trusted as a human's only if a human was shown the decision it
\* is about and confirmed it, though the id that was typed may have been
\* that of several rows, repaired anew at every read (migrate.ts 121-147).
OnlyConfirmedIsTrusted ==
    LET m == Read IN
    m # Unreadable => {r.key : r \in {r \in RowsOf(m) : ClaimsHuman(r)}} \subseteq confirmed

\* A reference to another row leads to the decision it meant, or to a row
\* that is gone, never to another decision: through the repair of shared and
\* of overlong ids and through every commit after it.
LineageHolds ==
    LET m == Read IN
    m # Unreadable => \A r, q \in RowsOf(m) : \A l \in r.lineage :
                          q.id = l.id <=> q.key = l.key

-----------------------------------------------------------------------------
(* What the budget makes of the transaction that holds the lock: of the    *)
(* candidate c the result r                                                *)

\* The rows that no budget may take away.
Kept(m) == {r \in RowsOf(m) :
    \/ r.flags \cap {"foundational", "human_conflict_quarantined"} # {}
    \/ r.id \in pending.protection.rows}

\* The others that are not dropped whatever the size.
Current(m) == {r \in RowsOf(m) : /\ Has(r, "still_valid")
                                 /\ r.stamp # NoTime /\ clock - r.stamp <= Horizon
                                 /\ r \notin Kept(m)}

Stale(a) == clock - a.stamp > AuditTimeout
Guards(m) == {a \in Range(m.audits) : a.state = "pending" /\ ~Stale(a)}

IsSuffix(s, t) == \E n \in 0 .. Len(t) : s = LastOf(t, n)

\* No protected row goes, and of the others only current ones stay.
LeavesRows(c, r) ==
    /\ Ids(Kept(c)) \subseteq Ids(RowsOf(r))
    /\ Ids(RowsOf(r)) \subseteq Ids(Kept(c) \cup Current(c))

AsAssumed(c, r) ==
    /\ LeavesRows(c, r)
    /\ Size(c) <= MaxBytes => Ids(Current(c)) \subseteq Ids(RowsOf(r))
    /\ IsSuffix(r.sources, c.sources)
    /\ Range(c.sources) \cap pending.protection.sources \subseteq Range(r.sources)
    /\ Guards(c) \subseteq Range(r.audits)

\* What the other models take a commit to do (Fits of Decisions, Fitted of
\* IdlePipeline): no protected row goes, of the others only current ones
\* stay, and all of these when the document was not too large; the
\* completions that stay are the newest and include the transaction's own; a
\* guard of an audit session that may still answer stays.
FitsAsAssumed ==
    Judged /\ pending.verdict.fits => AsAssumed(pending.memory, pending.verdict.memory)

\* The classes of what may be left out, the most disposable first: how much
\* of each is within its count.
Disposable(m) ==
    <<Len(LastOf(Those(m.audits, LAMBDA a : a.state # "pending" \/ Stale(a)), Cap.audits)),
      Len(m.cache), Len(m.health), m.quarantined, Len(m.sessions),
      Cardinality(Range(m.sources) \ pending.protection.sources),
      Len(FirstOf(m.files, Cap.files)), Cardinality(Current(m)),
      Len(LastOf(m.blockers, Cap.entries)), Len(LastOf(m.steps, Cap.entries)),
      IF m.task.text = 0 THEN 0 ELSE 1>>

InOrder(c, r) ==
    LET had == Disposable(c)  has == Disposable(r) IN
    /\ \A k \in DOMAIN had : has[k] < had[k] => \A j \in 1 .. k - 1 : has[j] = 0
    /\ \A f \in Range(c.files), g \in Range(r.files) :
          f.path \notin {h.path : h \in Range(r.files)} => f.touched <= g.touched
    /\ \A x \in Current(c), q \in Current(r) :
          x.id \notin Ids(RowsOf(r)) =>
              x.used < q.used \/ (x.used = q.used /\ x.stamp <= q.stamp)

\* The order in which a document gives way (budget.ts, stages 1 to 10): a
\* class loses something for lack of room only when all the classes that
\* matter less are empty; what is left of the files is what was touched last.
\* Of the rows, no recalled one goes before one that no session recalled, and
\* of those with one last session, or none, the newest stay. Between sessions
\* the code compares ids as strings (budget.ts:472-479), so the row that stays
\* is that of the greater id: that it is the one recalled last, as the comment
\* at :453 has it, is not claimed, and nothing makes it true.
ShedInOrder ==
    Judged /\ pending.verdict.fits => InOrder(pending.memory, pending.verdict.memory)

\* What no stage may touch: protected rows without their detail, protected
\* completions and the guards.
Irreducible(m) ==
    Size([m EXCEPT
        !.decisions = Mapped(Within(@, Kept(m)),
                             LAMBDA r : [r EXCEPT !.text =
                                            IF @ > Cap.detail THEN Cap.detail ELSE @]),
        !.sources = Within(@, pending.protection.sources),
        !.audits = Within(@, Guards(m)),
        !.files = <<>>, !.blockers = <<>>, !.steps = <<>>, !.sessions = <<>>,
        !.cache = <<>>, !.health = <<>>, !.quarantined = 0, !.task.text = 0])

\* What fits is small enough, and legal unless the pending audits alone fill
\* their collection: slice(-0) then keeps completed ones beside them.
Committable(c, r) ==
    /\ Size(r) <= MaxBytes
    /\ Legal(r) <=> Len(r.audits) <= Cap.audits
    /\ Len(r.audits) > Cap.audits => Len(Those(c.audits, IsPending)) >= Cap.audits

\* A transaction is refused exactly when what must stay does not fit: a
\* human's confirmation or an observation is never lost to data that could
\* have gone instead. Of what fits the commit's validation has nothing to
\* refuse but too many audits.
RefusesOnlyIrreducible == Judged =>
    /\ pending.verdict.fits <=> Irreducible(pending.memory) <= MaxBytes
    /\ pending.verdict.fits => Committable(pending.memory, pending.verdict.memory)
=============================================================================
