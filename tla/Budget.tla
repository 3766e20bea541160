-------------------------------- MODULE Budget --------------------------------
(***************************************************************************)
(* fitMemoryToBudget (memory/budget.ts): what a commit may leave out of    *)
(* the document that a transaction hands it, stage by stage, and when it   *)
(* refuses the document instead.                                           *)
(*                                                                         *)
(* A protection is what the transaction asks to keep: the ids of rows, the *)
(* keys of processed sources and the sessions of audits.                   *)
(***************************************************************************)
EXTENDS MemoryDocument

CONSTANTS
    MaxBytes,     \* MEMORY_MAX_BYTES
    Horizon,      \* ticks in the 30 days after which a row is old
    AuditTimeout  \* ticks in the 24 hours after which a pending audit failed

ASSUME BudgetAssumption == MaxBytes \in Nat /\ Horizon \in Nat /\ AuditTimeout \in Nat

Unprotected == [rows |-> {}, sources |-> {}, audits |-> {}]

Over(m) == Size(m) > MaxBytes

Most(counts) == CHOOSE n \in counts : \A k \in counts : k <= n

\* The loops that shorten a list until the document With(list) fits: from its
\* front, or from its end.
NewestThatFit(s, With(_)) ==
    LET counts == {n \in 0 .. Len(s) : n = 0 \/ ~Over(With(LastOf(s, n)))}
    IN  LastOf(s, Most(counts))

FirstThatFit(s, floor, With(_)) ==
    LET counts == {n \in floor .. Len(s) : n = floor \/ ~Over(With(FirstOf(s, n)))}
    IN  FirstOf(s, Most(counts))

-----------------------------------------------------------------------------
ProtectedIds(m, p) ==
    p.rows \cup {r.id : r \in {r \in Range(m.decisions) :
        Has(r, "foundational") \/ Has(r, "human_conflict_quarantined")}}

IsPending(a) == a.state = "pending"
IsCompleted(a) == a.state # "pending"

\* Stage 0: a pending audit of which nobody has heard for a day has failed.
ExpireAudits(m, now) ==
    [m EXCEPT !.audits = Mapped(@, LAMBDA a :
        IF IsPending(a) /\ now - a.stamp > AuditTimeout
        THEN [a EXCEPT !.state = "completed"] ELSE a)]

\* Stage 1: the oldest completed audits go, the pending ones are guards. What
\* the transaction protects is not asked for.
ShedAudits(m) ==
    LET pending == Those(m.audits, IsPending)
        With(kept) == [m EXCEPT !.audits = kept \o pending]
    IN  With(NewestThatFit(LastOf(Those(m.audits, IsCompleted), Cap.audits), With))

\* Stage 2.
ShedCache(m) ==
    LET With(kept) == [m EXCEPT !.cache = kept]
    IN  With(NewestThatFit(LastOf(m.cache, Cap.cache), With))

\* Stage 3: model health, then the count of quarantined cache entries.
ShedHealth(m) ==
    LET With(kept) == [m EXCEPT !.health = kept]
        shed == With(NewestThatFit(LastOf(m.health, Cap.health), With))
    IN  IF Over(shed) THEN [shed EXCEPT !.quarantined = 0] ELSE shed

\* A bug: no completion is protected.
ShedBookkeepingUnprotected(m, p) ==
    LET WithSessions(kept) == [m EXCEPT !.sessions = kept]
        shed == WithSessions(NewestThatFit(LastOf(m.sessions, Cap.sessions), WithSessions))
        WithSources(kept) == [shed EXCEPT !.sources = kept]
    IN  WithSources(NewestThatFit(LastOf(m.sources, Cap.sources), WithSources))

\* Stage 4: sessions, then completions that the transaction does not protect.
\* The protected ones move to the end.
ShedBookkeeping(m, p) ==
    LET kept == Within(m.sources, p.sources)
        others == LastOf(Within(m.sources, Range(m.sources) \ p.sources), Cap.sources)
        WithSessions(s) == [m EXCEPT !.sources = others \o kept, !.sessions = s]
        shed == WithSessions(NewestThatFit(LastOf(m.sessions, Cap.sessions), WithSessions))
        WithSources(s) == [shed EXCEPT !.sources = s \o kept]
    IN  WithSources(NewestThatFit(others, WithSources))

\* Stages 5 and 7, whatever the size: rows that lost their validity, and rows
\* of more than 30 days or of no known time, unless they are protected.
KeepRows(m, rows) == [m EXCEPT !.decisions = Within(@, rows)]

DropInvalid(m, p) ==
    LET ids == ProtectedIds(m, p)
    IN  KeepRows(m, {r \in Range(m.decisions) : Has(r, "still_valid") \/ r.id \in ids})

DropOld(m, now, p) ==
    LET ids == ProtectedIds(m, p)
    IN  KeepRows(m, {r \in Range(m.decisions) :
                        r.id \in ids \/ (r.stamp # NoTime /\ now <= r.stamp + Horizon)})

\* Stage 6: the files touched last stay.
ShedFiles(m) ==
    LET With(kept) == [m EXCEPT !.files = kept]
        newest == Sorted(m.files, LAMBDA f, g : f.touched > g.touched)
    IN  With(FirstThatFit(FirstOf(newest, Cap.files), 0, With))

\* truncateUtf8: the marker counts; a text of the limit's length stays.
Truncated(length, limit) == IF length > limit THEN limit ELSE length

\* Stage 8, whatever the size: optional detail is shortened, and of blockers
\* and next steps the last ones stay.
Shorten(m) ==
    LET Short(t) == Truncated(t, Cap.detail)
    IN  [m EXCEPT
            !.decisions = Mapped(@, LAMBDA r : [r EXCEPT !.text = Short(@)]),
            !.files = Mapped(@, LAMBDA f : [f EXCEPT !.reason = Short(@)]),
            !.blockers = Mapped(LastOf(@, Cap.entries), Short),
            !.steps = Mapped(LastOf(@, Cap.entries), Short),
            !.task.text = Short(@)]

\* A bug: only the time of a row counts, not its use.
MoreUsedByTime(r, s) == r.stamp > s.stamp

\* Recalled rows first, in the order of the ids of the sessions that recalled
\* them (compared as strings: nothing orders ids by time), then the newest.
MoreUsed(r, s) == r.used > s.used \/ (r.used = s.used /\ r.stamp > s.stamp)

\* Stage 9: the rows that nothing protects, from the end of that order.
ShedRows(m, p) ==
    LET ids == ProtectedIds(m, p)
        protected == {r \in Range(m.decisions) : r.id \in ids}
        kept == Within(m.decisions, protected)
        others == Sorted(Within(m.decisions, Range(m.decisions) \ protected), MoreUsed)
        With(rows) == [m EXCEPT !.decisions = rows]
    IN  IF others = <<>> THEN m
        ELSE With(FirstThatFit(kept \o others, Len(kept), With))

\* Stage 10: what the current session is about.
ShedOldFiles(m) ==
    LET With(kept) == [m EXCEPT !.files = kept]
    IN  With(NewestThatFit(Sorted(m.files, LAMBDA f, g : f.touched < g.touched), With))

ShedBlockers(m) ==
    LET With(kept) == [m EXCEPT !.blockers = kept]
    IN  With(NewestThatFit(m.blockers, With))

ShedSteps(m) ==
    LET With(kept) == [m EXCEPT !.steps = kept]
    IN  With(NewestThatFit(m.steps, With))

\* A task that is still too long after stage 8 can only go.
ShedTask(m) == IF Over(m) THEN [m EXCEPT !.task.text = 0] ELSE m

ShedEphemeral(m) == ShedTask(ShedSteps(ShedBlockers(ShedOldFiles(m))))

\* Stages 0 to 8, which every commit goes through.
Tidied(m, now, p) ==
    LET booked == ShedBookkeeping(ShedHealth(ShedCache(ShedAudits(ExpireAudits(m, now)))), p)
    IN  Shorten(DropOld(ShedFiles(DropInvalid(booked, p)), now, p))

\* A bug: under pressure the task, the blockers and the steps are left alone.
PressedRowsOnly(m, p) == IF Over(m) THEN ShedRows(m, p) ELSE m

\* Stages 9 and 10, only while the document is too large.
Pressed(m, p) ==
    LET fewer == IF Over(m) THEN ShedRows(m, p) ELSE m
    IN  IF Over(fewer) THEN ShedEphemeral(fewer) ELSE fewer

Fitted(m, now, p) == Pressed(Tidied(m, now, p), p)

\* Stage 11: the state that no commit may do without, texts and all.
Minimal(m, p) ==
    LET ids == ProtectedIds(m, p)
    IN  [m EXCEPT !.decisions = Those(@, LAMBDA r : r.id \in ids),
                  !.sources = Within(@, p.sources),
                  !.audits = Those(@, LAMBDA a : a.id \in p.audits),
                  !.files = <<>>, !.blockers = <<>>, !.steps = <<>>,
                  !.sessions = <<>>, !.cache = <<>>, !.health = <<>>,
                  !.quarantined = 0, !.task = [text |-> 0, by |-> "none"]]

\* fitMemoryToBudget.
Fit(m, now, p) ==
    LET fitted == Fitted(m, now, p)
    IN  IF ~Over(fitted) THEN [fits |-> TRUE, memory |-> fitted]
        ELSE [fits |-> FALSE, memory |-> m,
              reason |-> IF Over(Minimal(m, p)) THEN "foundational-state-exceeds-budget"
                         ELSE "required-state-exceeds-budget"]
=============================================================================
