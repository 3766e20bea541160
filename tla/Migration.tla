------------------------------- MODULE Migration -------------------------------
(***************************************************************************)
(* loadAndMigrate (memory/migrate.ts): how a document of any release is    *)
(* read.  Reading is pure: the repairs below are made again at every read  *)
(* until a commit writes their result, so they must not depend on anything *)
(* but the document.                                                       *)
(***************************************************************************)
EXTENDS MemoryDocument

\* What a row may no longer claim.
AsLegacy(r) == [r EXCEPT !.by = "legacy"]

Unconfirmed(r) ==
    [r EXCEPT !.flags = (@ \ {"foundational", "human_review"})
                           \cup {"foundational_requested"},
              !.by = IF @ = "human" THEN "legacy" ELSE @]

Counted(m, dropped) ==
    [m EXCEPT !.quarantined =
        IF @ + dropped > Cap.quarantined THEN Cap.quarantined ELSE @ + dropped]

\* The cache entries that pass stay, the others are only counted.
KeepCache(m, Test(_)) ==
    LET kept == Those(m.cache, Test)
        dropped == Len(m.cache) - Len(kept)
    IN  IF dropped = 0 THEN m ELSE [Counted(m, dropped) EXCEPT !.cache = kept]

-----------------------------------------------------------------------------
\* Version 1 need not have sessions; without them the list is empty.
MigrateV1ToV2(m) == [m EXCEPT !.version = 2]

\* Version 2 had no provenance worth trusting: every fact becomes legacy, and
\* cache entries without evidence are dropped.
MigrateV2ToV3(m) ==
    KeepCache([m EXCEPT !.version = CurrentVersion,
                        !.decisions = Mapped(@, AsLegacy),
                        !.files = Mapped(@, LAMBDA f : [f EXCEPT !.by = "legacy"]),
                        !.task = IF @.text = 0 THEN @ ELSE [@ EXCEPT !.by = "legacy"]],
              LAMBDA e : e.kind # "unproven")

Upgraded(m) ==
    CASE m.version = 1 -> MigrateV2ToV3(MigrateV1ToV2(m))
      [] m.version = 2 -> MigrateV2ToV3(m)
      [] OTHER         -> m

\* Cache entries of an earlier extraction contract are disposable.
QuarantineStaleCache(m) == KeepCache(m, LAMBDA e : e.kind # "old")

\* Before reviews were recorded the model could claim one.
RepairUnverified(rows) ==
    Mapped(rows, LAMBDA r :
        IF r.by = "human" /\ ~Has(r, "human_review") THEN Unconfirmed(r) ELSE r)

-----------------------------------------------------------------------------
(* Rows that share an id, and ids that are too long                        *)

Namesakes(rows, i) == {j \in DOMAIN rows : rows[j].id = rows[i].id}

Earlier(rows, j, i) ==
    LET t == rows[j].stamp  u == rows[i].stamp
    IN  CASE t # NoTime /\ u # NoTime /\ t # u -> t < u
          [] t # NoTime /\ u = NoTime          -> TRUE
          [] t = NoTime /\ u # NoTime          -> FALSE
          [] OTHER                             -> j < i

\* A bug: the first row of the document keeps the id, not the oldest.
OrdinalInDocument(rows, i) == Cardinality({j \in Namesakes(rows, i) : j < i})

\* A row's place among its namesakes, the oldest first.
Ordinal(rows, i) == Cardinality({j \in Namesakes(rows, i) : Earlier(rows, j, i)})

\* A digest of the old id and the place.
DerivedId(id, ordinal) == Append(id, ordinal)

RepairedId(rows, i) ==
    LET n == Ordinal(rows, i)
    IN  IF n = 0 /\ rows[i].id \notin Overlong THEN rows[i].id
        ELSE DerivedId(rows[i].id, n)

\* A bug: the review stays with the row that keeps the id.
AmbiguousOthers(rows, i) ==
    /\ Ordinal(rows, i) > 0
    /\ \E j \in Namesakes(rows, i) : Has(rows[j], "human_review")

\* A review among namesakes may have meant any of them.
Ambiguous(rows, i) ==
    /\ Cardinality(Namesakes(rows, i)) >= 2
    /\ \E j \in Namesakes(rows, i) : Has(rows[j], "human_review")

\* A reference to an id that is gone follows the oldest row that had it.
RepairedLink(rows, l) ==
    IF l.id \in Overlong /\ \E r \in Range(rows) : r.id = l.id
    THEN [l EXCEPT !.id = DerivedId(@, 0)] ELSE l

RepairDuplicates(rows) ==
    [i \in DOMAIN rows |->
        LET r == IF Ambiguous(rows, i) THEN Unconfirmed(rows[i]) ELSE rows[i]
        IN  [r EXCEPT !.id = RepairedId(rows, i),
                      !.lineage = {RepairedLink(rows, l) : l \in @}]]

-----------------------------------------------------------------------------
RepairClaims(rows) ==
    Mapped(rows, LAMBDA r : IF r.by = "unproven-llm" THEN AsLegacy(r) ELSE r)

FromLLM(by) == by \in {"llm", "unproven-llm"}

\* Neither a file nor the task may claim the LLM's authority.
RepairState(m) ==
    [m EXCEPT !.files = Mapped(@, LAMBDA f :
                            IF FromLLM(f.by) THEN [f EXCEPT !.by = "legacy"] ELSE f),
              !.task = IF FromLLM(@.by) THEN [@ EXCEPT !.by = "legacy"] ELSE @]

TouchedLater(f, g) == f.touched > g.touched \/ (f.touched = g.touched /\ f.path < g.path)

RepairOversized(m) ==
    [m EXCEPT !.files = IF Len(@) > Cap.array
                        THEN FirstOf(Sorted(@, TouchedLater), Cap.array) ELSE @,
              !.blockers = FirstOf(@, Cap.array),
              !.steps = FirstOf(@, Cap.array)]

RepairDecisions(rows) == RepairClaims(RepairDuplicates(RepairUnverified(rows)))

Repaired(m) ==
    RepairOversized(RepairState(
        [QuarantineStaleCache(m) EXCEPT !.decisions = RepairDecisions(@)]))

\* The document as it is read, or Unreadable: of an unknown version, or not
\* legal in spite of the repairs.
Load(m) ==
    LET current == Upgraded(m)
    IN  IF current.version = CurrentVersion /\ Legal(Repaired(current))
        THEN Repaired(current) ELSE Unreadable
=============================================================================
