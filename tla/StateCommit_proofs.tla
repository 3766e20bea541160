------------------------ MODULE StateCommit_proofs ------------------------
(***************************************************************************)
(* Proofs about what a commit leaves (modules Budget and StateDocument),   *)
(* one stage of the budget after the other: where each stage stops, what   *)
(* is left when all of them have not made the document small enough, that  *)
(* nothing else is refused, in which order the classes of what can be      *)
(* given up are, and that neither the budget nor a read finds anything to  *)
(* do in what was committed.                                               *)
(***************************************************************************)
EXTENDS StateBudget_proofs

-----------------------------------------------------------------------------
(* One stage after the other                                               *)

\* What the stages make of m: 0 and 1, 2, 3, then (after Booked, stage 4) 5, 6
\* and 7, (after Tidied, stage 8) 9, and of stage 10 files, blockers and steps.
Audited(m, now) == ShedAudits(ExpireAudits(m, now))
Cached(m, now) == ShedCache(Audited(m, now))
Healthy(m, now) == ShedHealth(Cached(m, now))
Lawful(m, now, p) == DropInvalid(Booked(m, now, p), p)
Filed(m, now, p) == ShedFiles(Lawful(m, now, p))
Recent(m, now, p) == DropOld(Filed(m, now, p), now, p)
Fewer(m, now, p) ==
    IF Over(Tidied(m, now, p)) THEN ShedRows(Tidied(m, now, p), p) ELSE Tidied(m, now, p)
Unfiled(m, now, p) == ShedOldFiles(Fewer(m, now, p))
Unblocked(m, now, p) == ShedBlockers(Unfiled(m, now, p))
Unstepped(m, now, p) == ShedSteps(Unblocked(m, now, p))

\* What is too large was too large before a stage made it smaller.
LEMMA OverBefore ==
    ASSUME NEW x \in Document, NEW y, Lightened(y, x), Over(y)
    PROVE  Over(x)
<1>1. Size(y) <= Size(x) /\ Size(y) \in Nat /\ Size(x) \in Nat /\ MaxBytes \in Nat
  BY LighterIs, SizeIs, BudgetAssumption DEF Lightened
<1> QED
  BY <1>1 DEF Over

\* Stages 0 to 8 are each the next one's document, and what a stage does not
\* shed it hands on.
LEMMA TidyingIs ==
    ASSUME NEW m \in Document, NEW now, NEW p
    PROVE  /\ Audited(m, now) \in Document /\ Cached(m, now) \in Document
           /\ Healthy(m, now) \in Document /\ Booked(m, now, p) \in Document
           /\ Lawful(m, now, p) \in Document /\ Filed(m, now, p) \in Document
           /\ Recent(m, now, p) \in Document /\ Tidied(m, now, p) \in Document
           /\ Lightened(Cached(m, now), Audited(m, now))
           /\ Lightened(Healthy(m, now), Cached(m, now))
           /\ Lightened(Booked(m, now, p), Healthy(m, now))
           /\ Lightened(Lawful(m, now, p), Booked(m, now, p))
           /\ Lightened(Filed(m, now, p), Lawful(m, now, p))
           /\ Lightened(Recent(m, now, p), Filed(m, now, p))
           /\ Lightened(Tidied(m, now, p), Recent(m, now, p))
           /\ ButAudits(Audited(m, now), m) /\ ButCache(Cached(m, now), Audited(m, now))
           /\ ButHealth(Healthy(m, now), Cached(m, now))
           /\ ButBooks(Booked(m, now, p), Healthy(m, now))
           /\ ButRows(Lawful(m, now, p), Booked(m, now, p))
           /\ ButFiles(Filed(m, now, p), Lawful(m, now, p))
           /\ ButRows(Recent(m, now, p), Filed(m, now, p))
           /\ Shortened(Tidied(m, now, p), Recent(m, now, p))
<1> DEFINE z == ExpireAudits(m, now)
           a == Audited(m, now)
           b == Cached(m, now)
           c == Healthy(m, now)
           d == Booked(m, now, p)
           e == Lawful(m, now, p)
           f == Filed(m, now, p)
           g == Recent(m, now, p)
           h == Tidied(m, now, p)
<1>1. /\ a = ShedAudits(z) /\ b = ShedCache(a) /\ c = ShedHealth(b)
      /\ d = ShedBookkeeping(c, p) /\ e = DropInvalid(d, p) /\ f = ShedFiles(e)
      /\ g = DropOld(f, now, p) /\ h = Shorten(g)
  BY DEF Audited, Cached, Healthy, Booked, Lawful, Filed, Recent, Tidied
<1>2. z \in Document /\ ButAudits(z, m)
  BY ExpireIs, StagesKeep DEF Lightened
<1> HIDE DEF a, b, c, d, e, f, g, h, z
<1>3. a \in Document /\ ButAudits(a, z)
  BY <1>1, <1>2, AuditsCut, StagesKeep DEF Lightened
<1>4. ButAudits(a, m)
  BY <1>2, <1>3 DEF ButAudits
<1>5. b \in Document /\ Lightened(b, a) /\ ButCache(b, a)
  BY <1>1, <1>3, CacheCut, StagesKeep DEF Lightened
<1>6. c \in Document /\ Lightened(c, b) /\ ButHealth(c, b)
  BY <1>1, <1>5, HealthCut, StagesKeep DEF Lightened
<1>7. d \in Document /\ Lightened(d, c) /\ ButBooks(d, c)
  <2>1. Lightened(d, c)
    BY <1>1, <1>6, BooksCut
  <2>2. ButBooks(d, c)
    BY <1>1, <1>6, StagesKeep
  <2> QED
    BY <2>1, <2>2 DEF Lightened
<1>8. e \in Document /\ Lightened(e, d) /\ ButRows(e, d)
  BY <1>1, <1>7, DropsLighten, StagesKeep DEF Lightened
<1>9. f \in Document /\ Lightened(f, e) /\ ButFiles(f, e)
  BY <1>1, <1>8, FilesCut, StagesKeep DEF Lightened
<1>10. g \in Document /\ Lightened(g, f) /\ ButRows(g, f)
  BY <1>1, <1>9, DropsLighten, StagesKeep DEF Lightened
<1>11. h \in Document /\ Lightened(h, g) /\ Shortened(h, g)
  BY <1>1, <1>10, ShortenIs DEF Lightened
<1> QED
  BY <1>3, <1>4, <1>5, <1>6, <1>7, <1>8, <1>9, <1>10, <1>11 DEF a, b, c, d, e, f, g, h

\* So are stages 9 and 10, while the document is too large.
LEMMA PressingIs ==
    ASSUME NEW m \in Document, NEW now, NEW p
    PROVE  /\ Fewer(m, now, p) \in Document /\ Unfiled(m, now, p) \in Document
           /\ Unblocked(m, now, p) \in Document /\ Unstepped(m, now, p) \in Document
           /\ ShedTask(Unstepped(m, now, p)) \in Document
           /\ Lightened(Fewer(m, now, p), Tidied(m, now, p))
           /\ Lightened(Unfiled(m, now, p), Fewer(m, now, p))
           /\ Lightened(Unblocked(m, now, p), Unfiled(m, now, p))
           /\ Lightened(Unstepped(m, now, p), Unblocked(m, now, p))
           /\ Lightened(ShedTask(Unstepped(m, now, p)), Unstepped(m, now, p))
           /\ ButRows(Fewer(m, now, p), Tidied(m, now, p))
           /\ ButFiles(Unfiled(m, now, p), Fewer(m, now, p))
           /\ ButBlockers(Unblocked(m, now, p), Unfiled(m, now, p))
           /\ ButSteps(Unstepped(m, now, p), Unblocked(m, now, p))
           /\ ButTask(ShedTask(Unstepped(m, now, p)), Unstepped(m, now, p))
           /\ Fitted(m, now, p) = IF Over(Fewer(m, now, p))
                                  THEN ShedTask(Unstepped(m, now, p)) ELSE Fewer(m, now, p)
<1> DEFINE h == Tidied(m, now, p)
           x == Fewer(m, now, p)
           a == Unfiled(m, now, p)
           b == Unblocked(m, now, p)
           c == Unstepped(m, now, p)
           d == ShedTask(c)
<1>1. /\ x = IF Over(h) THEN ShedRows(h, p) ELSE h
      /\ a = ShedOldFiles(x) /\ b = ShedBlockers(a) /\ c = ShedSteps(b)
  BY DEF Fewer, Unfiled, Unblocked, Unstepped
<1>2. Fitted(m, now, p) = IF Over(x) THEN d ELSE x
  BY DEF Fitted, Pressed, ShedEphemeral, Fewer, Unfiled, Unblocked, Unstepped
<1>3. h \in Document /\ Lightened(h, h) /\ ButRows(h, h)
  <2>1. h \in Document
    BY TidyingIs
  <2> HIDE DEF h
  <2> QED
    BY <2>1, LighterIs DEF Lightened, ButRows
<1>4. d = ShedTask(c)
  OBVIOUS
<1> HIDE DEF h, x, a, b, c, d
<1>5. x \in Document /\ Lightened(x, h) /\ ButRows(x, h)
  BY <1>1, <1>3, RowsCut, StagesKeep DEF Lightened
<1>6. a \in Document /\ Lightened(a, x) /\ ButFiles(a, x)
  BY <1>1, <1>5, OldFilesCut, StagesKeep DEF Lightened
<1>7. b \in Document /\ Lightened(b, a) /\ ButBlockers(b, a)
  BY <1>1, <1>6, BlockersCut, StagesKeep DEF Lightened
<1>8. c \in Document /\ Lightened(c, b) /\ ButSteps(c, b)
  BY <1>1, <1>7, StepsCut, StagesKeep DEF Lightened
<1>9. d \in Document /\ Lightened(d, c) /\ ButTask(d, c)
  BY <1>4, <1>8, TaskCut, StagesKeep DEF Lightened
<1> QED
  BY <1>2, <1>5, <1>6, <1>7, <1>8, <1>9 DEF h, x, a, b, c, d

\* A stage after which the document is too large found it so.
LEMMA OverAll ==
    ASSUME NEW m \in Document, NEW now, NEW p
    PROVE  /\ Over(Cached(m, now)) => Over(Audited(m, now))
           /\ Over(Healthy(m, now)) => Over(Cached(m, now))
           /\ Over(Booked(m, now, p)) => Over(Healthy(m, now))
           /\ Over(Lawful(m, now, p)) => Over(Booked(m, now, p))
           /\ Over(Filed(m, now, p)) => Over(Lawful(m, now, p))
           /\ Over(Tidied(m, now, p)) => Over(Filed(m, now, p))
           /\ Over(Fewer(m, now, p)) => Over(Tidied(m, now, p))
           /\ Over(Unfiled(m, now, p)) => Over(Fewer(m, now, p))
           /\ Over(Unblocked(m, now, p)) => Over(Unfiled(m, now, p))
           /\ Over(Unstepped(m, now, p)) => Over(Unblocked(m, now, p))
           /\ Over(Fitted(m, now, p)) =>
                 /\ Over(Unstepped(m, now, p)) /\ Over(Fewer(m, now, p))
                 /\ Fitted(m, now, p) = ShedTask(Unstepped(m, now, p))
<1> DEFINE a == Audited(m, now)
           b == Cached(m, now)
           c == Healthy(m, now)
           d == Booked(m, now, p)
           e == Lawful(m, now, p)
           f == Filed(m, now, p)
           g == Recent(m, now, p)
           h == Tidied(m, now, p)
           i == Fewer(m, now, p)
           j == Unfiled(m, now, p)
           k == Unblocked(m, now, p)
           l == Unstepped(m, now, p)
           z == ShedTask(l)
<1>1. /\ a \in Document /\ b \in Document /\ c \in Document /\ d \in Document
      /\ e \in Document /\ f \in Document /\ g \in Document /\ h \in Document
      /\ Lightened(b, a) /\ Lightened(c, b) /\ Lightened(d, c) /\ Lightened(e, d)
      /\ Lightened(f, e) /\ Lightened(g, f) /\ Lightened(h, g)
  BY TidyingIs
<1>2. /\ i \in Document /\ j \in Document /\ k \in Document /\ l \in Document
      /\ Lightened(i, h) /\ Lightened(j, i) /\ Lightened(k, j) /\ Lightened(l, k)
      /\ Lightened(z, l)
      /\ Fitted(m, now, p) = IF Over(i) THEN z ELSE i
  BY PressingIs
<1> HIDE DEF a, b, c, d, e, f, g, h, i, j, k, l, z
<1>3. /\ Over(b) => Over(a)
      /\ Over(c) => Over(b)
      /\ Over(d) => Over(c)
      /\ Over(e) => Over(d)
      /\ Over(f) => Over(e)
      /\ Over(h) => Over(f)
  <2>1. Lightened(h, f)
    BY <1>1, LightenedTwice
  <2> QED
    BY <1>1, <2>1, OverBefore
<1>4. /\ Over(i) => Over(h)
      /\ Over(j) => Over(i)
      /\ Over(k) => Over(j)
      /\ Over(l) => Over(k)
      /\ Over(z) => Over(l)
  BY <1>1, <1>2, OverBefore
<1> QED
  BY <1>2, <1>3, <1>4 DEF a, b, c, d, e, f, g, h, i, j, k, l, z
-----------------------------------------------------------------------------
(* Where the loops stop                                                    *)

\* A list of no entries.
LEMMA NoneLeft ==
    ASSUME NEW D, NEW t \in Seq(D), NEW n, Len(t) = n
    PROVE  n = 0 => t = <<>>
BY EmptySeq

\* The completed audits that are left and the pending ones were there.
LEMMA AuditsFit ==
    ASSUME NEW m \in Document
    PROVE  /\ AuditsLeft(m) \o Waiting(m) \in Seq(AuditRecord)
           /\ Len(AuditsLeft(m) \o Waiting(m)) <= Len(m.audits)
<1> DEFINE P == {a \in Range(m.audits) : IsPending(a)}
           C == {a \in Range(m.audits) : IsCompleted(a)}
           s == AuditsLeft(m)
           cap == Cap.audits
<1>1. m.audits \in Seq(AuditRecord) /\ cap \in Nat
  BY FieldsOf, DocumentAssumption
<1>2. C \cap P = {}
  BY DEF IsPending, IsCompleted
<1>3. Waiting(m) = Within(m.audits, P) /\ s = LastOf(Within(m.audits, C), cap)
  BY DEF Waiting, AuditsLeft, Done, Those
<1> HIDE DEF P, C, s, cap
<1>4. Within(m.audits, C) \in Seq(AuditRecord)
  BY <1>1, WithinDraws
<1>5. s \in Seq(AuditRecord) /\ Drawn(s, Within(m.audits, C))
  BY <1>1, <1>3, <1>4, LastOfIs
<1>6. /\ s \o Within(m.audits, P) \in Seq(AuditRecord)
      /\ Len(s \o Within(m.audits, P)) <= Len(m.audits)
  BY <1>1, <1>2, <1>5, PartsDrawn
<1> QED
  BY <1>3, <1>6 DEF s

\* Too large after a stage, nothing is left for it to shed; not too large
\* before it, all is left. Stage 1.
LEMMA AuditsEnds ==
    ASSUME NEW m \in Document
    PROVE  \E t \in Seq(AuditRecord) :
              /\ ShedAudits(m).audits = t \o Waiting(m)
              /\ \E n \in 0 .. Len(AuditsLeft(m)) : t = LastOf(AuditsLeft(m), n)
              /\ Over(ShedAudits(m)) => t = <<>>
              /\ ~Over(m) => t = AuditsLeft(m)
<1> DEFINE s == AuditsLeft(m)
           w == Waiting(m)
           y == ShedAudits(m)
<1>1. s \in Seq(AuditRecord) /\ w \in Seq(AuditRecord)
  BY AuditsCut
<1>2. PICK n \in 0 .. Len(s) :
         /\ y = WithAudits(m, LastOf(s, n))
         /\ n = 0 \/ ~Over(y)
         /\ \A k \in 0 .. Len(s) : k > n => Over(WithAudits(m, LastOf(s, k)))
         /\ Len(LastOf(s, n)) = n
         /\ n = Len(s) => LastOf(s, n) = s
  BY AuditsCut
<1>3. Len(s) \in Nat /\ n \in Nat
  BY <1>1, LenProperties
<1> DEFINE t == LastOf(s, n)
<1>4. t \in Seq(AuditRecord) /\ LastOf(s, Len(s)) = s
  BY <1>1, <1>3, LastOfIs
<1>5. y.audits = t \o w
  BY <1>2 DEF WithAudits, Document
<1>6. Over(y) => t = <<>>
  BY <1>2, <1>4, NoneLeft
<1>7. ASSUME ~Over(m) PROVE t = s
  <2> SUFFICES ASSUME n # Len(s) PROVE FALSE
    BY <1>2
  <2>1. Over(WithAudits(m, s))
    BY <1>2, <1>3, <1>4
  <2>2. Len(s \o w) <= Len(m.audits) /\ s \o w \in Seq(AuditRecord)
    BY AuditsFit
  <2>3. Lightened(WithAudits(m, s), m)
    BY <2>2, LighterAudits DEF WithAudits
  <2> QED
    BY <1>7, <2>1, <2>3, OverBefore
<1> HIDE DEF t, s, w, y
<1> QED
  BY <1>2, <1>4, <1>5, <1>6, <1>7 DEF t, s, w, y

\* Stage 2.
LEMMA CacheEnds ==
    ASSUME NEW m \in Document
    PROVE  /\ \E n \in 0 .. Len(CacheLeft(m)) : ShedCache(m).cache = LastOf(CacheLeft(m), n)
           /\ Over(ShedCache(m)) => ShedCache(m).cache = <<>>
           /\ ~Over(m) => ShedCache(m).cache = CacheLeft(m)
<1> DEFINE s == CacheLeft(m)
           y == ShedCache(m)
<1>1. s \in Seq(CacheRecord) /\ Drawn(s, m.cache)
  BY CacheCut
<1>2. PICK n \in 0 .. Len(s) :
         /\ y = WithCache(m, LastOf(s, n))
         /\ n = 0 \/ ~Over(y)
         /\ \A k \in 0 .. Len(s) : k > n => Over(WithCache(m, LastOf(s, k)))
         /\ Len(LastOf(s, n)) = n
         /\ n = Len(s) => LastOf(s, n) = s
  BY CacheCut
<1>3. Len(s) \in Nat /\ n \in Nat
  BY <1>1, LenProperties
<1>4. LastOf(s, n) \in Seq(CacheRecord) /\ LastOf(s, Len(s)) = s
  BY <1>1, <1>3, LastOfIs
<1>5. y.cache = LastOf(s, n)
  BY <1>2 DEF WithCache, Document
<1>6. Over(y) => LastOf(s, n) = <<>>
  BY <1>2, <1>4, NoneLeft
<1>7. ASSUME ~Over(m) PROVE LastOf(s, n) = s
  <2> SUFFICES ASSUME n # Len(s) PROVE FALSE
    BY <1>2
  <2>1. Over(WithCache(m, s))
    BY <1>2, <1>3, <1>4
  <2>2. Len(s) <= Len(m.cache)
    BY <1>1, FieldsOf, DrawnIsLess
  <2>3. Lightened(WithCache(m, s), m)
    BY <1>1, <2>2, LighterCache DEF WithCache
  <2> QED
    BY <1>7, <2>1, <2>3, OverBefore
<1> QED
  BY <1>5, <1>6, <1>7

\* Stage 6.
LEMMA FilesEnds ==
    ASSUME NEW m \in Document
    PROVE  /\ \E n \in 0 .. Len(FilesLeft(m)) : ShedFiles(m).files = FirstOf(FilesLeft(m), n)
           /\ Over(ShedFiles(m)) => ShedFiles(m).files = <<>>
           /\ ~Over(m) => ShedFiles(m).files = FilesLeft(m)
<1> DEFINE s == FilesLeft(m)
           y == ShedFiles(m)
<1>1. s \in Seq(FileRecord) /\ Drawn(s, m.files)
  BY FilesCut
<1>2. PICK n \in 0 .. Len(s) :
         /\ y = WithFiles(m, FirstOf(s, n))
         /\ n = 0 \/ ~Over(y)
         /\ \A k \in 0 .. Len(s) : k > n => Over(WithFiles(m, FirstOf(s, k)))
         /\ Len(FirstOf(s, n)) = n
         /\ n = Len(s) => FirstOf(s, n) = s
  BY FilesCut
<1>3. Len(s) \in Nat /\ n \in Nat
  BY <1>1, LenProperties
<1>4. FirstOf(s, n) \in Seq(FileRecord) /\ FirstOf(s, Len(s)) = s
  BY <1>1, <1>3, FirstOfIs
<1>5. y.files = FirstOf(s, n)
  BY <1>2 DEF WithFiles, Document
<1>6. Over(y) => FirstOf(s, n) = <<>>
  BY <1>2, <1>4, NoneLeft
<1>7. ASSUME ~Over(m) PROVE FirstOf(s, n) = s
  <2> SUFFICES ASSUME n # Len(s) PROVE FALSE
    BY <1>2
  <2>1. Over(WithFiles(m, s))
    BY <1>2, <1>3, <1>4
  <2>2. Lightened(WithFiles(m, s), m)
    BY <1>1, LighterFiles DEF WithFiles
  <2> QED
    BY <1>7, <2>1, <2>2, OverBefore
<1> QED
  BY <1>5, <1>6, <1>7

\* Stage 10, files.
LEMMA OldFilesEnds ==
    ASSUME NEW m \in Document
    PROVE  /\ \E n \in 0 .. Len(OldFilesLeft(m)) :
                 ShedOldFiles(m).files = LastOf(OldFilesLeft(m), n)
           /\ Over(ShedOldFiles(m)) => ShedOldFiles(m).files = <<>>
           /\ ~Over(m) => ShedOldFiles(m).files = OldFilesLeft(m)
<1> DEFINE s == OldFilesLeft(m)
           y == ShedOldFiles(m)
<1>1. s \in Seq(FileRecord) /\ Drawn(s, m.files)
  BY OldFilesCut
<1>2. PICK n \in 0 .. Len(s) :
         /\ y = WithOldFiles(m, LastOf(s, n))
         /\ n = 0 \/ ~Over(y)
         /\ \A k \in 0 .. Len(s) : k > n => Over(WithOldFiles(m, LastOf(s, k)))
         /\ Len(LastOf(s, n)) = n
         /\ n = Len(s) => LastOf(s, n) = s
  BY OldFilesCut
<1>3. Len(s) \in Nat /\ n \in Nat
  BY <1>1, LenProperties
<1>4. LastOf(s, n) \in Seq(FileRecord) /\ LastOf(s, Len(s)) = s
  BY <1>1, <1>3, LastOfIs
<1>5. y.files = LastOf(s, n)
  BY <1>2 DEF WithOldFiles, Document
<1>6. Over(y) => LastOf(s, n) = <<>>
  BY <1>2, <1>4, NoneLeft
<1>7. ASSUME ~Over(m) PROVE LastOf(s, n) = s
  <2> SUFFICES ASSUME n # Len(s) PROVE FALSE
    BY <1>2
  <2>1. Over(WithOldFiles(m, s))
    BY <1>2, <1>3, <1>4
  <2>2. Lightened(WithOldFiles(m, s), m)
    BY <1>1, LighterFiles DEF WithOldFiles
  <2> QED
    BY <1>7, <2>1, <2>2, OverBefore
<1> QED
  BY <1>5, <1>6, <1>7

\* Stage 10, blockers.
LEMMA BlockersEnds ==
    ASSUME NEW m \in Document
    PROVE  /\ \E n \in 0 .. Len(BlockersLeft(m)) :
                 ShedBlockers(m).blockers = LastOf(BlockersLeft(m), n)
           /\ Over(ShedBlockers(m)) => ShedBlockers(m).blockers = <<>>
           /\ ~Over(m) => ShedBlockers(m).blockers = BlockersLeft(m)
<1> DEFINE s == BlockersLeft(m)
           y == ShedBlockers(m)
<1>1. s \in Seq(Nat) /\ Drawn(s, m.blockers)
  BY BlockersCut
<1>2. PICK n \in 0 .. Len(s) :
         /\ y = WithBlockers(m, LastOf(s, n))
         /\ n = 0 \/ ~Over(y)
         /\ \A k \in 0 .. Len(s) : k > n => Over(WithBlockers(m, LastOf(s, k)))
         /\ Len(LastOf(s, n)) = n
         /\ n = Len(s) => LastOf(s, n) = s
  BY BlockersCut
<1>3. Len(s) \in Nat /\ n \in Nat
  BY <1>1, LenProperties
<1>4. LastOf(s, n) \in Seq(Nat) /\ LastOf(s, Len(s)) = s
  BY <1>1, <1>3, LastOfIs
<1>5. y.blockers = LastOf(s, n)
  BY <1>2 DEF WithBlockers, Document
<1>6. Over(y) => LastOf(s, n) = <<>>
  BY <1>2, <1>4, NoneLeft
<1>7. ASSUME ~Over(m) PROVE LastOf(s, n) = s
  <2> SUFFICES ASSUME n # Len(s) PROVE FALSE
    BY <1>2
  <2>1. Over(WithBlockers(m, s))
    BY <1>2, <1>3, <1>4
  <2>2. Lightened(WithBlockers(m, s), m)
    BY <1>1, LighterBlockers DEF WithBlockers
  <2> QED
    BY <1>7, <2>1, <2>2, OverBefore
<1> QED
  BY <1>5, <1>6, <1>7

\* Stage 10, steps.
LEMMA StepsEnds ==
    ASSUME NEW m \in Document
    PROVE  /\ \E n \in 0 .. Len(StepsLeft(m)) : ShedSteps(m).steps = LastOf(StepsLeft(m), n)
           /\ Over(ShedSteps(m)) => ShedSteps(m).steps = <<>>
           /\ ~Over(m) => ShedSteps(m).steps = StepsLeft(m)
<1> DEFINE s == StepsLeft(m)
           y == ShedSteps(m)
<1>1. s \in Seq(Nat) /\ Drawn(s, m.steps)
  BY StepsCut
<1>2. PICK n \in 0 .. Len(s) :
         /\ y = WithSteps(m, LastOf(s, n))
         /\ n = 0 \/ ~Over(y)
         /\ \A k \in 0 .. Len(s) : k > n => Over(WithSteps(m, LastOf(s, k)))
         /\ Len(LastOf(s, n)) = n
         /\ n = Len(s) => LastOf(s, n) = s
  BY StepsCut
<1>3. Len(s) \in Nat /\ n \in Nat
  BY <1>1, LenProperties
<1>4. LastOf(s, n) \in Seq(Nat) /\ LastOf(s, Len(s)) = s
  BY <1>1, <1>3, LastOfIs
<1>5. y.steps = LastOf(s, n)
  BY <1>2 DEF WithSteps, Document
<1>6. Over(y) => LastOf(s, n) = <<>>
  BY <1>2, <1>4, NoneLeft
<1>7. ASSUME ~Over(m) PROVE LastOf(s, n) = s
  <2> SUFFICES ASSUME n # Len(s) PROVE FALSE
    BY <1>2
  <2>1. Over(WithSteps(m, s))
    BY <1>2, <1>3, <1>4
  <2>2. Lightened(WithSteps(m, s), m)
    BY <1>1, LighterSteps DEF WithSteps
  <2> QED
    BY <1>7, <2>1, <2>2, OverBefore
<1> QED
  BY <1>5, <1>6, <1>7

\* Stage 3.
LEMMA HealthEnds ==
    ASSUME NEW m \in Document
    PROVE  /\ \E n \in 0 .. Len(HealthLeft(m)) :
                 ShedHealth(m).health = LastOf(HealthLeft(m), n)
           /\ Over(ShedHealth(m)) =>
                 ShedHealth(m).health = <<>> /\ ShedHealth(m).quarantined = 0
           /\ ~Over(m) => /\ ShedHealth(m).health = HealthLeft(m)
                          /\ ShedHealth(m).quarantined = m.quarantined
           /\ ShedHealth(m).quarantined # m.quarantined =>
                 ShedHealth(m).health = <<>> /\ ShedHealth(m).quarantined = 0
           /\ ShedHealth(m).quarantined \in {0, m.quarantined}
<1> DEFINE s == HealthLeft(m)
           z == ShedHealth(m)
<1>1. s \in Seq(Nat) /\ Drawn(s, m.health)
  BY HealthCut
<1>2. PICK n \in 0 .. Len(s), y \in Document :
         /\ y = WithHealth(m, LastOf(s, n))
         /\ n = 0 \/ ~Over(y)
         /\ \A k \in 0 .. Len(s) : k > n => Over(WithHealth(m, LastOf(s, k)))
         /\ Len(LastOf(s, n)) = n
         /\ n = Len(s) => LastOf(s, n) = s
         /\ Lightened(y, m) /\ LastOf(s, n) \in Seq(Nat)
         /\ z = IF Over(y) THEN [y EXCEPT !.quarantined = 0] ELSE y
  BY HealthCut
<1>3. Len(s) \in Nat /\ n \in Nat
  BY <1>1, LenProperties
<1>4. LastOf(s, n) \in Seq(Nat) /\ LastOf(s, Len(s)) = s
  BY <1>1, <1>3, LastOfIs
<1>5. y.health = LastOf(s, n) /\ y.quarantined = m.quarantined
  BY <1>2 DEF WithHealth, Document
<1>6. Over(y) => LastOf(s, n) = <<>>
  BY <1>2, <1>4, NoneLeft
<1>7. ASSUME ~Over(m) PROVE LastOf(s, n) = s
  <2> SUFFICES ASSUME n # Len(s) PROVE FALSE
    BY <1>2
  <2>1. Over(WithHealth(m, s))
    BY <1>2, <1>3, <1>4
  <2>2. Len(s) <= Len(m.health)
    BY <1>1, FieldsOf, DrawnIsLess
  <2>3. Lightened(WithHealth(m, s), m)
    BY <1>1, <2>2, LighterHealth DEF WithHealth
  <2> QED
    BY <1>7, <2>1, <2>3, OverBefore
<1> HIDE DEF s, z
<1>8. CASE Over(y)
  <2> DEFINE x == [y EXCEPT !.quarantined = 0]
  <2>1. z = x
    BY <1>2, <1>8
  <2>2. x.health = y.health /\ x.quarantined = 0
    BY DEF Document
  <2>3. Over(m)
    BY <1>2, <1>8, OverBefore
  <2> HIDE DEF x
  <2> QED
    BY <1>5, <1>6, <1>8, <2>1, <2>2, <2>3 DEF s, z
<1>9. CASE ~Over(y)
  <2>1. z = y
    BY <1>2, <1>9
  <2> QED
    BY <1>5, <1>7, <1>9, <2>1 DEF s, z
<1> QED
  BY <1>8, <1>9

\* Stage 4: the unprotected completions give way after the sessions.
LEMMA BooksEnds ==
    ASSUME NEW m \in Document, NEW p
    PROVE  \E t \in Seq(Nat) :
              /\ ShedBookkeeping(m, p).sources = t \o OwnSources(m, p)
              /\ Drawn(t, FreeSources(m, p))
              /\ \E n \in 0 .. Len(SourcesLeft(m, p)) : t = LastOf(SourcesLeft(m, p), n)
              /\ \E i \in 0 .. Len(SessionsLeft(m)) :
                    ShedBookkeeping(m, p).sessions = LastOf(SessionsLeft(m), i)
              /\ Over(ShedBookkeeping(m, p)) =>
                    t = <<>> /\ ShedBookkeeping(m, p).sessions = <<>>
              /\ ~Over(m) => /\ t = SourcesLeft(m, p)
                             /\ ShedBookkeeping(m, p).sessions = SessionsLeft(m)
              /\ t # SourcesLeft(m, p) => ShedBookkeeping(m, p).sessions = <<>>
<1> DEFINE s == SessionsLeft(m)
           u == SourcesLeft(m, p)
           y == ShedBookkeeping(m, p)
<1>1. s \in Seq(Nat) /\ u \in Seq(Nat) /\ OwnSources(m, p) \in Seq(Nat)
      /\ FreeSources(m, p) \in Seq(Nat) /\ Drawn(u, FreeSources(m, p))
  BY BooksCut
<1>2. PICK i \in 0 .. Len(s), n \in 0 .. Len(u) :
         /\ y = WithBooks(m, p, LastOf(u, n), LastOf(s, i))
         /\ i = 0 \/ ~Over(WithBooks(m, p, u, LastOf(s, i)))
         /\ \A k \in 0 .. Len(s) : k > i => Over(WithBooks(m, p, u, LastOf(s, k)))
         /\ n = 0 \/ ~Over(y)
         /\ \A k \in 0 .. Len(u) : k > n =>
               Over(WithBooks(m, p, LastOf(u, k), LastOf(s, i)))
         /\ LastOf(s, i) \in Seq(Nat) /\ LastOf(u, n) \in Seq(Nat)
         /\ Len(LastOf(s, i)) = i /\ Len(LastOf(u, n)) = n
         /\ Drawn(LastOf(u, n), FreeSources(m, p))
         /\ WithBooks(m, p, u, LastOf(s, i)) \in Document
         /\ Lightened(y, WithBooks(m, p, u, LastOf(s, i)))
         /\ i = Len(s) => LastOf(s, i) = s
         /\ n = Len(u) => LastOf(u, n) = u
  BY BooksCut
<1> DEFINE t == LastOf(u, n)
           e == LastOf(s, i)
           x == WithBooks(m, p, u, e)
<1>3. /\ Len(s) \in Nat /\ i \in Nat /\ Len(u) \in Nat /\ n \in Nat
      /\ LastOf(s, Len(s)) = s /\ LastOf(u, Len(u)) = u
  <2>1. Len(s) \in Nat /\ Len(u) \in Nat
    BY <1>1, LenProperties
  <2> QED
    BY <1>1, <2>1, LastOfIs
<1>4. y.sources = t \o OwnSources(m, p) /\ y.sessions = e
  BY <1>2 DEF WithBooks, Document
<1>5. Over(x) => e = <<>>
  BY <1>2, NoneLeft
<1>6. Over(y) => t = <<>> /\ Over(x)
  BY <1>2, NoneLeft, OverBefore
<1>7. t # u => Over(x)
  BY <1>2, <1>3
<1>8. ASSUME ~Over(m) PROVE ~Over(WithBooks(m, p, u, s))
  <2> DEFINE w == [m EXCEPT !.sources = u \o OwnSources(m, p)]
  <2>1. u \o OwnSources(m, p) \in Seq(Nat) /\ Len(u \o OwnSources(m, p)) <= Len(m.sources)
    <3> DEFINE q == m.sources
               S == Range(q) \ p.sources
               T == p.sources
    <3>1. S \cap T = {} /\ q \in Seq(Nat)
      BY FieldsOf
    <3>2. OwnSources(m, p) = Within(q, T) /\ Drawn(u, Within(q, S)) /\ u \in Seq(Nat)
      BY <1>1 DEF FreeSources, OwnSources
    <3>3. m.sources = q
      OBVIOUS
    <3> HIDE DEF q, S, T, u
    <3>4. u \o Within(q, T) \in Seq(Nat) /\ Len(u \o Within(q, T)) <= Len(q)
      BY <3>1, <3>2, PartsDrawn
    <3> QED
      BY <3>2, <3>3, <3>4
  <2>2. Lightened(w, m) /\ w \in Document
    BY <2>1, LighterSources DEF Lightened
  <2>3. w.sessions = m.sessions
    BY DEF Document
  <2>4. WithBooks(m, p, u, s) = [w EXCEPT !.sessions = s]
    BY DEF WithBooks, Document
  <2>5. Len(s) <= Len(w.sessions)
    <3>1. m.sessions \in Seq(Nat) /\ Cap.sessions \in Nat
      BY FieldsOf, DocumentAssumption
    <3>2. Drawn(s, m.sessions)
      BY <3>1, LastOfIs DEF SessionsLeft
    <3> QED
      BY <1>1, <2>3, <3>1, <3>2, DrawnIsLess
  <2> HIDE DEF w, s, u
  <2>6. Lightened(WithBooks(m, p, u, s), w)
    BY <1>1, <2>2, <2>4, <2>5, LighterSessions
  <2> QED
    BY <1>8, <2>2, <2>6, OverBefore
<1>9. ASSUME ~Over(m) PROVE e = s /\ t = u
  <2>1. e = s
    <3> SUFFICES ASSUME i # Len(s) PROVE FALSE
      BY <1>2
    <3>1. Over(WithBooks(m, p, u, LastOf(s, Len(s))))
      BY <1>2, <1>3
    <3> QED
      BY <1>3, <1>8, <1>9, <3>1
  <2>2. t = u
    BY <1>7, <1>8, <1>9, <2>1
  <2> QED
    BY <2>1, <2>2
<1> QED
  BY <1>2, <1>4, <1>5, <1>6, <1>7, <1>9

\* Stage 9: the rows that must stay come first.
LEMMA RowsEnds ==
    ASSUME NEW m \in Document, NEW p
    PROVE  /\ \E n \in Len(KeptRows(m, p)) .. Len(AllRows(m, p)) :
                 ShedRows(m, p).decisions = FirstOf(AllRows(m, p), n)
           /\ Over(ShedRows(m, p)) => ShedRows(m, p).decisions = KeptRows(m, p)
<1> DEFINE k == KeptRows(m, p)
           u == UsefulRows(m, p)
           a == AllRows(m, p)
           y == ShedRows(m, p)
<1>1. k \in Seq(Decision) /\ u \in Seq(Decision) /\ a \in Seq(Decision)
      /\ Len(a) = Len(k) + Len(u)
  BY RowsCut
<1>2. Len(k) \in Nat /\ Len(a) \in Nat /\ Len(u) \in Nat /\ Len(k) \in Len(k) .. Len(a)
  <2>1. Len(k) \in Nat /\ Len(a) \in Nat /\ Len(u) \in Nat
    BY <1>1, LenProperties
  <2> QED
    BY <1>1, <2>1
<1>3. FirstOf(a, Len(k)) = k
  <2>1. a = k \o u
    BY DEF AllRows
  <2> HIDE DEF a, k, u
  <2> DEFINE t == FirstOf(a, Len(k))
  <2>2. /\ t \in Seq(Decision) /\ Len(t) = IF Len(a) > Len(k) THEN Len(k) ELSE Len(a)
        /\ \A i \in 1 .. Len(t) : t[i] = a[i]
    BY <1>1, <1>2, FirstOfIs
  <2>3. Len(t) = Len(k)
    BY <1>1, <1>2, <2>2
  <2>4. \A i \in 1 .. Len(k) : a[i] = k[i]
    BY <1>1, <1>2, <2>1, ConcatProperties
  <2>5. \A i \in 1 .. Len(k) : t[i] = k[i]
    BY <2>2, <2>3, <2>4
  <2> HIDE DEF t
  <2>6. t = k
    BY <1>1, <2>2, <2>3, <2>5, SeqEqual
  <2> QED
    BY <2>6 DEF t
<1>4. CASE u = <<>>
  <2>1. y = m
    BY <1>4, RowsCut
  <2>2. m.decisions = k
    <3>1. Range(u) = Range(m.decisions) \ ProtectedRows(m, p)
      BY RowsCut
    <3>2. Range(u) = {}
      BY <1>4 DEF Range
    <3>3. Range(m.decisions) \subseteq ProtectedRows(m, p)
      BY <3>1, <3>2
    <3> QED
      BY <3>3, FieldsOf, WithinDraws DEF KeptRows
  <2> QED
    BY <1>2, <1>3, <2>1, <2>2
<1>5. CASE u # <<>>
  <2>1. PICK n \in Len(k) .. Len(a) :
           y = WithRows(m, FirstOf(a, n)) /\ (n = Len(k) \/ ~Over(y))
    BY <1>5, RowsCut
  <2>2. y.decisions = FirstOf(a, n)
    BY <2>1 DEF WithRows, Document
  <2> QED
    BY <1>3, <2>1, <2>2
<1> QED
  BY <1>4, <1>5

\* The task goes last.
LEMMA TaskEnds ==
    ASSUME NEW m \in Document
    PROVE  /\ Over(m) => ShedTask(m).task.text = 0 /\ ShedTask(m).task.by = m.task.by
           /\ ~Over(m) => ShedTask(m) = m
<1>1. ShedTask(m) = IF Over(m) THEN [m EXCEPT !.task = [m.task EXCEPT !.text = 0]] ELSE m
  BY TaskCut
<1>2. m.task \in [text : Nat, by : Authors \cup {"none"}]
  BY FieldsOf
<1> DEFINE t == [m.task EXCEPT !.text = 0]
<1>3. t.text = 0 /\ t.by = m.task.by
  BY <1>2
<1> HIDE DEF t
<1>4. [m EXCEPT !.task = t].task = t
  BY DEF Document
<1> QED
  BY <1>1, <1>3, <1>4 DEF t

\* What is too large after a stage has nothing left that the stage, or one
\* before it, sheds.
Bare(y, m, now, p, stage) ==
    /\ stage >= 1 => y.audits = Waiting(ExpireAudits(m, now))
    /\ stage >= 2 => y.cache = <<>>
    /\ stage >= 3 => y.health = <<>> /\ y.quarantined = 0
    /\ stage >= 4 => y.sessions = <<>> /\ y.sources = OwnSources(m, p)
    /\ stage >= 6 => y.files = <<>>

\* Stages 0 to 8.
LEMMA TidiedBare ==
    ASSUME NEW m \in Document, NEW now, NEW p
    PROVE  /\ Over(Audited(m, now)) => Bare(Audited(m, now), m, now, p, 1)
           /\ Over(Cached(m, now)) => Bare(Cached(m, now), m, now, p, 2)
           /\ Over(Healthy(m, now)) => Bare(Healthy(m, now), m, now, p, 3)
           /\ Over(Booked(m, now, p)) => Bare(Booked(m, now, p), m, now, p, 4)
           /\ Over(Lawful(m, now, p)) => Bare(Lawful(m, now, p), m, now, p, 4)
           /\ Over(Filed(m, now, p)) => Bare(Filed(m, now, p), m, now, p, 6)
           /\ Over(Tidied(m, now, p)) => Bare(Tidied(m, now, p), m, now, p, 6)
<1> DEFINE z == ExpireAudits(m, now)
           a == Audited(m, now)
           b == Cached(m, now)
           c == Healthy(m, now)
           d == Booked(m, now, p)
           e == Lawful(m, now, p)
           f == Filed(m, now, p)
           g == Recent(m, now, p)
           h == Tidied(m, now, p)
<1>1. /\ a = ShedAudits(z) /\ b = ShedCache(a) /\ c = ShedHealth(b)
      /\ d = ShedBookkeeping(c, p) /\ f = ShedFiles(e)
      /\ z = ExpireAudits(m, now)
  BY DEF Audited, Cached, Healthy, Booked, Filed
<1>2. z \in Document
  BY ExpireIs DEF Lightened
<1>3. /\ a \in Document /\ b \in Document /\ c \in Document /\ d \in Document
      /\ e \in Document /\ f \in Document /\ g \in Document /\ h \in Document
      /\ ButAudits(a, m) /\ ButCache(b, a) /\ ButHealth(c, b) /\ ButBooks(d, c)
      /\ ButRows(e, d) /\ ButFiles(f, e) /\ ButRows(g, f) /\ Shortened(h, g)
  BY TidyingIs
<1>4. /\ Over(b) => Over(a)
      /\ Over(c) => Over(b)
      /\ Over(d) => Over(c)
      /\ Over(e) => Over(d)
      /\ Over(f) => Over(e)
      /\ Over(h) => Over(f)
  BY OverAll
<1> HIDE DEF a, b, c, d, e, f, g, h, z
<1>5. Over(a) => Bare(a, m, now, p, 1)
  <2> SUFFICES ASSUME Over(a) PROVE a.audits = Waiting(z)
    BY <1>1 DEF Bare
  <2>1. PICK t \in Seq(AuditRecord) : a.audits = t \o Waiting(z) /\ (Over(a) => t = <<>>)
    BY <1>1, <1>2, AuditsEnds
  <2>2. Waiting(z) \in Seq(AuditRecord)
    BY <1>2, AuditsCut
  <2> QED
    BY <2>1, <2>2, ConcatEmptySeq
<1>6. Over(b) => Bare(b, m, now, p, 2)
  <2> SUFFICES ASSUME Over(b) PROVE Bare(b, m, now, p, 2)
    OBVIOUS
  <2>1. b.cache = <<>>
    BY <1>1, <1>3, CacheEnds
  <2>2. b.audits = a.audits
    BY <1>3 DEF ButCache
  <2> QED
    BY <1>4, <1>5, <2>1, <2>2 DEF Bare
<1>7. Over(c) => Bare(c, m, now, p, 3)
  <2> SUFFICES ASSUME Over(c) PROVE Bare(c, m, now, p, 3)
    OBVIOUS
  <2>1. c.health = <<>> /\ c.quarantined = 0
    BY <1>1, <1>3, HealthEnds
  <2>2. c.audits = b.audits /\ c.cache = b.cache
    BY <1>3 DEF ButHealth
  <2> QED
    BY <1>4, <1>6, <2>1, <2>2 DEF Bare
<1>8. Over(d) => Bare(d, m, now, p, 4)
  <2> SUFFICES ASSUME Over(d) PROVE Bare(d, m, now, p, 4)
    OBVIOUS
  <2>1. c.sources = m.sources
    BY <1>3 DEF ButAudits, ButCache, ButHealth
  <2>2. OwnSources(c, p) = OwnSources(m, p) /\ OwnSources(c, p) \in Seq(Nat)
    BY <1>3, <2>1, BooksCut DEF OwnSources
  <2>3. d.sources = <<>> \o OwnSources(c, p) /\ d.sessions = <<>>
    <3>1. PICK t \in Seq(Nat) :
             /\ ShedBookkeeping(c, p).sources = t \o OwnSources(c, p)
             /\ Over(ShedBookkeeping(c, p)) =>
                   t = <<>> /\ ShedBookkeeping(c, p).sessions = <<>>
      BY <1>3, BooksEnds
    <3> QED
      BY <1>1, <3>1
  <2>4. d.sources = OwnSources(m, p)
    BY <2>2, <2>3, ConcatEmptySeq
  <2>5. d.audits = c.audits /\ d.cache = c.cache /\ d.health = c.health
        /\ d.quarantined = c.quarantined
    BY <1>3 DEF ButBooks
  <2> QED
    BY <1>4, <1>7, <2>3, <2>4, <2>5 DEF Bare
<1>9. Over(e) => Bare(e, m, now, p, 4)
  BY <1>3, <1>4, <1>8 DEF Bare, ButRows
<1>10. Over(f) => Bare(f, m, now, p, 6)
  <2> SUFFICES ASSUME Over(f) PROVE Bare(f, m, now, p, 6)
    OBVIOUS
  <2>1. f.files = <<>>
    BY <1>1, <1>3, FilesEnds
  <2> QED
    BY <1>3, <1>4, <1>9, <2>1 DEF Bare, ButFiles
<1>11. Over(h) => Bare(h, m, now, p, 6)
  <2> SUFFICES ASSUME Over(h) PROVE Bare(h, m, now, p, 6)
    OBVIOUS
  <2>1. Bare(f, m, now, p, 6)
    BY <1>4, <1>10
  <2>2. g.files = <<>>
    BY <1>3, <2>1 DEF Bare, ButRows
  <2>3. h.files = <<>>
    <3>1. DOMAIN h.files = {}
      BY <1>3, <2>2 DEF Shortened
    <3>2. h.files \in Seq(FileRecord)
      BY <1>3, FieldsOf
    <3>3. Len(h.files) \in Nat /\ DOMAIN h.files = 1 .. Len(h.files)
      BY <3>2, LenProperties
    <3>4. Len(h.files) = 0
      <4> DEFINE n == Len(h.files)
      <4>1. n \in Nat /\ 1 .. n = {}
        BY <3>1, <3>3
      <4> HIDE DEF n
      <4>2. ~(n >= 1)
        BY <4>1
      <4>3. n = 0
        BY <4>1, <4>2
      <4> QED
        BY <4>3 DEF n
    <3> QED
      BY <3>2, <3>4, NoneLeft
  <2> QED
    BY <1>3, <2>1, <2>3 DEF Bare, ButRows, Shortened
<1> QED
  BY <1>5, <1>6, <1>7, <1>8, <1>9, <1>10, <1>11 DEF a, b, c, d, e, f, h

\* Stages 9 and 10.
LEMMA PressedBare ==
    ASSUME NEW m \in Document, NEW now, NEW p
    PROVE  /\ Over(Fewer(m, now, p)) =>
                 /\ Bare(Fewer(m, now, p), m, now, p, 6)
                 /\ Fewer(m, now, p).decisions = KeptRows(Tidied(m, now, p), p)
                 /\ Unfiled(m, now, p).files = <<>>
           /\ Over(Unblocked(m, now, p)) => Unblocked(m, now, p).blockers = <<>>
           /\ Over(Unstepped(m, now, p)) => Unstepped(m, now, p).steps = <<>>
<1> DEFINE h == Tidied(m, now, p)
           x == Fewer(m, now, p)
           a == Unfiled(m, now, p)
           b == Unblocked(m, now, p)
           c == Unstepped(m, now, p)
<1>1. /\ x = IF Over(h) THEN ShedRows(h, p) ELSE h
      /\ a = ShedOldFiles(x) /\ b = ShedBlockers(a) /\ c = ShedSteps(b)
  BY DEF Fewer, Unfiled, Unblocked, Unstepped
<1>2. /\ x \in Document /\ a \in Document /\ b \in Document /\ c \in Document
      /\ ButRows(x, h)
  BY PressingIs
<1>3. h \in Document
  BY TidyingIs
<1>4. Over(x) => Over(h)
  BY OverAll
<1>5. Over(h) => Bare(h, m, now, p, 6)
  BY TidiedBare
<1> HIDE DEF h, x, a, b, c
<1>6. ASSUME Over(x) PROVE Bare(x, m, now, p, 6) /\ x.decisions = KeptRows(h, p)
  <2>1. x = ShedRows(h, p)
    BY <1>1, <1>4, <1>6
  <2>2. x.decisions = KeptRows(h, p)
    BY <1>3, <1>6, <2>1, RowsEnds
  <2> QED
    BY <1>2, <1>4, <1>5, <1>6, <2>2 DEF Bare, ButRows
<1>7. ASSUME Over(x) PROVE a.files = <<>>
  <2>1. x.files = <<>>
    BY <1>6, <1>7 DEF Bare
  <2>2. PICK n \in 0 .. Len(OldFilesLeft(x)) :
           /\ a = WithOldFiles(x, LastOf(OldFilesLeft(x), n))
           /\ LastOf(OldFilesLeft(x), n) \in Seq(FileRecord)
           /\ Drawn(LastOf(OldFilesLeft(x), n), x.files)
    BY <1>1, <1>2, OldFilesCut
  <2> DEFINE t == LastOf(OldFilesLeft(x), n)
  <2>3. a.files = t
    BY <1>2, <2>2 DEF WithOldFiles, Document
  <2>4. x.files \in Seq(FileRecord) /\ Len(x.files) = 0
    BY <1>2, <2>1, FieldsOf, EmptySeq
  <2>5. t \in Seq(FileRecord) /\ Drawn(t, x.files)
    BY <2>2
  <2> HIDE DEF t
  <2>6. Len(t) <= 0 /\ Len(t) \in Nat
    BY <2>4, <2>5, DrawnIsLess, LenProperties
  <2> QED
    BY <2>3, <2>5, <2>6, NoneLeft
<1>8. /\ Over(b) => b.blockers = <<>>
      /\ Over(c) => c.steps = <<>>
  BY <1>1, <1>2, BlockersEnds, StepsEnds
<1> QED
  BY <1>6, <1>7, <1>8 DEF h, x, a, b, c

\* What all the stages could not make small enough.
LEMMA FittedBare ==
    ASSUME NEW m \in Document, NEW now, NEW p, Over(Fitted(m, now, p))
    PROVE  LET f == Fitted(m, now, p) IN
           /\ Bare(f, m, now, p, 6) /\ f.decisions = KeptRows(Tidied(m, now, p), p)
           /\ f.blockers = <<>> /\ f.steps = <<>> /\ f.task.text = 0
<1> DEFINE f == Fitted(m, now, p)
           x == Fewer(m, now, p)
           a == Unfiled(m, now, p)
           b == Unblocked(m, now, p)
           c == Unstepped(m, now, p)
<1>1. Over(c) /\ Over(b) /\ Over(x) /\ f = ShedTask(c)
  BY OverAll
<1>2. /\ c \in Document /\ ButFiles(a, x) /\ ButBlockers(b, a) /\ ButSteps(c, b)
      /\ ButTask(ShedTask(c), c)
  BY PressingIs
<1>3. /\ Bare(x, m, now, p, 6) /\ x.decisions = KeptRows(Tidied(m, now, p), p)
      /\ a.files = <<>> /\ b.blockers = <<>> /\ c.steps = <<>>
  BY <1>1, PressedBare
<1>4. ShedTask(c).task.text = 0
  BY <1>1, <1>2, TaskEnds
<1> HIDE DEF f, x, a, b, c
<1>5. Bare(f, m, now, p, 6)
  BY <1>1, <1>2, <1>3 DEF Bare, ButFiles, ButBlockers, ButSteps, ButTask
<1>6. /\ f.decisions = KeptRows(Tidied(m, now, p), p)
      /\ f.blockers = <<>> /\ f.steps = <<>> /\ f.task.text = 0
  BY <1>1, <1>2, <1>3, <1>4 DEF ButFiles, ButBlockers, ButSteps, ButTask
<1> QED
  BY <1>5, <1>6 DEF f
-----------------------------------------------------------------------------
(* The rows that stay                                                      *)

\* The rows that the flags or the transaction protect.
MustStay(m, p) == {r \in RowsOf(m) :
    \/ r.flags \cap {"foundational", "human_conflict_quarantined"} # {}
    \/ r.id \in p.rows}

\* Rows drawn from rows with different ids have different ids.
LEMMA DrawnUnique ==
    ASSUME NEW s, Unique(s), NEW t, Drawn(t, s)
    PROVE  Unique(t)
<1>1. PICK g \in Injection(DOMAIN t, DOMAIN s) : \A k \in DOMAIN t : t[k] = s[g[k]]
  BY DEF Drawn
<1>2. \A k \in DOMAIN t : g[k] \in DOMAIN s
  BY <1>1 DEF Injection
<1>3. \A j, k \in DOMAIN t : g[j] = g[k] => j = k
  BY <1>1 DEF Injection, IsInjective
<1> SUFFICES ASSUME NEW j \in DOMAIN t, NEW k \in DOMAIN t, t[j].id = t[k].id PROVE j = k
  BY DEF Unique
<1>4. s[g[j]].id = s[g[k]].id
  BY <1>1
<1>5. g[j] = g[k]
  BY <1>2, <1>4 DEF Unique
<1> QED
  BY <1>3, <1>5

\* A row is known by its id.
LEMMA UniqueRow ==
    ASSUME NEW s, Unique(s), NEW r \in Range(s), NEW q \in Range(s), r.id = q.id
    PROVE  r = q
BY DEF Unique, Range

\* What protects the ids of rows protects these rows alone.
LEMMA ProtectedIs ==
    ASSUME NEW m, Unique(m.decisions), NEW p
    PROVE  ProtectedRows(m, p) = MustStay(m, p)
<1>1. ASSUME NEW r \in ProtectedRows(m, p) PROVE r \in MustStay(m, p)
  <2>1. r \in Range(m.decisions) /\ r.id \in ProtectedIds(m, p)
    BY <1>1 DEF ProtectedRows
  <2>2. CASE r.id \in p.rows
    BY <2>1, <2>2 DEF MustStay, RowsOf
  <2>3. CASE r.id \notin p.rows
    <3>1. PICK q \in Range(m.decisions) :
             /\ q.id = r.id
             /\ Has(q, "foundational") \/ Has(q, "human_conflict_quarantined")
      BY <2>1, <2>3 DEF ProtectedIds
    <3>2. q = r
      BY <2>1, <3>1, UniqueRow
    <3> QED
      BY <2>1, <3>1, <3>2 DEF MustStay, RowsOf, Has
  <2> QED
    BY <2>2, <2>3
<1>2. ASSUME NEW r \in MustStay(m, p) PROVE r \in ProtectedRows(m, p)
  BY <1>2 DEF MustStay, RowsOf, ProtectedRows, ProtectedIds, Has
<1> QED
  BY <1>1, <1>2

\* Stages 5 and 7.
LEMMA DropsLeave ==
    ASSUME NEW m \in Document, Unique(m.decisions), NEW now, NEW p
    PROVE  /\ Drawn(DropInvalid(m, p).decisions, m.decisions)
           /\ Drawn(DropOld(m, now, p).decisions, m.decisions)
           /\ MustStay(m, p) \subseteq RowsOf(DropInvalid(m, p))
           /\ MustStay(m, p) \subseteq RowsOf(DropOld(m, now, p))
<1>1. m.decisions \in Seq(Decision)
  BY FieldsOf
<1>2. ASSUME NEW S, NEW y, y = KeepRows(m, S), ProtectedRows(m, p) \subseteq S
      PROVE  Drawn(y.decisions, m.decisions) /\ MustStay(m, p) \subseteq RowsOf(y)
  <2>1. y.decisions = Within(m.decisions, S)
    BY <1>2 DEF KeepRows, Document
  <2>2. Drawn(y.decisions, m.decisions) /\ Range(y.decisions) = Range(m.decisions) \cap S
    BY <1>1, <2>1, WithinDraws
  <2>3. MustStay(m, p) \subseteq Range(m.decisions) /\ MustStay(m, p) \subseteq S
    BY <1>2, ProtectedIs DEF MustStay, RowsOf
  <2> QED
    BY <2>2, <2>3 DEF RowsOf
<1> DEFINE S == {r \in Range(m.decisions) :
                    Has(r, "still_valid") \/ r.id \in ProtectedIds(m, p)}
           T == {r \in Range(m.decisions) : r.id \in ProtectedIds(m, p)
                    \/ (r.stamp # NoTime /\ now <= r.stamp + Horizon)}
           y == DropInvalid(m, p)
           z == DropOld(m, now, p)
<1>3. y = KeepRows(m, S) /\ z = KeepRows(m, T)
  BY DEF DropInvalid, DropOld
<1>4. ProtectedRows(m, p) \subseteq S /\ ProtectedRows(m, p) \subseteq T
  BY DEF ProtectedRows
<1> HIDE DEF S, T, y, z
<1>5. Drawn(y.decisions, m.decisions) /\ MustStay(m, p) \subseteq RowsOf(y)
  BY <1>2, <1>3, <1>4
<1>6. Drawn(z.decisions, m.decisions) /\ MustStay(m, p) \subseteq RowsOf(z)
  BY <1>2, <1>3, <1>4
<1> QED
  BY <1>5, <1>6 DEF y, z

\* What must stay in a document is what must stay of it, if it is there.
LEMMA StaysProtected ==
    ASSUME NEW y, NEW m, NEW p, MustStay(m, p) \subseteq RowsOf(y)
    PROVE  MustStay(m, p) \subseteq MustStay(y, p)
BY DEF MustStay

\* The rows after stage 7.
LEMMA RecentRows ==
    ASSUME NEW m \in Document, Unique(m.decisions), NEW now, NEW p
    PROVE  /\ Drawn(Recent(m, now, p).decisions, m.decisions)
           /\ MustStay(m, p) \subseteq RowsOf(Recent(m, now, p))
<1> DEFINE d == Booked(m, now, p)
           e == Lawful(m, now, p)
           f == Filed(m, now, p)
           g == Recent(m, now, p)
<1>1. /\ e = DropInvalid(d, p) /\ g = DropOld(f, now, p)
  BY DEF Lawful, Recent
<1>2. /\ ButAudits(Audited(m, now), m) /\ ButCache(Cached(m, now), Audited(m, now))
      /\ ButHealth(Healthy(m, now), Cached(m, now)) /\ ButBooks(d, Healthy(m, now))
      /\ ButFiles(f, e) /\ d \in Document /\ f \in Document
  BY TidyingIs
<1> HIDE DEF d, e, f, g
<1>3. d.decisions = m.decisions /\ f.decisions = e.decisions
  BY <1>2 DEF ButAudits, ButCache, ButHealth, ButBooks, ButFiles
<1>4. Unique(d.decisions)
  BY <1>3
<1>5. Drawn(e.decisions, d.decisions) /\ MustStay(d, p) \subseteq RowsOf(e)
  BY <1>1, <1>2, <1>4, DropsLeave
<1>6. Unique(f.decisions)
  BY <1>3, <1>4, <1>5, DrawnUnique
<1>7. Drawn(g.decisions, f.decisions) /\ MustStay(f, p) \subseteq RowsOf(g)
  BY <1>1, <1>2, <1>6, DropsLeave
<1>8. MustStay(d, p) = MustStay(m, p) /\ MustStay(f, p) = MustStay(e, p)
  BY <1>3 DEF MustStay, RowsOf
<1>9. MustStay(m, p) \subseteq RowsOf(g)
  BY <1>5, <1>7, <1>8, StaysProtected
<1>10. Drawn(g.decisions, m.decisions)
  BY <1>3, <1>5, <1>7, DrawnTwice
<1> QED
  BY <1>9, <1>10 DEF g

\* A shortened row is the same but for its text.
LEMMA ShortRowIs ==
    ASSUME NEW r \in Decision
    PROVE  /\ ShortRow(r) \in Decision
           /\ ShortRow(r).id = r.id /\ ShortRow(r).flags = r.flags
           /\ ShortRow(r).used = r.used /\ ShortRow(r).stamp = r.stamp
           /\ ShortRow(r).text = Short(r.text)
<1>1. Short(r.text) \in Nat
  BY ShortIs DEF Decision
<1> QED
  BY <1>1 DEF ShortRow, Decision

\* The rows after stage 8.
LEMMA TidiedRows ==
    ASSUME NEW m \in Document, Unique(m.decisions), NEW now, NEW p
    PROVE  /\ Unique(Tidied(m, now, p).decisions)
           /\ RowsOf(Tidied(m, now, p)) = {ShortRow(r) : r \in RowsOf(Recent(m, now, p))}
           /\ ProtectedRows(Tidied(m, now, p), p) = {ShortRow(x) : x \in MustStay(m, p)}
<1> DEFINE g == Recent(m, now, p)
           h == Tidied(m, now, p)
<1>1. g \in Document /\ h \in Document /\ Shortened(h, g)
  BY TidyingIs
<1>2. Drawn(g.decisions, m.decisions) /\ MustStay(m, p) \subseteq RowsOf(g)
  BY RecentRows
<1> HIDE DEF g, h
<1>3. Unique(g.decisions)
  BY <1>2, DrawnUnique
<1>4. /\ g.decisions \in Seq(Decision) /\ m.decisions \in Seq(Decision)
      /\ \A i \in DOMAIN g.decisions : g.decisions[i] \in Decision
  BY <1>1, FieldsOf, Weights
<1>5. /\ DOMAIN h.decisions = DOMAIN g.decisions
      /\ \A i \in DOMAIN g.decisions : h.decisions[i] = ShortRow(g.decisions[i])
  BY <1>1 DEF Shortened
<1>6. Unique(h.decisions)
  BY <1>3, <1>4, <1>5, ShortRowIs DEF Unique
<1>7. RowsOf(h) = {ShortRow(r) : r \in RowsOf(g)}
  BY <1>5 DEF RowsOf, Range
<1>8. RowsOf(g) \subseteq RowsOf(m) /\ RowsOf(g) \subseteq Decision
  <2>1. Range(g.decisions) \subseteq Range(m.decisions)
    BY <1>2, <1>4, DrawnIsLess
  <2> QED
    BY <1>4, <2>1 DEF RowsOf, Range
<1>9. ProtectedRows(h, p) = MustStay(h, p)
  BY <1>6, ProtectedIs
<1>10. ASSUME NEW q \in MustStay(h, p) PROVE \E x \in MustStay(m, p) : q = ShortRow(x)
  <2>1. PICK x \in RowsOf(g) : q = ShortRow(x)
    BY <1>7 DEF MustStay
  <2>2. x \in Decision /\ x \in RowsOf(m)
    BY <1>8
  <2>3. q.id = x.id /\ q.flags = x.flags
    BY <2>1, <2>2, ShortRowIs
  <2>4. x \in MustStay(m, p)
    BY <2>2, <2>3 DEF MustStay
  <2> QED
    BY <2>1, <2>4
<1>11. ASSUME NEW x \in MustStay(m, p) PROVE ShortRow(x) \in MustStay(h, p)
  <2>1. x \in RowsOf(g) /\ x \in Decision
    BY <1>2, <1>8
  <2>2. ShortRow(x) \in RowsOf(h)
    BY <1>7, <2>1
  <2>3. ShortRow(x).id = x.id /\ ShortRow(x).flags = x.flags
    BY <2>1, ShortRowIs
  <2> QED
    BY <2>2, <2>3 DEF MustStay
<1> QED
  BY <1>6, <1>7, <1>9, <1>10, <1>11 DEF g, h

\* The rows after stages 9 and 10.
LEMMA FittedRows ==
    ASSUME NEW m \in Document, Unique(m.decisions), NEW now, NEW p
    PROVE  /\ {ShortRow(x) : x \in MustStay(m, p)} \subseteq RowsOf(Fitted(m, now, p))
           /\ RowsOf(Fitted(m, now, p)) \subseteq RowsOf(Tidied(m, now, p))
           /\ Fitted(m, now, p).decisions = Fewer(m, now, p).decisions
<1> DEFINE h == Tidied(m, now, p)
           x == Fewer(m, now, p)
           y == Fitted(m, now, p)
           k == KeptRows(h, p)
           a == AllRows(h, p)
           K == {ShortRow(q) : q \in MustStay(m, p)}
<1>1. y.decisions = x.decisions
  BY PressingIs DEF ButFiles, ButBlockers, ButSteps, ButTask
<1>2. ProtectedRows(h, p) = K
  BY TidiedRows
<1>3. h \in Document
  BY TidyingIs
<1>4. x = IF Over(h) THEN ShedRows(h, p) ELSE h
  BY DEF Fewer
<1> HIDE DEF h, x, y, K
<1>5. /\ k \in Seq(Decision) /\ UsefulRows(h, p) \in Seq(Decision) /\ a \in Seq(Decision)
      /\ Range(k) = K /\ Range(UsefulRows(h, p)) = Range(h.decisions) \ K
      /\ a = k \o UsefulRows(h, p)
  BY <1>2, <1>3, RowsCut DEF AllRows
<1>6. K \subseteq Range(h.decisions)
  BY <1>2 DEF ProtectedRows
<1>7. ASSUME ~Over(h) PROVE K \subseteq RowsOf(y) /\ RowsOf(y) \subseteq RowsOf(h)
  BY <1>1, <1>4, <1>6, <1>7 DEF RowsOf
<1>8. ASSUME Over(h) PROVE K \subseteq RowsOf(y) /\ RowsOf(y) \subseteq RowsOf(h)
  <2>1. PICK n \in Len(k) .. Len(a) : ShedRows(h, p).decisions = FirstOf(a, n)
    BY <1>3, RowsEnds
  <2> DEFINE t == FirstOf(a, n)
  <2> HIDE DEF k, a
  <2>2. Len(k) \in Nat /\ Len(a) \in Nat /\ DOMAIN k = 1 .. Len(k)
    BY <1>5, LenProperties
  <2>3. n \in Nat /\ Len(k) <= n /\ n <= Len(a)
    BY <2>1, <2>2
  <2>4. /\ t \in Seq(Decision) /\ Len(t) = n /\ \A i \in 1 .. n : t[i] = a[i]
        /\ Drawn(t, a)
    <3>1. /\ t \in Seq(Decision) /\ Len(t) = IF Len(a) > n THEN n ELSE Len(a)
          /\ \A i \in 1 .. Len(t) : t[i] = a[i]
          /\ Drawn(t, a)
      BY <1>5, <2>3, FirstOfIs
    <3> HIDE DEF t
    <3>2. Len(t) = n
      BY <2>2, <2>3, <3>1
    <3> QED
      BY <3>1, <3>2
  <2>5. \A i \in 1 .. Len(k) : a[i] = k[i]
    BY <1>5, ConcatProperties
  <2> HIDE DEF t
  <2>6. DOMAIN t = 1 .. n
    BY <2>4, LenProperties
  <2>7. \A i \in DOMAIN k : i \in DOMAIN t /\ t[i] = k[i]
    BY <2>2, <2>3, <2>4, <2>5, <2>6
  <2>8. Range(k) \subseteq Range(t)
    BY <2>7 DEF Range
  <2>9. Range(t) \subseteq Range(a)
    BY <1>5, <2>4, DrawnIsLess
  <2>10. Range(a) = Range(k) \cup Range(UsefulRows(h, p))
    BY <1>5, RangeConcatenation
  <2>11. y.decisions = t
    BY <1>1, <1>4, <1>8, <2>1 DEF t
  <2> QED
    BY <1>5, <1>6, <2>8, <2>9, <2>10, <2>11 DEF RowsOf
<1> QED
  BY <1>1, <1>7, <1>8 DEF h, x, y, K
-----------------------------------------------------------------------------
(* What no stage may touch                                                 *)

\* The audits that may still be answered.
GuardsOf(m, now) == {a \in Range(m.audits) : IsPending(a) /\ ~(now - a.stamp > AuditTimeout)}

\* The others.
Answered(m, now) == {a \in Range(m.audits) : ~IsPending(a) \/ now - a.stamp > AuditTimeout}

\* How many entries a filter leaves.
LEMMA WithinCounts ==
    ASSUME NEW D, NEW s \in Seq(D), NEW S
    PROVE  Len(Within(s, S)) = Cardinality({i \in DOMAIN s : s[i] \in S})
<1> DEFINE at == {i \in DOMAIN s : s[i] \in S}
<1>1. at \in SUBSET DOMAIN s /\ Within(s, S) = At(s, at)
  BY DEF Within
<1> HIDE DEF at
<1>2. Len(Within(s, S)) = Cardinality(at)
  BY <1>1, AtSelects
<1> QED
  BY <1>2 DEF at

\* Stage 0 makes the guards what is pending.
LEMMA WaitingIs ==
    ASSUME NEW m \in Document, NEW now
    PROVE  /\ Len(Waiting(ExpireAudits(m, now))) = Len(Within(m.audits, GuardsOf(m, now)))
           /\ Len(Done(ExpireAudits(m, now))) = Len(Within(m.audits, Answered(m, now)))
<1> DEFINE z == ExpireAudits(m, now)
<1>1. /\ z \in Document /\ DOMAIN z.audits = DOMAIN m.audits
      /\ \A i \in DOMAIN m.audits : z.audits[i] = Expired(m.audits[i], now)
  BY ExpireIs DEF Lightened
<1>2. m.audits \in Seq(AuditRecord)
  BY FieldsOf
<1> HIDE DEF z
<1>3. z.audits \in Seq(AuditRecord)
  BY <1>1, FieldsOf
<1> DEFINE S == {x \in Range(z.audits) : IsPending(x)}
           T == {x \in Range(z.audits) : IsCompleted(x)}
<1>4. ASSUME NEW i \in DOMAIN m.audits
      PROVE  /\ z.audits[i] \in S <=> m.audits[i] \in GuardsOf(m, now)
             /\ z.audits[i] \in T <=> m.audits[i] \in Answered(m, now)
  <2>1. m.audits[i] \in AuditRecord
    BY <1>2, LenProperties
  <2>2. IsPending(z.audits[i]) <=>
           IsPending(m.audits[i]) /\ ~(now - m.audits[i].stamp > AuditTimeout)
    BY <1>1, <2>1 DEF Expired, IsPending, AuditRecord
  <2>3. IsCompleted(z.audits[i]) <=> ~IsPending(z.audits[i])
    BY DEF IsCompleted, IsPending
  <2>4. z.audits[i] \in Range(z.audits) /\ m.audits[i] \in Range(m.audits)
    BY <1>1 DEF Range
  <2> QED
    BY <2>2, <2>3, <2>4 DEF GuardsOf, Answered
<1>5. /\ Waiting(z) = Within(z.audits, S) /\ Done(z) = Within(z.audits, T)
  BY DEF Waiting, Done, Those
<1> HIDE DEF S, T
<1>6. /\ {i \in DOMAIN z.audits : z.audits[i] \in S}
            = {i \in DOMAIN m.audits : m.audits[i] \in GuardsOf(m, now)}
      /\ {i \in DOMAIN z.audits : z.audits[i] \in T}
            = {i \in DOMAIN m.audits : m.audits[i] \in Answered(m, now)}
  BY <1>1, <1>4
<1>7. /\ Len(Waiting(z)) = Cardinality({i \in DOMAIN z.audits : z.audits[i] \in S})
      /\ Len(Done(z)) = Cardinality({i \in DOMAIN z.audits : z.audits[i] \in T})
  BY <1>3, <1>5, WithinCounts
<1>8. /\ Len(Within(m.audits, GuardsOf(m, now)))
            = Cardinality({i \in DOMAIN m.audits : m.audits[i] \in GuardsOf(m, now)})
      /\ Len(Within(m.audits, Answered(m, now)))
            = Cardinality({i \in DOMAIN m.audits : m.audits[i] \in Answered(m, now)})
  BY <1>2, WithinCounts
<1> QED
  BY <1>6, <1>7, <1>8 DEF z

\* To every row of y there is one in x that has its id and is no shorter.
RowsCover(x, y) == \A q \in RowsOf(y) : \E r \in RowsOf(x) : r.id = q.id /\ q.text <= r.text

\* Then the rows of y weigh no more, if their ids differ.
LEMMA RowsWeigh ==
    ASSUME NEW x \in Document, NEW y \in Document, Unique(y.decisions), RowsCover(x, y)
    PROVE  Charge(y)[1] <= Charge(x)[1]
<1> DEFINE s == RowWeights(x)
           t == RowWeights(y)
           MatchOf(k) == CHOOSE i \in DOMAIN x.decisions :
                        /\ x.decisions[i].id = y.decisions[k].id
                        /\ y.decisions[k].text <= x.decisions[i].text
           g == [k \in DOMAIN y.decisions |-> MatchOf(k)]
<1>1. /\ s \in Seq(Nat) /\ DOMAIN s = DOMAIN x.decisions
      /\ t \in Seq(Nat) /\ DOMAIN t = DOMAIN y.decisions
      /\ \A i \in DOMAIN x.decisions : s[i] = Cost.row + x.decisions[i].text
                                       /\ x.decisions[i].text \in Nat
      /\ \A i \in DOMAIN y.decisions : t[i] = Cost.row + y.decisions[i].text
                                       /\ y.decisions[i].text \in Nat
      /\ Cost.row \in Nat
  BY Weights
<1>2. ASSUME NEW k \in DOMAIN y.decisions
      PROVE  /\ MatchOf(k) \in DOMAIN x.decisions
             /\ x.decisions[MatchOf(k)].id = y.decisions[k].id
             /\ y.decisions[k].text <= x.decisions[MatchOf(k)].text
  <2>1. y.decisions[k] \in RowsOf(y)
    BY DEF RowsOf, Range
  <2>2. PICK r \in RowsOf(x) : r.id = y.decisions[k].id /\ y.decisions[k].text <= r.text
    BY <2>1 DEF RowsCover
  <2>3. PICK i \in DOMAIN x.decisions : x.decisions[i] = r
    BY DEF RowsOf, Range
  <2> QED
    BY <2>2, <2>3
<1> HIDE DEF MatchOf
<1>3. /\ g \in [DOMAIN t -> DOMAIN s]
      /\ \A k \in DOMAIN y.decisions : g[k] = MatchOf(k)
  BY <1>1, <1>2
<1> HIDE DEF g, s, t
<1>4. \A j, k \in DOMAIN t : g[j] = g[k] => j = k
  <2> SUFFICES ASSUME NEW j \in DOMAIN t, NEW k \in DOMAIN t, g[j] = g[k] PROVE j = k
    OBVIOUS
  <2>1. j \in DOMAIN y.decisions /\ k \in DOMAIN y.decisions
    BY <1>1
  <2>2. /\ x.decisions[g[j]].id = y.decisions[j].id
        /\ x.decisions[g[k]].id = y.decisions[k].id
    BY <1>2, <1>3, <2>1
  <2>3. y.decisions[j].id = y.decisions[k].id
    BY <2>2
  <2> QED
    BY <2>1, <2>3 DEF Unique
<1>5. \A k \in DOMAIN t : t[k] <= s[g[k]]
  <2> SUFFICES ASSUME NEW k \in DOMAIN t PROVE t[k] <= s[g[k]]
    OBVIOUS
  <2>1. /\ g[k] \in DOMAIN x.decisions /\ y.decisions[k].text <= x.decisions[g[k]].text
        /\ k \in DOMAIN y.decisions
    BY <1>1, <1>2, <1>3
  <2>2. /\ t[k] = Cost.row + y.decisions[k].text
        /\ s[g[k]] = Cost.row + x.decisions[g[k]].text
        /\ y.decisions[k].text \in Nat /\ x.decisions[g[k]].text \in Nat
    BY <1>1, <2>1
  <2> DEFINE a == y.decisions[k].text
             b == x.decisions[g[k]].text
             c == Cost.row
  <2>3. a \in Nat /\ b \in Nat /\ c \in Nat /\ a <= b /\ t[k] = c + a /\ s[g[k]] = c + b
    BY <1>1, <2>1, <2>2
  <2> HIDE DEF a, b, c
  <2> QED
    BY <2>3
<1>6. Outweighs(s, t)
  BY <1>3, <1>4, <1>5, OutweighsBy
<1>7. Total(t) <= Total(s)
  BY <1>1, <1>6, OutweighedIsLess
<1> QED
  BY <1>7, ChargeOf DEF s, t

\* y is what must stay of m: protected rows without their detail, protected
\* completions and the guards.
IsCore(y, m, now, p) ==
    /\ y \in Document
    /\ y.decisions = Mapped(Within(m.decisions, MustStay(m, p)), ShortRow)
    /\ y.sources = OwnSources(m, p)
    /\ y.audits = Within(m.audits, GuardsOf(m, now))
    /\ y.files = <<>> /\ y.blockers = <<>> /\ y.steps = <<>>
    /\ y.sessions = <<>> /\ y.cache = <<>> /\ y.health = <<>>
    /\ y.quarantined = 0 /\ y.task.text = 0

\* The rows of what must stay.
LEMMA CoreRows ==
    ASSUME NEW m \in Document, Unique(m.decisions), NEW p
    PROVE  LET t == Mapped(Within(m.decisions, MustStay(m, p)), ShortRow) IN
           /\ t \in Seq(Decision) /\ Unique(t)
           /\ Range(t) = {ShortRow(x) : x \in MustStay(m, p)}
<1> DEFINE s == Within(m.decisions, MustStay(m, p))
           t == Mapped(s, ShortRow)
<1>1. m.decisions \in Seq(Decision)
  BY FieldsOf
<1>2. /\ s \in Seq(Decision) /\ Range(s) = Range(m.decisions) \cap MustStay(m, p)
      /\ Drawn(s, m.decisions)
  BY <1>1, WithinDraws
<1>3. Unique(s)
  BY <1>2, DrawnUnique
<1>4. Range(s) = MustStay(m, p)
  BY <1>2 DEF MustStay, RowsOf
<1> HIDE DEF s
<1>5. /\ DOMAIN t = DOMAIN s /\ t = [i \in DOMAIN s |-> t[i]]
      /\ \A i \in DOMAIN s : t[i] = ShortRow(s[i])
  BY DEF Mapped
<1>6. \A i \in DOMAIN s : s[i] \in Decision
  BY <1>2, LenProperties
<1> HIDE DEF t
<1>7. AsLong(t, s, Decision)
  BY <1>5, <1>6, ShortRowIs DEF AsLong
<1>8. t \in Seq(Decision)
  BY <1>2, <1>7, ListBy
<1>9. Unique(t)
  BY <1>3, <1>5, <1>6, ShortRowIs DEF Unique
<1>10. Range(t) = {ShortRow(x) : x \in MustStay(m, p)}
  BY <1>4, <1>5 DEF Range
<1> QED
  BY <1>8, <1>9, <1>10 DEF t, s

\* What a refusal compares with the limit is the size of what must stay.
LEMMA IrreducibleIs ==
    ASSUME NEW m \in Document, Unique(m.decisions)
    PROVE  \E y : IsCore(y, m, clock, pending.protection) /\ Irreducible(m) = Size(y)
<1> DEFINE p == pending.protection
           rows == Mapped(Within(m.decisions, MustStay(m, p)), ShortRow)
           audits == Within(m.audits, GuardsOf(m, clock))
           own == OwnSources(m, p)
           task == [m.task EXCEPT !.text = 0]
           y == [m EXCEPT !.decisions = rows, !.sources = own, !.audits = audits,
                          !.files = <<>>, !.blockers = <<>>, !.steps = <<>>,
                          !.sessions = <<>>, !.cache = <<>>, !.health = <<>>,
                          !.quarantined = 0, !.task = task]
<1>1. Irreducible(m) = Size(y)
  <2> DEFINE s == Within(m.decisions, Kept(m))
             a == [i \in DOMAIN s |->
                      [s[i] EXCEPT !.text = IF @ > Cap.detail THEN Cap.detail ELSE @]]
             b == Within(m.sources, p.sources)
             c == Within(m.audits, Guards(m))
             e == [m.task EXCEPT !.text = 0]
  <2>1. Irreducible(m) =
           Size([m EXCEPT !.decisions = a, !.sources = b, !.audits = c,
                          !.files = <<>>, !.blockers = <<>>, !.steps = <<>>,
                          !.sessions = <<>>, !.cache = <<>>, !.health = <<>>,
                          !.quarantined = 0, !.task = e])
    BY DEF Irreducible, Mapped
  <2>2. Kept(m) = MustStay(m, p)
    BY DEF Kept, MustStay
  <2>3. a = rows
    BY <2>2 DEF Mapped, ShortRow, Short, Truncated
  <2>4. Guards(m) = GuardsOf(m, clock)
    BY DEF Guards, Stale, GuardsOf, IsPending
  <2>5. b = own /\ c = audits /\ e = task
    BY <2>4 DEF OwnSources
  <2> HIDE DEF a, b, c, e, rows, own, audits, task, p
  <2> QED
    BY <2>1, <2>3, <2>5
<1>2. m.task \in [text : Nat, by : Authors \cup {"none"}] /\ m.audits \in Seq(AuditRecord)
  BY FieldsOf
<1>3. rows \in Seq(Decision)
  BY CoreRows
<1>4. own \in Seq(Nat)
  BY BooksCut
<1>5. audits \in Seq(AuditRecord)
  BY <1>2, WithinDraws
<1>6. task \in [text : Nat, by : Authors \cup {"none"}] /\ task.text = 0
  BY <1>2
<1>7. <<>> \in Seq(FileRecord) /\ <<>> \in Seq(Nat) /\ <<>> \in Seq(CacheRecord) /\ 0 \in Nat
  OBVIOUS
<1>8. rows = Mapped(Within(m.decisions, MustStay(m, p)), ShortRow)
      /\ own = OwnSources(m, p) /\ audits = Within(m.audits, GuardsOf(m, clock))
  OBVIOUS
<1> HIDE DEF rows, own, audits, task
<1>9. y \in Document
  BY <1>3, <1>4, <1>5, <1>6, <1>7 DEF Document, FileRecord, CacheRecord, AuditRecord
<1>10. /\ y.decisions = rows /\ y.sources = own /\ y.audits = audits
       /\ y.files = <<>> /\ y.blockers = <<>> /\ y.steps = <<>>
       /\ y.sessions = <<>> /\ y.cache = <<>> /\ y.health = <<>>
       /\ y.quarantined = 0 /\ y.task = task
  BY DEF Document
<1> HIDE DEF y
<1>11. IsCore(y, m, clock, p)
  BY <1>6, <1>8, <1>9, <1>10 DEF IsCore
<1> QED
  BY <1>1, <1>11

\* An empty list weighs nothing.
LEMMA EmptyFiles ==
    ASSUME NEW m \in Document, m.files = <<>>
    PROVE  Charge(m)[2] = 0
<1>1. FileWeights(m) \in Seq(Nat) /\ DOMAIN FileWeights(m) = DOMAIN m.files
  BY Weights
<1>2. DOMAIN FileWeights(m) = {}
  BY <1>1
<1> DEFINE n == Len(FileWeights(m))
<1>3. n \in Nat /\ 1 .. n = {}
  BY <1>1, <1>2, LenProperties
<1> HIDE DEF n
<1>4. ~(n >= 1)
  BY <1>3
<1>5. n = 0
  BY <1>3, <1>4
<1>6. FileWeights(m) = <<>>
  BY <1>1, <1>5, NoneLeft DEF n
<1> QED
  BY <1>6, EmptyTotal, ChargeOf

\* The charge of what must stay is that of its rows, audits and completions.
LEMMA CoreCharge ==
    ASSUME NEW y \in Document, y.files = <<>>, y.blockers = <<>>, y.steps = <<>>,
           y.sessions = <<>>, y.cache = <<>>, y.health = <<>>, y.quarantined = 0,
           y.task.text = 0
    PROVE  /\ Charge(y)[2] = 0 /\ Charge(y)[3] = 0 /\ Charge(y)[4] = 0 /\ Charge(y)[5] = 0
           /\ Charge(y)[7] = 0 /\ Charge(y)[8] = 0 /\ Charge(y)[9] = 0 /\ Charge(y)[11] = 0
<1>1. Charge(y)[2] = 0
  BY EmptyFiles
<1>2. Charge(y)[3] = 0 /\ Charge(y)[4] = 0 /\ Charge(y)[5] = 0
  BY EmptyTotal, ChargeOf
<1>3. Len(y.cache) = 0 /\ Len(y.health) = 0 /\ Len(y.sessions) = 0
  OBVIOUS
<1>4. Cost.cache \in Nat /\ Cost.health \in Nat /\ Cost.session \in Nat
  BY DocumentAssumption
<1> DEFINE a == Cost.cache
           b == Cost.health
           c == Cost.session
<1>5. a \in Nat /\ b \in Nat /\ c \in Nat
      /\ Charge(y)[7] = a * 0 /\ Charge(y)[8] = b * 0 /\ Charge(y)[9] = c * 0
  BY <1>3, <1>4, ChargeOf
<1> HIDE DEF a, b, c
<1>6. Charge(y)[7] = 0 /\ Charge(y)[8] = 0 /\ Charge(y)[9] = 0
  BY <1>5
<1>7. Charge(y)[11] = 0
  BY ChargeOf DEF Flat
<1> QED
  BY <1>1, <1>2, <1>6, <1>7

\* Parts that weigh no more make a document that weighs no more.
LEMMA LighterBy ==
    ASSUME NEW x \in Document, NEW y \in Document,
           Charge(y)[2] = 0, Charge(y)[3] = 0, Charge(y)[4] = 0, Charge(y)[5] = 0,
           Charge(y)[7] = 0, Charge(y)[8] = 0, Charge(y)[9] = 0, Charge(y)[11] = 0,
           Charge(y)[1] <= Charge(x)[1], Len(y.audits) <= Len(x.audits),
           Len(y.sources) <= Len(x.sources)
    PROVE  Size(y) <= Size(x) /\ Size(y) \in Nat /\ Size(x) \in Nat
<1>1. \A k \in 1 .. 11 : Charge(x)[k] \in Nat
  BY SameCharge
<1>2. /\ Len(x.audits) \in Nat /\ Len(y.audits) \in Nat
      /\ Len(x.sources) \in Nat /\ Len(y.sources) \in Nat
  BY FieldsOf, LenProperties
<1>3. Cost.audit \in Nat /\ Cost.source \in Nat
  BY DocumentAssumption
<1>4. /\ Cost.audit * Len(y.audits) <= Cost.audit * Len(x.audits)
      /\ Cost.source * Len(y.sources) <= Cost.source * Len(x.sources)
  BY <1>2, <1>3, TimesMore
<1>5. Charge(y)[6] <= Charge(x)[6] /\ Charge(y)[10] <= Charge(x)[10]
  BY <1>4, ChargeOf
<1>6. \A k \in 1 .. 11 : k \in {1, 2, 3, 4, 5, 6, 7, 8, 9, 10, 11}
  OBVIOUS
<1>7. \A k \in 1 .. 11 : Charge(y)[k] <= Charge(x)[k]
  <2> DEFINE a == Charge(x)
             b == Charge(y)
  <2>1. /\ 0 <= a[2] /\ 0 <= a[3] /\ 0 <= a[4] /\ 0 <= a[5]
        /\ 0 <= a[7] /\ 0 <= a[8] /\ 0 <= a[9] /\ 0 <= a[11]
    <3> HIDE DEF a
    <3>1. \A k \in 1 .. 11 : a[k] \in Nat
      BY <1>1 DEF a
    <3>2. /\ 2 \in 1 .. 11 /\ 3 \in 1 .. 11 /\ 4 \in 1 .. 11 /\ 5 \in 1 .. 11
          /\ 7 \in 1 .. 11 /\ 8 \in 1 .. 11 /\ 9 \in 1 .. 11 /\ 11 \in 1 .. 11
      OBVIOUS
    <3>3. /\ a[2] \in Nat /\ a[3] \in Nat /\ a[4] \in Nat /\ a[5] \in Nat
          /\ a[7] \in Nat /\ a[8] \in Nat /\ a[9] \in Nat /\ a[11] \in Nat
      BY <3>1, <3>2, Zenon
    <3>4. \A n \in Nat : 0 <= n
      OBVIOUS
    <3> QED
      BY <3>3, <3>4, Zenon
  <2>2. /\ b[2] = 0 /\ b[3] = 0 /\ b[4] = 0 /\ b[5] = 0
        /\ b[7] = 0 /\ b[8] = 0 /\ b[9] = 0 /\ b[11] = 0
        /\ b[1] <= a[1] /\ b[6] <= a[6] /\ b[10] <= a[10]
    BY <1>5
  <2> HIDE DEF a, b
  <2>3. /\ b[1] <= a[1] /\ b[2] <= a[2] /\ b[3] <= a[3] /\ b[4] <= a[4] /\ b[5] <= a[5]
        /\ b[6] <= a[6] /\ b[7] <= a[7] /\ b[8] <= a[8] /\ b[9] <= a[9]
        /\ b[10] <= a[10] /\ b[11] <= a[11]
    BY <2>1, <2>2
  <2>4. \A k \in 1 .. 11 : b[k] <= a[k]
    BY <1>6, <2>3
  <2> QED
    BY <2>4 DEF a, b
<1> QED
  BY <1>7, LighterIs, SizeIs DEF Lighter

\* It is in every result of the budget, and all of one that is too large.
LEMMA CoreFits ==
    ASSUME NEW m \in Document, Unique(m.decisions), NEW now, NEW p, NEW y,
           IsCore(y, m, now, p)
    PROVE  /\ Size(y) <= Size(Fitted(m, now, p))
           /\ Over(Fitted(m, now, p)) => Size(Fitted(m, now, p)) <= Size(y)
           /\ Size(y) \in Nat /\ Size(Fitted(m, now, p)) \in Nat
<1> DEFINE f == Fitted(m, now, p)
           z == ExpireAudits(m, now)
           h == Tidied(m, now, p)
           K == {ShortRow(q) : q \in MustStay(m, p)}
<1>1. /\ y \in Document
      /\ y.decisions = Mapped(Within(m.decisions, MustStay(m, p)), ShortRow)
      /\ y.sources = OwnSources(m, p) /\ y.audits = Within(m.audits, GuardsOf(m, now))
      /\ y.files = <<>> /\ y.blockers = <<>> /\ y.steps = <<>>
      /\ y.sessions = <<>> /\ y.cache = <<>> /\ y.health = <<>>
      /\ y.quarantined = 0 /\ y.task.text = 0
  BY DEF IsCore
<1>2. f \in Document /\ f.audits = ShedAudits(z).audits /\ f.sources = Booked(m, now, p).sources
  BY FittedLightens DEF Lightened
<1>3. z \in Document
  BY ExpireIs DEF Lightened
<1>4. Unique(y.decisions) /\ RowsOf(y) = K
  BY <1>1, CoreRows DEF RowsOf
<1>5. K \subseteq RowsOf(f) /\ K \subseteq Decision
  <2>1. K \subseteq RowsOf(f)
    BY FittedRows
  <2>2. RowsOf(f) \subseteq Decision
    <3>1. f.decisions \in Seq(Decision)
      BY <1>2, FieldsOf
    <3> QED
      BY <3>1, RangeOfSeq DEF RowsOf
  <2> QED
    BY <2>1, <2>2
<1>6. Len(Waiting(z)) = Len(y.audits) /\ Waiting(z) \in Seq(AuditRecord)
  BY <1>1, <1>3, WaitingIs, AuditsCut
<1>7. Unique(h.decisions) /\ ProtectedRows(h, p) = K /\ h \in Document
  BY TidiedRows, TidyingIs
<1> HIDE DEF f, z, h, K
<1>8. /\ Charge(y)[2] = 0 /\ Charge(y)[3] = 0 /\ Charge(y)[4] = 0 /\ Charge(y)[5] = 0
      /\ Charge(y)[7] = 0 /\ Charge(y)[8] = 0 /\ Charge(y)[9] = 0 /\ Charge(y)[11] = 0
  BY <1>1, CoreCharge
<1>9. Size(y) <= Size(f) /\ Size(y) \in Nat /\ Size(f) \in Nat
  <2>1. RowsCover(f, y)
    <3> SUFFICES ASSUME NEW q \in K PROVE q \in RowsOf(f) /\ q.text <= q.text
      BY <1>4 DEF RowsCover
    <3>1. q.text \in Nat
      BY <1>5 DEF Decision
    <3> QED
      BY <1>5, <3>1
  <2>2. Charge(y)[1] <= Charge(f)[1]
    BY <1>1, <1>2, <1>4, <2>1, RowsWeigh
  <2>3. Len(y.audits) <= Len(f.audits)
    <3>1. PICK t \in Seq(AuditRecord) : ShedAudits(z).audits = t \o Waiting(z)
      BY <1>3, AuditsEnds
    <3>2. Len(t) \in Nat /\ Len(Waiting(z)) \in Nat
          /\ Len(t \o Waiting(z)) = Len(t) + Len(Waiting(z))
      BY <1>6, <3>1, LenProperties, ConcatProperties
    <3> QED
      BY <1>2, <1>6, <3>1, <3>2
  <2>4. Len(y.sources) <= Len(f.sources)
    <3>1. PICK n \in 0 .. Len(FreeSources(m, p)) :
             Booked(m, now, p).sources = LastOf(FreeSources(m, p), n) \o OwnSources(m, p)
      BY BookedSources
    <3>2. FreeSources(m, p) \in Seq(Nat) /\ OwnSources(m, p) \in Seq(Nat) /\ n \in Nat
      BY BooksCut
    <3> DEFINE t == LastOf(FreeSources(m, p), n)
               o == OwnSources(m, p)
    <3>3. t \in Seq(Nat) /\ o \in Seq(Nat) /\ f.sources = t \o o /\ y.sources = o
      BY <1>1, <1>2, <3>1, <3>2, LastOfIs
    <3> HIDE DEF t, o
    <3>4. Len(t) \in Nat /\ Len(o) \in Nat /\ Len(t \o o) = Len(t) + Len(o)
      BY <3>3, LenProperties, ConcatProperties
    <3> QED
      BY <3>3, <3>4
  <2> QED
    BY <1>1, <1>2, <1>8, <2>2, <2>3, <2>4, LighterBy
<1>10. ASSUME Over(f) PROVE Size(f) <= Size(y)
  <2>1. /\ Bare(f, m, now, p, 6) /\ f.decisions = KeptRows(h, p)
        /\ f.blockers = <<>> /\ f.steps = <<>> /\ f.task.text = 0
    BY <1>10, FittedBare DEF f, h
  <2>2. /\ f.audits = Waiting(z) /\ f.cache = <<>> /\ f.health = <<>> /\ f.quarantined = 0
        /\ f.sessions = <<>> /\ f.sources = OwnSources(m, p) /\ f.files = <<>>
    BY <2>1 DEF Bare, z
  <2>3. /\ Charge(f)[2] = 0 /\ Charge(f)[3] = 0 /\ Charge(f)[4] = 0 /\ Charge(f)[5] = 0
        /\ Charge(f)[7] = 0 /\ Charge(f)[8] = 0 /\ Charge(f)[9] = 0 /\ Charge(f)[11] = 0
    BY <1>2, <2>1, <2>2, CoreCharge
  <2>4. h.decisions \in Seq(Decision)
    BY <1>7, FieldsOf
  <2>5. Drawn(f.decisions, h.decisions) /\ Range(f.decisions) = Range(h.decisions) \cap K
    BY <1>7, <2>1, <2>4, WithinDraws DEF KeptRows
  <2>6. Unique(f.decisions)
    BY <1>7, <2>5, DrawnUnique
  <2>7. RowsCover(y, f)
    <3> SUFFICES ASSUME NEW q \in RowsOf(f) PROVE q \in RowsOf(y) /\ q.text <= q.text
      BY DEF RowsCover
    <3>1. q \in K
      BY <2>5 DEF RowsOf
    <3>2. q.text \in Nat
      BY <1>5, <3>1 DEF Decision
    <3> QED
      BY <1>4, <3>1, <3>2
  <2>8. Charge(f)[1] <= Charge(y)[1]
    BY <1>1, <1>2, <2>6, <2>7, RowsWeigh
  <2>9. Len(f.audits) <= Len(y.audits) /\ Len(f.sources) <= Len(y.sources)
    <3>1. Len(y.audits) \in Nat /\ Len(y.sources) \in Nat
      BY <1>1, FieldsOf, LenProperties
    <3> QED
      BY <1>1, <1>6, <2>2, <3>1
  <2> QED
    BY <1>1, <1>2, <2>3, <2>8, <2>9, LighterBy
<1> QED
  BY <1>9, <1>10 DEF f
-----------------------------------------------------------------------------
(* Which stage decides about which part                                    *)

\* What stages 0 to 8 find of each part, and what becomes of it after its stage.
LEMMA TidiedParts ==
    ASSUME NEW m \in Document, NEW now, NEW p
    PROVE  /\ Tidied(m, now, p).version = m.version
           /\ Audited(m, now).cache = m.cache
           /\ Cached(m, now).health = m.health
           /\ Cached(m, now).quarantined = m.quarantined
           /\ Healthy(m, now).sessions = m.sessions /\ Healthy(m, now).sources = m.sources
           /\ Lawful(m, now, p).files = m.files /\ Recent(m, now, p).files = Filed(m, now, p).files
           /\ Recent(m, now, p).blockers = m.blockers /\ Recent(m, now, p).steps = m.steps
           /\ Recent(m, now, p).task = m.task
           /\ Tidied(m, now, p).audits = Audited(m, now).audits
           /\ Tidied(m, now, p).cache = Cached(m, now).cache
           /\ Tidied(m, now, p).health = Healthy(m, now).health
           /\ Tidied(m, now, p).quarantined = Healthy(m, now).quarantined
           /\ Tidied(m, now, p).sessions = Booked(m, now, p).sessions
           /\ Tidied(m, now, p).sources = Booked(m, now, p).sources
<1> DEFINE a == Audited(m, now)
           b == Cached(m, now)
           c == Healthy(m, now)
           d == Booked(m, now, p)
           e == Lawful(m, now, p)
           f == Filed(m, now, p)
           g == Recent(m, now, p)
           h == Tidied(m, now, p)
<1>1. /\ ButAudits(a, m) /\ ButCache(b, a) /\ ButHealth(c, b) /\ ButBooks(d, c)
      /\ ButRows(e, d) /\ ButFiles(f, e) /\ ButRows(g, f) /\ Shortened(h, g)
  BY TidyingIs
<1> HIDE DEF a, b, c, d, e, f, g, h
<1>2. /\ a.cache = m.cache /\ b.health = m.health /\ b.quarantined = m.quarantined
      /\ c.sessions = m.sessions /\ c.sources = m.sources /\ e.files = m.files
      /\ g.files = f.files /\ c.version = m.version
  BY <1>1 DEF ButAudits, ButCache, ButHealth, ButBooks, ButRows
<1>3. g.blockers = m.blockers /\ g.steps = m.steps /\ g.task = m.task /\ g.version = m.version
  BY <1>1 DEF ButAudits, ButCache, ButHealth, ButBooks, ButRows, ButFiles
<1>4. /\ g.audits = a.audits /\ g.cache = b.cache /\ g.health = c.health
      /\ g.quarantined = c.quarantined /\ g.sessions = d.sessions /\ g.sources = d.sources
  BY <1>1 DEF ButCache, ButHealth, ButBooks, ButRows, ButFiles
<1>5. /\ h.audits = g.audits /\ h.cache = g.cache /\ h.health = g.health
      /\ h.quarantined = g.quarantined /\ h.sessions = g.sessions /\ h.sources = g.sources
      /\ h.version = g.version
  BY <1>1 DEF Shortened
<1> QED
  BY <1>2, <1>3, <1>4, <1>5 DEF a, b, c, d, e, f, g, h

\* So do stages 9 and 10.
LEMMA PressedParts ==
    ASSUME NEW m \in Document, NEW now, NEW p
    PROVE  LET f == Fitted(m, now, p)
               h == Tidied(m, now, p)
               x == Fewer(m, now, p)
           IN  /\ f.version = h.version /\ f.audits = h.audits /\ f.cache = h.cache
               /\ f.health = h.health /\ f.quarantined = h.quarantined
               /\ f.sessions = h.sessions /\ f.sources = h.sources
               /\ f.decisions = x.decisions
               /\ x.files = h.files /\ Unfiled(m, now, p).blockers = h.blockers
               /\ Unblocked(m, now, p).steps = h.steps /\ Unstepped(m, now, p).task = h.task
               /\ ~Over(x) => /\ f.files = h.files /\ f.blockers = h.blockers
                              /\ f.steps = h.steps /\ f.task = h.task
               /\ Over(x) => /\ f.files = Unfiled(m, now, p).files
                             /\ f.blockers = Unblocked(m, now, p).blockers
                             /\ f.steps = Unstepped(m, now, p).steps
                             /\ f.task = ShedTask(Unstepped(m, now, p)).task
<1> DEFINE f == Fitted(m, now, p)
           h == Tidied(m, now, p)
           x == Fewer(m, now, p)
           a == Unfiled(m, now, p)
           b == Unblocked(m, now, p)
           c == Unstepped(m, now, p)
           d == ShedTask(c)
<1>1. /\ ButRows(x, h) /\ ButFiles(a, x) /\ ButBlockers(b, a) /\ ButSteps(c, b)
      /\ ButTask(d, c) /\ f = IF Over(x) THEN d ELSE x
  BY PressingIs
<1> HIDE DEF f, h, x, a, b, c, d
<1>2. /\ x.files = h.files /\ a.blockers = h.blockers /\ b.steps = h.steps /\ c.task = h.task
  BY <1>1 DEF ButRows, ButFiles, ButBlockers, ButSteps
<1>3. CASE ~Over(x)
  BY <1>1, <1>2, <1>3 DEF ButRows, f, h, x, a, b, c, d
<1>4. CASE Over(x)
  <2>1. f = d
    BY <1>1, <1>4
  <2>2. /\ d.version = h.version /\ d.audits = h.audits /\ d.cache = h.cache
        /\ d.health = h.health /\ d.quarantined = h.quarantined
        /\ d.sessions = h.sessions /\ d.sources = h.sources /\ d.decisions = x.decisions
    BY <1>1 DEF ButRows, ButFiles, ButBlockers, ButSteps, ButTask
  <2>3. d.files = a.files /\ d.blockers = b.blockers /\ d.steps = c.steps
    BY <1>1 DEF ButBlockers, ButSteps, ButTask
  <2> QED
    BY <1>2, <1>4, <2>1, <2>2, <2>3 DEF f, h, x, a, b, c, d
<1> QED
  BY <1>3, <1>4
-----------------------------------------------------------------------------
(* What fits is legal                                                      *)

\* An order of the rows is a drawing of them.
LEMMA AllRowsDrawn ==
    ASSUME NEW m \in Document, NEW p
    PROVE  Drawn(AllRows(m, p), m.decisions) /\ AllRows(m, p) \in Seq(Decision)
<1> DEFINE s == m.decisions
           S == ProtectedRows(m, p)
           T == Range(s) \ S
           k == KeptRows(m, p)
           f == FreeRows(m, p)
           u == UsefulRows(m, p)
<1>1. s \in Seq(Decision)
  BY FieldsOf
<1>2. k = Within(s, S) /\ f = Within(s, T) /\ u = BestUsed(f)
  BY DEF KeptRows, FreeRows, UsefulRows
<1>3. S \cap T = {}
  OBVIOUS
<1> HIDE DEF s, S, T, k, f, u
<1>4. /\ k \in Seq(Decision) /\ Drawn(k, s) /\ Range(k) = Range(s) \cap S
      /\ f \in Seq(Decision) /\ Drawn(f, s) /\ Range(f) = Range(s) \cap T
  BY <1>1, <1>2, WithinDraws
<1>5. u \in Seq(Decision) /\ Drawn(u, f) /\ Range(u) = Range(f)
  BY <1>2, <1>4, BestUsedSorts DEF SortedBy
<1>6. Drawn(u, s)
  BY <1>4, <1>5, DrawnTwice
<1>7. Range(k) \cap Range(u) = {}
  BY <1>3, <1>4, <1>5
<1>8. Drawn(k \o u, s)
  BY <1>1, <1>4, <1>5, <1>6, <1>7, ConcatDrawn
<1>9. k \o u \in Seq(Decision)
  BY <1>4, <1>5, ConcatProperties
<1> QED
  BY <1>8, <1>9 DEF AllRows, k, u, s

\* The rows of the result are drawn from those of stage 8.
LEMMA FittedDrawn ==
    ASSUME NEW m \in Document, NEW now, NEW p
    PROVE  /\ Fitted(m, now, p).decisions \in Seq(Decision)
           /\ Drawn(Fitted(m, now, p).decisions, Tidied(m, now, p).decisions)
<1> DEFINE h == Tidied(m, now, p)
           x == Fewer(m, now, p)
           y == Fitted(m, now, p)
           a == AllRows(h, p)
           k == KeptRows(h, p)
<1>1. y.decisions = x.decisions /\ x \in Document /\ h \in Document
  BY PressedParts, PressingIs, TidyingIs
<1>2. x = IF Over(h) THEN ShedRows(h, p) ELSE h
  BY DEF Fewer
<1> HIDE DEF h, x, y
<1>3. x.decisions \in Seq(Decision) /\ h.decisions \in Seq(Decision)
  BY <1>1, FieldsOf
<1>4. CASE ~Over(h)
  <2>1. Drawn(h.decisions, h.decisions)
    BY DrawnTwice
  <2> QED
    BY <1>1, <1>2, <1>3, <1>4, <2>1 DEF h, y
<1>5. CASE Over(h)
  <2>1. PICK n \in Len(k) .. Len(a) : x.decisions = FirstOf(a, n)
    BY <1>1, <1>2, <1>5, RowsEnds
  <2>2. a \in Seq(Decision) /\ k \in Seq(Decision) /\ Drawn(a, h.decisions)
    BY <1>1, RowsCut, AllRowsDrawn
  <2> HIDE DEF a, k
  <2>3. n \in Nat
    BY <2>1, <2>2, LenProperties
  <2>4. Drawn(FirstOf(a, n), a)
    BY <2>2, <2>3, FirstOfIs
  <2>5. Drawn(x.decisions, h.decisions)
    BY <2>1, <2>2, <2>4, DrawnTwice
  <2> QED
    BY <1>1, <1>3, <2>5 DEF h, y
<1> QED
  BY <1>4, <1>5

\* The rows of the result are legal.
LEMMA LegalRows ==
    ASSUME NEW m, NEW n, Ready(m, n), NEW now, NEW p
    PROVE  /\ Unique(Fitted(m, now, p).decisions)
           /\ \A r \in Range(Fitted(m, now, p).decisions) : LegalRow(r)
<1> DEFINE f == Fitted(m, now, p)
           h == Tidied(m, now, p)
<1>1. m \in Document /\ Unique(m.decisions) /\ \A r \in RowsOf(m) : SoundRow(r)
  BY DEF Ready
<1>2. HasRows(m)
  BY <1>1, FieldsOf
<1>3. Reduced(f, m, p)
  BY <1>2, FittedReduces
<1>4. /\ Drawn(f.decisions, h.decisions) /\ f.decisions \in Seq(Decision)
      /\ Unique(h.decisions)
      /\ RowsOf(h) = {ShortRow(r) : r \in RowsOf(Recent(m, now, p))}
  BY <1>1, FittedDrawn, TidiedRows
<1>5. RowsOf(f) \subseteq RowsOf(h)
  BY <1>1, FittedRows
<1>6. RowsOf(Recent(m, now, p)) \subseteq Decision
  <2>1. Recent(m, now, p) \in Document
    BY <1>1, TidyingIs
  <2>2. Recent(m, now, p).decisions \in Seq(Decision)
    BY <2>1, FieldsOf
  <2> QED
    BY <2>2, RangeOfSeq DEF RowsOf
<1> HIDE DEF f, h
<1>7. Unique(f.decisions)
  BY <1>4, DrawnUnique
<1>8. ASSUME NEW r \in RowsOf(f) PROVE LegalRow(r)
  <2>1. PICK q \in RowsOf(m) : IsRow(r, q)
    BY <1>3 DEF Reduced, Descends
  <2>2. SoundRow(r)
    BY <1>1, <2>1 DEF IsRow, SoundRow, NamedIn, ClaimsHuman, ClaimHolds, Has
  <2>3. PICK x \in Decision : r = ShortRow(x)
    BY <1>4, <1>5, <1>6
  <2>4. x.text \in Nat
    BY DEF Decision
  <2>5. r.text \in Nat /\ r.text <= Cap.detail /\ Cap.detail \in Nat
    BY <2>3, <2>4, ShortRowIs, ShortIs
  <2>6. r.text <= Cap.text
    BY <2>5, DocumentAssumption
  <2> QED
    BY <2>2, <2>6 DEF SoundRow, LegalRow
<1> QED
  BY <1>7, <1>8 DEF RowsOf, f

\* No more entries than a limit allows, and of the same kind.
LEMMA CutHas ==
    ASSUME NEW D, NEW s \in Seq(D), NEW n \in 0 .. Len(s)
    PROVE  /\ LastOf(s, n) \in Seq(D) /\ FirstOf(s, n) \in Seq(D)
           /\ Len(LastOf(s, n)) = n /\ Len(FirstOf(s, n)) = n
           /\ Range(LastOf(s, n)) \subseteq Range(s) /\ Range(FirstOf(s, n)) \subseteq Range(s)
           /\ n \in Nat /\ n <= Len(s) /\ Len(s) \in Nat
<1>1. Len(s) \in Nat
  BY LenProperties
<1>2. n \in Nat /\ n <= Len(s)
  BY <1>1
<1>3. /\ LastOf(s, n) \in Seq(D) /\ Len(LastOf(s, n)) = IF Len(s) > n THEN n ELSE Len(s)
      /\ Drawn(LastOf(s, n), s)
  BY <1>2, LastOfIs
<1>4. /\ FirstOf(s, n) \in Seq(D) /\ Len(FirstOf(s, n)) = IF Len(s) > n THEN n ELSE Len(s)
      /\ Drawn(FirstOf(s, n), s)
  BY <1>2, FirstOfIs
<1>5. Range(LastOf(s, n)) \subseteq Range(s) /\ Range(FirstOf(s, n)) \subseteq Range(s)
  BY <1>3, <1>4, DrawnIsLess
<1> QED
  BY <1>1, <1>2, <1>3, <1>4, <1>5

\* What a limit leaves of a list.
LEMMA LimitHas ==
    ASSUME NEW D, NEW s \in Seq(D), NEW n \in Nat
    PROVE  /\ LastOf(s, n) \in Seq(D) /\ FirstOf(s, n) \in Seq(D)
           /\ Len(LastOf(s, n)) <= n /\ Len(FirstOf(s, n)) <= n
           /\ Len(LastOf(s, n)) <= Len(s) /\ Len(FirstOf(s, n)) <= Len(s)
           /\ Len(LastOf(s, n)) \in Nat /\ Len(FirstOf(s, n)) \in Nat /\ Len(s) \in Nat
           /\ Range(LastOf(s, n)) \subseteq Range(s) /\ Range(FirstOf(s, n)) \subseteq Range(s)
<1>1. Len(s) \in Nat
  BY LenProperties
<1>2. /\ LastOf(s, n) \in Seq(D) /\ Len(LastOf(s, n)) = IF Len(s) > n THEN n ELSE Len(s)
      /\ Drawn(LastOf(s, n), s)
  BY LastOfIs
<1>3. /\ FirstOf(s, n) \in Seq(D) /\ Len(FirstOf(s, n)) = IF Len(s) > n THEN n ELSE Len(s)
      /\ Drawn(FirstOf(s, n), s)
  BY FirstOfIs
<1>4. Range(LastOf(s, n)) \subseteq Range(s) /\ Range(FirstOf(s, n)) \subseteq Range(s)
  BY <1>2, <1>3, DrawnIsLess
<1> DEFINE a == Len(LastOf(s, n))
           b == Len(FirstOf(s, n))
           c == Len(s)
<1>5. /\ c \in Nat /\ a = (IF c > n THEN n ELSE c) /\ b = (IF c > n THEN n ELSE c)
  BY <1>1, <1>2, <1>3
<1> HIDE DEF a, b, c
<1>6. a <= n /\ a <= c /\ b <= n /\ b <= c /\ a \in Nat /\ b \in Nat
  BY <1>5
<1> QED
  BY <1>1, <1>2, <1>3, <1>4, <1>6 DEF a, b, c

\* Caches, health, sessions, completions and the count of stages 2 to 4.
LEMMA LegalBooks ==
    ASSUME NEW m, NEW n, Ready(m, n), NEW now, NEW p, OwnLast(m.sources, p.sources)
    PROVE  LET f == Fitted(m, now, p) IN
           /\ \A e \in Range(f.cache) : e.kind = "current"
           /\ Len(f.cache) <= Cap.cache /\ Len(f.health) <= Cap.health
           /\ Len(f.sessions) <= Cap.sessions /\ Len(f.sources) <= Cap.sources
           /\ f.quarantined <= Cap.quarantined
<1> DEFINE f == Fitted(m, now, p)
           a == Audited(m, now)
           b == Cached(m, now)
           c == Healthy(m, now)
<1>1. /\ m \in Document
      /\ \A e \in Range(m.cache) : e.kind = "current"
      /\ Len(m.sources) <= Cap.sources /\ m.quarantined <= Cap.quarantined
  BY DEF Ready
<1>2. /\ a \in Document /\ b \in Document /\ c \in Document
  BY <1>1, TidyingIs
<1>3. /\ f.cache = ShedCache(a).cache /\ f.health = ShedHealth(b).health
      /\ f.quarantined = ShedHealth(b).quarantined
      /\ f.sessions = ShedBookkeeping(c, p).sessions
      /\ f.sources = ShedBookkeeping(c, p).sources
      /\ a.cache = m.cache /\ b.quarantined = m.quarantined /\ c.sources = m.sources
  <2>1. /\ b = ShedCache(a) /\ c = ShedHealth(b) /\ Booked(m, now, p) = ShedBookkeeping(c, p)
    BY DEF Cached, Healthy, Audited, Booked
  <2> QED
    BY <1>1, <2>1, TidiedParts, PressedParts
<1> HIDE DEF f, a, b, c
<1>4. /\ Cap.cache \in Nat /\ Cap.health \in Nat /\ Cap.sessions \in Nat /\ Cap.sources \in Nat
      /\ Cap.quarantined \in Nat
  BY DocumentAssumption
<1>5. (\A e \in Range(f.cache) : e.kind = "current") /\ Len(f.cache) <= Cap.cache
  <2>1. PICK k \in 0 .. Len(CacheLeft(a)) : f.cache = LastOf(CacheLeft(a), k)
    BY <1>2, <1>3, CacheEnds
  <2>2. m.cache \in Seq(CacheRecord) /\ CacheLeft(a) = LastOf(m.cache, Cap.cache)
    BY <1>1, <1>3, FieldsOf DEF CacheLeft
  <2> DEFINE s == CacheLeft(a)
             cap == Cap.cache
  <2>3. cap \in Nat /\ s = LastOf(m.cache, cap)
    BY <1>4, <2>2
  <2> HIDE DEF cap, s
  <2>4. s \in Seq(CacheRecord) /\ Len(s) <= cap /\ Range(s) \subseteq Range(m.cache)
    BY <2>2, <2>3, LimitHas
  <2>5. Len(f.cache) = k /\ k <= Len(s) /\ Range(f.cache) \subseteq Range(s)
        /\ k \in Nat /\ Len(s) \in Nat
    BY <2>1, <2>4, CutHas DEF s
  <2>6. Len(f.cache) <= cap
    BY <2>3, <2>4, <2>5
  <2> QED
    BY <1>1, <2>4, <2>5, <2>6 DEF cap
<1>6. Len(f.health) <= Cap.health
  <2>1. PICK k \in 0 .. Len(HealthLeft(b)) : f.health = LastOf(HealthLeft(b), k)
    BY <1>2, <1>3, HealthEnds
  <2> DEFINE s == HealthLeft(b)
             cap == Cap.health
             q == b.health
  <2>2. cap \in Nat /\ s = LastOf(q, cap) /\ q \in Seq(Nat)
    BY <1>2, <1>4, FieldsOf DEF HealthLeft
  <2> HIDE DEF cap, s, q
  <2>3. s \in Seq(Nat) /\ Len(s) <= cap
    BY <2>2, LimitHas
  <2>4. Len(f.health) = k /\ k <= Len(s) /\ k \in Nat /\ Len(s) \in Nat
    BY <2>1, <2>3, CutHas DEF s
  <2>5. Len(f.health) <= cap
    BY <2>2, <2>3, <2>4
  <2> QED
    BY <2>5 DEF cap
<1>7. Len(f.sessions) <= Cap.sessions
  <2>1. PICK k \in 0 .. Len(SessionsLeft(c)) : f.sessions = LastOf(SessionsLeft(c), k)
    <3>1. \E t \in Seq(Nat) : \E k \in 0 .. Len(SessionsLeft(c)) :
             ShedBookkeeping(c, p).sessions = LastOf(SessionsLeft(c), k)
      BY <1>2, BooksEnds
    <3> QED
      BY <1>3, <3>1
  <2> DEFINE s == SessionsLeft(c)
             cap == Cap.sessions
             q == c.sessions
  <2>2. cap \in Nat /\ s = LastOf(q, cap) /\ q \in Seq(Nat)
    BY <1>2, <1>4, FieldsOf DEF SessionsLeft
  <2> HIDE DEF cap, s, q
  <2>3. s \in Seq(Nat) /\ Len(s) <= cap
    BY <2>2, LimitHas
  <2>4. Len(f.sessions) = k /\ k <= Len(s) /\ k \in Nat /\ Len(s) \in Nat
    BY <2>1, <2>3, CutHas DEF s
  <2>5. Len(f.sessions) <= cap
    BY <2>2, <2>3, <2>4
  <2> QED
    BY <2>5 DEF cap
<1>8. Len(f.sources) <= Cap.sources
  <2>1. PICK t \in Seq(Nat) :
           ShedBookkeeping(c, p).sources = t \o OwnSources(c, p) /\ Drawn(t, FreeSources(c, p))
    BY <1>2, BooksEnds
  <2> DEFINE S == Range(m.sources) \ p.sources
             T == p.sources
             q == m.sources
  <2>2. /\ OwnSources(c, p) = Within(q, T) /\ FreeSources(c, p) = Within(q, S)
        /\ S \cap T = {} /\ q \in Seq(Nat) /\ Len(q) <= Cap.sources
    BY <1>1, <1>3, FieldsOf DEF OwnSources, FreeSources
  <2> HIDE DEF S, T, q
  <2>3. t \o Within(q, T) \in Seq(Nat) /\ Len(t \o Within(q, T)) <= Len(q)
    BY <2>1, <2>2, PartsDrawn
  <2>4. f.sources = t \o Within(q, T)
    BY <1>3, <2>1, <2>2
  <2>5. Len(f.sources) \in Nat /\ Len(q) \in Nat /\ Len(f.sources) <= Len(q)
    BY <2>2, <2>3, <2>4, LenProperties
  <2> QED
    BY <1>4, <2>2, <2>5
<1>9. f.quarantined <= Cap.quarantined
  <2>1. f.quarantined \in {0, m.quarantined}
    BY <1>2, <1>3, HealthEnds
  <2> QED
    BY <1>1, <1>4, <2>1
<1> QED
  BY <1>5, <1>6, <1>7, <1>8, <1>9 DEF f

\* A shortened file is the same but for its reason.
LEMMA ShortFileIs ==
    ASSUME NEW f \in FileRecord
    PROVE  /\ ShortFile(f) \in FileRecord
           /\ ShortFile(f).path = f.path /\ ShortFile(f).touched = f.touched
           /\ ShortFile(f).by = f.by /\ ShortFile(f).reason = Short(f.reason)
<1>1. Short(f.reason) \in Nat
  BY ShortIs DEF FileRecord
<1> QED
  BY <1>1 DEF ShortFile, FileRecord

\* The files after stage 8.
LEMMA TidiedFiles ==
    ASSUME NEW m \in Document, NEW now, NEW p
    PROVE  /\ Len(Tidied(m, now, p).files) <= Cap.files
           /\ Len(Tidied(m, now, p).files) = Len(Filed(m, now, p).files)
           /\ Range(Tidied(m, now, p).files) =
                 {ShortFile(f) : f \in Range(Filed(m, now, p).files)}
           /\ Range(Filed(m, now, p).files) \subseteq Range(m.files)
<1> DEFINE e == Lawful(m, now, p)
           f == Filed(m, now, p)
           g == Recent(m, now, p)
           h == Tidied(m, now, p)
           s == FilesLeft(e)
           cap == Cap.files
<1>1. /\ e \in Document /\ f \in Document /\ g \in Document /\ h \in Document
      /\ Shortened(h, g) /\ f = ShedFiles(e) /\ e.files = m.files /\ g.files = f.files
  BY TidyingIs, TidiedParts DEF Filed
<1>2. s = FirstOf(NewestFirst(e.files), cap) /\ cap \in Nat
  BY DocumentAssumption DEF FilesLeft
<1> HIDE DEF e, f, g, h, cap
<1>3. PICK k \in 0 .. Len(s) : f.files = FirstOf(s, k)
  BY <1>1, FilesEnds
<1>4. e.files \in Seq(FileRecord)
  BY <1>1, FieldsOf
<1>5. NewestFirst(e.files) \in Seq(FileRecord) /\ Range(NewestFirst(e.files)) = Range(e.files)
  BY <1>4, NewestFirstSorts DEF SortedBy
<1> HIDE DEF s
<1>6. s \in Seq(FileRecord) /\ Len(s) <= cap /\ Range(s) \subseteq Range(e.files)
  BY <1>2, <1>5, LimitHas
<1>7. /\ Len(f.files) = k /\ k \in Nat /\ k <= Len(s) /\ Len(s) \in Nat
      /\ Range(f.files) \subseteq Range(s)
  BY <1>3, <1>6, CutHas
<1>8. /\ DOMAIN h.files = DOMAIN f.files
      /\ \A i \in DOMAIN f.files : h.files[i] = ShortFile(f.files[i])
  BY <1>1 DEF Shortened
<1>9. Len(h.files) = Len(f.files)
  <2>1. h.files \in Seq(FileRecord) /\ f.files \in Seq(FileRecord)
    BY <1>1, FieldsOf
  <2>2. /\ Len(h.files) \in Nat /\ DOMAIN h.files = 1 .. Len(h.files)
        /\ Len(f.files) \in Nat /\ DOMAIN f.files = 1 .. Len(f.files)
    BY <2>1, LenProperties
  <2> DEFINE i == Len(h.files)
             j == Len(f.files)
  <2>3. i \in Nat /\ j \in Nat /\ 1 .. i = 1 .. j
    BY <1>8, <2>2
  <2> HIDE DEF i, j
  <2>4. i = j
    <3>1. Cardinality(1 .. i) = i /\ Cardinality(1 .. j) = j
      BY <2>3, UpTo
    <3> QED
      BY <2>3, <3>1
  <2> QED
    BY <2>4 DEF i, j
<1>10. Len(h.files) <= cap
  BY <1>2, <1>6, <1>7, <1>9
<1>11. Range(h.files) = {ShortFile(x) : x \in Range(f.files)}
  BY <1>8 DEF Range
<1>12. Range(f.files) \subseteq Range(m.files)
  BY <1>1, <1>6, <1>7
<1> QED
  BY <1>9, <1>10, <1>11, <1>12 DEF f, h, cap

\* The files after stage 10.
LEMMA FittedFiles ==
    ASSUME NEW m \in Document, NEW now, NEW p
    PROVE  /\ Fitted(m, now, p).files \in Seq(FileRecord)
           /\ Range(Fitted(m, now, p).files) \subseteq Range(Tidied(m, now, p).files)
           /\ Len(Fitted(m, now, p).files) <= Len(Tidied(m, now, p).files)
           /\ Drawn(Fitted(m, now, p).files, Tidied(m, now, p).files)
<1> DEFINE y == Fitted(m, now, p)
           h == Tidied(m, now, p)
           x == Fewer(m, now, p)
           a == Unfiled(m, now, p)
<1>1. /\ h \in Document /\ x \in Document /\ x.files = h.files /\ a = ShedOldFiles(x)
      /\ ~Over(x) => y.files = h.files
      /\ Over(x) => y.files = a.files
  BY TidyingIs, PressingIs, PressedParts DEF Unfiled
<1> HIDE DEF y, h, x, a
<1>2. h.files \in Seq(FileRecord)
  BY <1>1, FieldsOf
<1>3. y.files \in Seq(FileRecord) /\ Drawn(y.files, h.files)
  <2>1. CASE ~Over(x)
    BY <1>1, <1>2, <2>1, DrawnTwice
  <2>2. CASE Over(x)
    <3>1. PICK n \in 0 .. Len(OldFilesLeft(x)) :
             /\ a = WithOldFiles(x, LastOf(OldFilesLeft(x), n))
             /\ LastOf(OldFilesLeft(x), n) \in Seq(FileRecord)
             /\ Drawn(LastOf(OldFilesLeft(x), n), x.files)
      BY <1>1, OldFilesCut
    <3>2. a.files = LastOf(OldFilesLeft(x), n)
      BY <1>1, <3>1 DEF WithOldFiles, Document
    <3> QED
      BY <1>1, <2>2, <3>1, <3>2
  <2> QED
    BY <2>1, <2>2
<1>4. Range(y.files) \subseteq Range(h.files) /\ Len(y.files) <= Len(h.files)
  BY <1>2, <1>3, DrawnIsLess
<1> QED
  BY <1>3, <1>4 DEF y, h

\* The files of the result are legal.
LEMMA LegalFiles ==
    ASSUME NEW m, NEW n, Ready(m, n), NEW now, NEW p
    PROVE  /\ Len(Fitted(m, now, p).files) <= Cap.array
           /\ \A f \in Range(Fitted(m, now, p).files) :
                 f.by \in {"heuristic", "legacy"} /\ f.reason <= Cap.text
<1> DEFINE y == Fitted(m, now, p)
           h == Tidied(m, now, p)
           g == Filed(m, now, p)
<1>1. /\ m \in Document /\ \A f \in Range(m.files) : f.by \in {"heuristic", "legacy"}
  BY DEF Ready
<1>2. /\ Len(h.files) <= Cap.files
      /\ Range(h.files) = {ShortFile(f) : f \in Range(g.files)}
      /\ Range(g.files) \subseteq Range(m.files)
      /\ Range(y.files) \subseteq Range(h.files) /\ Len(y.files) <= Len(h.files)
  BY <1>1, TidiedFiles, FittedFiles
<1>3. y \in Document /\ h \in Document
  BY <1>1, FittedLightens, TidyingIs DEF Lightened
<1> HIDE DEF y, h, g
<1>4. Len(y.files) \in Nat /\ Len(h.files) \in Nat
  BY <1>3, FieldsOf, LenProperties
<1>5. Cap.files \in Nat /\ Cap.array \in Nat /\ Cap.files <= Cap.array
      /\ Cap.detail \in Nat /\ Cap.text \in Nat /\ Cap.detail <= Cap.text
  BY DocumentAssumption
<1>6. Len(y.files) <= Cap.array
  BY <1>2, <1>4, <1>5
<1>7. ASSUME NEW f \in Range(y.files)
      PROVE  f.by \in {"heuristic", "legacy"} /\ f.reason <= Cap.text
  <2>1. PICK x \in Range(m.files) : f = ShortFile(x)
    BY <1>2
  <2>2. x \in FileRecord
    <3>1. m.files \in Seq(FileRecord)
      BY <1>1, FieldsOf
    <3> QED
      BY <3>1, RangeOfSeq
  <2>3. f.by = x.by /\ f.reason = Short(x.reason) /\ x.reason \in Nat
    BY <2>1, <2>2, ShortFileIs DEF FileRecord
  <2>4. f.reason \in Nat /\ f.reason <= Cap.detail
    BY <2>3, ShortIs
  <2> QED
    BY <1>1, <1>5, <2>1, <2>3, <2>4
<1> QED
  BY <1>6, <1>7 DEF y

\* Short texts, and not many.
LEMMA ShortList ==
    ASSUME NEW s \in Seq(Nat)
    PROVE  LET t == Mapped(LastOf(s, Cap.entries), Short) IN
           /\ t \in Seq(Nat) /\ Len(t) <= Cap.entries
           /\ \A x \in Range(t) : x <= Cap.detail
           /\ Len(t) = Len(LastOf(s, Cap.entries))
<1> DEFINE cap == Cap.entries
           u == LastOf(s, cap)
           t == Mapped(u, Short)
<1>1. cap \in Nat
  BY DocumentAssumption
<1>2. u \in Seq(Nat) /\ t \in Seq(Nat) /\ Len(t) = Len(u)
  BY ShortTexts
<1> HIDE DEF cap
<1>3. Len(u) <= cap
  BY <1>1, LimitHas
<1> HIDE DEF u
<1>4. DOMAIN t = DOMAIN u /\ \A i \in DOMAIN u : t[i] = Short(u[i])
  BY DEF Mapped
<1>5. \A i \in DOMAIN u : u[i] \in Nat
  BY <1>2, LenProperties
<1> HIDE DEF t
<1>6. ASSUME NEW i \in DOMAIN t PROVE t[i] <= Cap.detail
  <2>1. t[i] = Short(u[i]) /\ u[i] \in Nat
    BY <1>4, <1>5
  <2> QED
    BY <2>1, ShortIs
<1>7. \A x \in Range(t) : x <= Cap.detail
  BY <1>6 DEF Range
<1> QED
  BY <1>2, <1>3, <1>7 DEF t, u, cap

\* Blockers and next steps of the result, and its task.
LEMMA BriefTexts ==
    ASSUME NEW m \in Document, NEW now, NEW p
    PROVE  LET f == Fitted(m, now, p) IN
           /\ f.blockers \in Seq(Nat) /\ Len(f.blockers) <= Cap.entries
           /\ \A i \in Range(f.blockers) : i <= Cap.detail
           /\ f.steps \in Seq(Nat) /\ Len(f.steps) <= Cap.entries
           /\ \A i \in Range(f.steps) : i <= Cap.detail
           /\ f.task.by = m.task.by /\ f.task.text \in Nat /\ f.task.text <= Cap.detail
<1> DEFINE f == Fitted(m, now, p)
           h == Tidied(m, now, p)
           g == Recent(m, now, p)
           x == Fewer(m, now, p)
           a == Unfiled(m, now, p)
           b == Unblocked(m, now, p)
           c == Unstepped(m, now, p)
<1>1. /\ h \in Document /\ g \in Document /\ Shortened(h, g)
      /\ g.blockers = m.blockers /\ g.steps = m.steps /\ g.task = m.task
  BY TidyingIs, TidiedParts
<1>2. /\ a \in Document /\ b \in Document /\ c \in Document
      /\ a.blockers = h.blockers /\ b.steps = h.steps /\ c.task = h.task
      /\ ~Over(x) => f.blockers = h.blockers /\ f.steps = h.steps /\ f.task = h.task
      /\ Over(x) => /\ f.blockers = ShedBlockers(a).blockers
                    /\ f.steps = ShedSteps(b).steps
                    /\ f.task = ShedTask(c).task
  BY PressingIs, PressedParts DEF Unblocked, Unstepped
<1> HIDE DEF f, h, g, x, a, b, c
<1>3. /\ h.blockers = Mapped(LastOf(m.blockers, Cap.entries), Short)
      /\ h.steps = Mapped(LastOf(m.steps, Cap.entries), Short)
      /\ h.task = [m.task EXCEPT !.text = Short(@)]
  BY <1>1 DEF Shortened
<1>4. m.blockers \in Seq(Nat) /\ m.steps \in Seq(Nat) /\ m.task.text \in Nat
      /\ m.task \in [text : Nat, by : Authors \cup {"none"}]
  BY FieldsOf
<1>5. Cap.entries \in Nat /\ Cap.detail \in Nat
  BY DocumentAssumption
<1>6. /\ h.blockers \in Seq(Nat) /\ Len(h.blockers) <= Cap.entries
      /\ \A i \in Range(h.blockers) : i <= Cap.detail
  BY <1>3, <1>4, ShortList
<1>7. /\ h.steps \in Seq(Nat) /\ Len(h.steps) <= Cap.entries
      /\ \A i \in Range(h.steps) : i <= Cap.detail
  BY <1>3, <1>4, ShortList
<1>8. /\ f.blockers \in Seq(Nat) /\ Len(f.blockers) <= Cap.entries
       /\ \A i \in Range(f.blockers) : i <= Cap.detail
  <2>1. CASE ~Over(x)
    BY <1>2, <1>6, <2>1
  <2>2. CASE Over(x)
    <3>1. PICK k \in 0 .. Len(BlockersLeft(a)) : f.blockers = LastOf(BlockersLeft(a), k)
      BY <1>2, <2>2, BlockersEnds
    <3>2. BlockersLeft(a) = h.blockers
      BY <1>2 DEF BlockersLeft
    <3>3. /\ f.blockers \in Seq(Nat) /\ Len(f.blockers) = k /\ k \in Nat
          /\ k <= Len(h.blockers) /\ Len(h.blockers) \in Nat
          /\ Range(f.blockers) \subseteq Range(h.blockers)
      BY <1>6, <3>1, <3>2, CutHas
    <3> QED
      BY <1>5, <1>6, <3>3
  <2> QED
    BY <2>1, <2>2
<1>9. /\ f.steps \in Seq(Nat) /\ Len(f.steps) <= Cap.entries
       /\ \A i \in Range(f.steps) : i <= Cap.detail
  <2>1. CASE ~Over(x)
    BY <1>2, <1>7, <2>1
  <2>2. CASE Over(x)
    <3>1. PICK k \in 0 .. Len(StepsLeft(b)) : f.steps = LastOf(StepsLeft(b), k)
      BY <1>2, <2>2, StepsEnds
    <3>2. StepsLeft(b) = h.steps
      BY <1>2 DEF StepsLeft
    <3>3. /\ f.steps \in Seq(Nat) /\ Len(f.steps) = k /\ k \in Nat
          /\ k <= Len(h.steps) /\ Len(h.steps) \in Nat
          /\ Range(f.steps) \subseteq Range(h.steps)
      BY <1>7, <3>1, <3>2, CutHas
    <3> QED
      BY <1>5, <1>7, <3>3
  <2> QED
    BY <2>1, <2>2
<1>10. h.task.by = m.task.by /\ h.task.text = Short(m.task.text)
  BY <1>3, <1>4
<1>11. h.task.text \in Nat /\ h.task.text <= Cap.detail
  BY <1>4, <1>10, ShortIs
<1>12. f.task.by = h.task.by /\ f.task.text \in {0, h.task.text}
  <2>1. CASE ~Over(x)
    BY <1>2, <2>1
  <2>2. CASE Over(x)
    <3>1. CASE Over(c)
      BY <1>2, <2>2, <3>1, TaskEnds
    <3>2. CASE ~Over(c)
      BY <1>2, <2>2, <3>2, TaskEnds
    <3> QED
      BY <3>1, <3>2
  <2> QED
    BY <2>1, <2>2
<1>13. f.task.text \in Nat /\ f.task.text <= Cap.detail
  BY <1>5, <1>11, <1>12
<1> QED
  BY <1>8, <1>9, <1>10, <1>12, <1>13 DEF f

\* They are within the bounds of the schema.
LEMMA LegalTexts ==
    ASSUME NEW m, NEW n, Ready(m, n), NEW now, NEW p
    PROVE  LET f == Fitted(m, now, p) IN
           /\ f.task.by \in {"none", "heuristic", "legacy"} /\ f.task.text <= Cap.text
           /\ \A t \in Range(f.blockers) \cup Range(f.steps) : t <= Cap.text
           /\ Len(f.blockers) <= Cap.array /\ Len(f.steps) <= Cap.array
<1> DEFINE f == Fitted(m, now, p)
<1>1. m \in Document /\ m.task.by \in {"none", "heuristic", "legacy"}
  BY DEF Ready
<1>2. /\ f.blockers \in Seq(Nat) /\ Len(f.blockers) <= Cap.entries
      /\ \A i \in Range(f.blockers) : i <= Cap.detail
      /\ f.steps \in Seq(Nat) /\ Len(f.steps) <= Cap.entries
      /\ \A i \in Range(f.steps) : i <= Cap.detail
      /\ f.task.by = m.task.by /\ f.task.text \in Nat /\ f.task.text <= Cap.detail
  BY <1>1, BriefTexts
<1> HIDE DEF f
<1>3. Cap.entries \in Nat /\ Cap.array \in Nat /\ Cap.entries <= Cap.array
      /\ Cap.detail \in Nat /\ Cap.text \in Nat /\ Cap.detail <= Cap.text
  BY DocumentAssumption
<1>4. ASSUME NEW t \in Seq(Nat), Len(t) <= Cap.entries, \A i \in Range(t) : i <= Cap.detail
      PROVE  Len(t) <= Cap.array /\ \A i \in Range(t) : i <= Cap.text
  <2>1. Len(t) \in Nat /\ Range(t) \subseteq Nat
    BY LenProperties, RangeOfSeq
  <2>2. Len(t) <= Cap.array
    BY <1>3, <1>4, <2>1
  <2>3. ASSUME NEW i \in Range(t) PROVE i <= Cap.text
    <3>1. i \in Nat /\ i <= Cap.detail
      BY <1>4, <2>1
    <3> QED
      BY <1>3, <3>1
  <2> QED
    BY <2>2, <2>3
<1>5. f.task.by \in {"none", "heuristic", "legacy"} /\ f.task.text <= Cap.text
  BY <1>1, <1>2, <1>3
<1>6. /\ Len(f.blockers) <= Cap.array /\ \A i \in Range(f.blockers) : i <= Cap.text
      /\ Len(f.steps) <= Cap.array /\ \A i \in Range(f.steps) : i <= Cap.text
  BY <1>2, <1>4
<1> QED
  BY <1>5, <1>6 DEF f

\* No stage adds an audit.
LEMMA AuditsBound ==
    ASSUME NEW m \in Document, NEW now, NEW p
    PROVE  /\ Len(Fitted(m, now, p).audits) <= Len(m.audits)
           /\ Len(Fitted(m, now, p).audits) \in Nat /\ Len(m.audits) \in Nat
<1> DEFINE z == ExpireAudits(m, now)
           f == Fitted(m, now, p)
           s == AuditsLeft(z)
           w == Waiting(z)
<1>1. /\ z \in Document /\ DOMAIN z.audits = DOMAIN m.audits
      /\ f.audits = ShedAudits(z).audits /\ f \in Document
  BY ExpireIs, FittedLightens DEF Lightened
<1> HIDE DEF z, f
<1>2. /\ s \in Seq(AuditRecord) /\ w \in Seq(AuditRecord)
      /\ s \o w \in Seq(AuditRecord) /\ Len(s \o w) <= Len(z.audits)
  BY <1>1, AuditsCut, AuditsFit
<1>3. PICK k \in 0 .. Len(s) : ShedAudits(z).audits = LastOf(s, k) \o w
  <2>1. PICK t \in Seq(AuditRecord) :
           /\ ShedAudits(z).audits = t \o w
           /\ \E k \in 0 .. Len(s) : t = LastOf(s, k)
    BY <1>1, AuditsEnds
  <2> QED
    BY <2>1
<1> HIDE DEF s, w
<1>4. LastOf(s, k) \in Seq(AuditRecord) /\ Len(LastOf(s, k)) <= Len(s)
  BY <1>2, <1>3, CutHas
<1> DEFINE t == LastOf(s, k)
<1>5. t \in Seq(AuditRecord) /\ Len(t) <= Len(s) /\ f.audits = t \o w
  BY <1>1, <1>3, <1>4
<1> HIDE DEF t
<1>6. /\ Len(t) \in Nat /\ Len(s) \in Nat /\ Len(w) \in Nat
      /\ Len(t \o w) = Len(t) + Len(w) /\ Len(s \o w) = Len(s) + Len(w)
  BY <1>2, <1>5, LenProperties, ConcatProperties
<1>7. /\ Len(z.audits) \in Nat /\ DOMAIN z.audits = 1 .. Len(z.audits)
      /\ Len(m.audits) \in Nat /\ DOMAIN m.audits = 1 .. Len(m.audits)
  BY <1>1, FieldsOf, LenProperties
<1> DEFINE i == Len(z.audits)
           j == Len(m.audits)
<1>8. i \in Nat /\ j \in Nat /\ 1 .. i = 1 .. j
  BY <1>1, <1>7
<1>9. Len(t \o w) <= i /\ Len(t \o w) \in Nat
  <2> DEFINE a == Len(t)
             b == Len(s)
             c == Len(w)
  <2>1. /\ a \in Nat /\ b \in Nat /\ c \in Nat /\ i \in Nat /\ a <= b
        /\ Len(t \o w) = a + c /\ b + c <= i
    BY <1>2, <1>5, <1>6, <1>7
  <2> HIDE DEF a, b, c, i
  <2> QED
    BY <2>1
<1> HIDE DEF i, j
<1>10. i = j
  <2>1. Cardinality(1 .. i) = i /\ Cardinality(1 .. j) = j
    BY <1>8, UpTo
  <2> QED
    BY <1>8, <2>1
<1>11. Len(f.audits) <= j /\ Len(f.audits) \in Nat
  BY <1>5, <1>9, <1>10
<1> QED
  BY <1>8, <1>11 DEF f, j

\* What fits has nothing that a commit would refuse, but for its audits.
LEMMA FitsIsLegal ==
    ASSUME NEW m, NEW n, Ready(m, n), NEW now, NEW p, OwnLast(m.sources, p.sources)
    PROVE  LET f == Fitted(m, now, p) IN
           /\ Legal(f) <=> Len(f.audits) <= Cap.audits
           /\ Len(f.audits) > Cap.audits => Len(Those(m.audits, IsPending)) >= Cap.audits
<1> DEFINE f == Fitted(m, now, p)
<1>1. m \in Document /\ m.version = CurrentVersion /\ RoomForAudits(m.audits)
  BY DEF Ready
<1>2. f.version = CurrentVersion
  BY <1>1, TidiedParts, PressedParts
<1>3. Unique(f.decisions) /\ \A r \in Range(f.decisions) : LegalRow(r)
  BY LegalRows
<1>4. /\ Len(f.files) <= Cap.array
      /\ \A g \in Range(f.files) : g.by \in {"heuristic", "legacy"} /\ g.reason <= Cap.text
  BY LegalFiles
<1>5. /\ f.task.by \in {"none", "heuristic", "legacy"} /\ f.task.text <= Cap.text
      /\ \A t \in Range(f.blockers) \cup Range(f.steps) : t <= Cap.text
      /\ Len(f.blockers) <= Cap.array /\ Len(f.steps) <= Cap.array
  BY LegalTexts
<1>6. /\ \A e \in Range(f.cache) : e.kind # "unproven"
      /\ Len(f.cache) <= Cap.cache /\ Len(f.health) <= Cap.health
      /\ Len(f.sessions) <= Cap.sessions /\ Len(f.sources) <= Cap.sources
      /\ f.quarantined <= Cap.quarantined
  BY LegalBooks
<1>7. Len(f.audits) <= Len(m.audits) /\ Len(f.audits) \in Nat /\ Len(m.audits) \in Nat
  BY <1>1, AuditsBound
<1> HIDE DEF f
<1>8. Legal(f) <=> Len(f.audits) <= Cap.audits
  BY <1>2, <1>3, <1>4, <1>5, <1>6 DEF Legal
<1>9. ASSUME Len(f.audits) > Cap.audits PROVE Len(Those(m.audits, IsPending)) >= Cap.audits
  <2>1. Cap.audits \in Nat
    BY DocumentAssumption
  <2>2. Len(m.audits) > Cap.audits
    BY <1>7, <1>9, <2>1
  <2> QED
    BY <1>1, <2>2 DEF RoomForAudits
<1> QED
  BY <1>8, <1>9 DEF f

\* A transaction is refused exactly when what must stay of it is too large,
\* and of what fits the commit refuses nothing but too many audits (budget.ts,
\* stages 0 to 11, and the validation before a commit).
THEOREM RefusesOnlyIrreducibleHolds == Spec => []RefusesOnlyIrreducible
<1>1. BInv => RefusesOnlyIrreducible
  <2> SUFFICES ASSUME BInv, Judged PROVE RefusesOnlyIrreducible
    BY DEF RefusesOnlyIrreducible
  <2> DEFINE c == pending.memory
             p == pending.protection
             v == pending.verdict
             f == Fitted(c, clock, p)
  <2>1. /\ Ready(c, turns) /\ c \in Document /\ clock \in Nat
        /\ OwnLast(c.sources, p.sources)
        /\ v.fits <=> ~Over(f)
        /\ v.fits => v.memory = f
    BY JudgedIs
  <2>2. Unique(c.decisions)
    BY <2>1 DEF Ready
  <2>3. PICK y : IsCore(y, c, clock, p) /\ Irreducible(c) = Size(y)
    BY <2>1, <2>2, IrreducibleIs
  <2>4. /\ Size(y) <= Size(f) /\ Size(y) \in Nat /\ Size(f) \in Nat
        /\ Over(f) => Size(f) <= Size(y)
    BY <2>1, <2>2, <2>3, CoreFits
  <2>5. MaxBytes \in Nat
    BY BudgetAssumption
  <2>6. /\ Legal(f) <=> Len(f.audits) <= Cap.audits
        /\ Len(f.audits) > Cap.audits => Len(Those(c.audits, IsPending)) >= Cap.audits
    BY <2>1, FitsIsLegal
  <2> HIDE DEF c, p, v, f
  <2>7. v.fits <=> Irreducible(c) <= MaxBytes
    <3>1. CASE Over(f)
      <4>1. ~v.fits /\ Size(f) > MaxBytes
        BY <2>1, <3>1 DEF Over
      <4>2. ~(Irreducible(c) <= MaxBytes)
        BY <2>3, <2>4, <2>5, <3>1, <4>1
      <4> QED
        BY <4>1, <4>2
    <3>2. CASE ~Over(f)
      <4>1. v.fits /\ ~(Size(f) > MaxBytes)
        BY <2>1, <3>2 DEF Over
      <4>2. Irreducible(c) <= MaxBytes
        BY <2>3, <2>4, <2>5, <4>1
      <4> QED
        BY <4>1, <4>2
    <3> QED
      BY <3>1, <3>2
  <2>8. ASSUME v.fits PROVE Committable(c, v.memory)
    <3>1. v.memory = f /\ ~Over(f)
      BY <2>1, <2>8
    <3>2. Size(f) <= MaxBytes
      BY <2>4, <2>5, <3>1 DEF Over
    <3> QED
      BY <2>6, <3>1, <3>2 DEF Committable
  <2> QED
    BY <2>7, <2>8 DEF RefusesOnlyIrreducible, c, v
<1> QED
  BY <1>1, CandidatesReady, PTL
-----------------------------------------------------------------------------
(* The order in which classes give way                                     *)

\* What of the cache and of the reported health is lost is lost for lack of
\* room (budget.ts, stages 2 and 3).
LEMMA CacheLost ==
    ASSUME NEW m, NEW n, Ready(m, n), NEW now, NEW p
    PROVE  LET f == Fitted(m, now, p) IN
           /\ f.cache # m.cache => Over(Audited(m, now))
           /\ f.health # m.health => Over(Cached(m, now))
           /\ f.quarantined # m.quarantined => Over(Cached(m, now)) /\ f.health = <<>>
<1> DEFINE f == Fitted(m, now, p)
           a == Audited(m, now)
           c == Cached(m, now)
<1>1. m \in Document /\ Len(m.cache) <= Cap.cache /\ Len(m.health) <= Cap.health
  BY DEF Ready
<1>2. /\ m.cache \in Seq(CacheRecord) /\ m.health \in Seq(Nat)
      /\ Cap.cache \in Nat /\ Cap.health \in Nat
  BY <1>1, FieldsOf, DocumentAssumption
<1>3. a \in Document /\ c \in Document
  BY <1>1, TidyingIs
<1>4. /\ a.cache = m.cache /\ c.health = m.health /\ c.quarantined = m.quarantined
      /\ Tidied(m, now, p).cache = c.cache
      /\ Tidied(m, now, p).health = Healthy(m, now).health
      /\ Tidied(m, now, p).quarantined = Healthy(m, now).quarantined
  BY <1>1, TidiedParts
<1>5. f.cache = c.cache /\ f.health = ShedHealth(c).health
      /\ f.quarantined = ShedHealth(c).quarantined
  BY <1>1, <1>4, PressedParts DEF Healthy
<1>6. c = ShedCache(a)
  BY DEF Cached
<1>7. CacheLeft(a) = m.cache
  BY <1>1, <1>2, <1>4, LastOfIs DEF CacheLeft
<1>8. HealthLeft(c) = m.health
  BY <1>1, <1>2, <1>4, LastOfIs DEF HealthLeft
<1> HIDE DEF f, a, c
<1>9. f.cache # m.cache => Over(a)
  BY <1>3, <1>5, <1>6, <1>7, CacheEnds
<1>10. f.health # m.health => Over(c)
  BY <1>3, <1>5, <1>8, HealthEnds
<1>11. f.quarantined # m.quarantined => Over(c) /\ f.health = <<>>
  BY <1>3, <1>4, <1>5, HealthEnds
<1> QED
  BY <1>9, <1>10, <1>11 DEF f, a, c

\* So are sessions and completions that nothing protects (stage 4).
LEMMA BooksLost ==
    ASSUME NEW m, NEW n, Ready(m, n), NEW now, NEW p
    PROVE  LET f == Fitted(m, now, p) IN
           /\ f.sessions # m.sessions => Over(Healthy(m, now))
           /\ Range(f.sources) \ p.sources # Range(m.sources) \ p.sources =>
                 Over(Healthy(m, now)) /\ f.sessions = <<>>
<1> DEFINE f == Fitted(m, now, p)
           h == Healthy(m, now)
<1>1. m \in Document /\ Len(m.sources) <= Cap.sources /\ Len(m.sessions) <= Cap.sessions
  BY DEF Ready
<1>2. /\ m.sources \in Seq(Nat) /\ m.sessions \in Seq(Nat) /\ Len(m.sources) \in Nat
      /\ Cap.sources \in Nat /\ Cap.sessions \in Nat
  BY <1>1, FieldsOf, DocumentAssumption, LenProperties
<1>3. h \in Document
  BY <1>1, TidyingIs
<1>4. h.sources = m.sources /\ h.sessions = m.sessions
  BY <1>1, TidiedParts
<1>5. /\ f.sources = ShedBookkeeping(h, p).sources
      /\ f.sessions = ShedBookkeeping(h, p).sessions
  BY <1>1, TidiedParts, PressedParts DEF Booked, Healthy, Cached, Audited
<1>6. SessionsLeft(h) = m.sessions
  BY <1>1, <1>2, <1>4, LastOfIs DEF SessionsLeft
<1>7. SourcesLeft(h, p) = Within(m.sources, Range(m.sources) \ p.sources)
  <2> DEFINE free == Within(m.sources, Range(m.sources) \ p.sources)
  <2>1. free \in Seq(Nat) /\ Len(free) <= Len(m.sources) /\ Len(free) \in Nat
    BY <1>2, WithinDraws, LenProperties
  <2>2. Len(free) <= Cap.sources
    BY <1>1, <1>2, <2>1
  <2>3. SourcesLeft(h, p) = LastOf(free, Cap.sources)
    BY <1>4 DEF SourcesLeft, FreeSources
  <2> HIDE DEF free
  <2>4. LastOf(free, Cap.sources) = free
    BY <1>2, <2>1, <2>2, LastOfIs
  <2> QED
    BY <2>3, <2>4 DEF free
<1>8. OwnSources(h, p) = Within(m.sources, p.sources)
  BY <1>4 DEF OwnSources
<1> HIDE DEF f, h
<1>9. PICK t \in Seq(Nat) :
         /\ f.sources = t \o OwnSources(h, p)
         /\ ~Over(h) => t = SourcesLeft(h, p) /\ f.sessions = SessionsLeft(h)
         /\ t # SourcesLeft(h, p) => f.sessions = <<>>
  BY <1>3, <1>5, BooksEnds
<1>10. f.sessions # m.sessions => Over(h)
  BY <1>6, <1>9
<1>11. ASSUME t = SourcesLeft(h, p)
       PROVE  Range(f.sources) \ p.sources = Range(m.sources) \ p.sources
  <2> DEFINE own == Within(m.sources, p.sources)
             free == Within(m.sources, Range(m.sources) \ p.sources)
  <2>1. own \in Seq(Nat) /\ Range(own) = Range(m.sources) \cap p.sources
    BY <1>2, WithinDraws
  <2>2. Range(free) = Range(m.sources) \cap (Range(m.sources) \ p.sources)
    BY <1>2, WithinDraws
  <2>3. t = free /\ f.sources = t \o own
    BY <1>7, <1>8, <1>9, <1>11
  <2> HIDE DEF own, free
  <2>4. Range(t \o own) = Range(t) \cup Range(own)
    BY <2>1, RangeConcatenation
  <2> QED
    BY <2>1, <2>2, <2>3, <2>4
<1> QED
  BY <1>9, <1>10, <1>11 DEF f, h

\* Of the files the cap lets through one is lost only when completions are
\* (stages 6 and 10).
LEMMA FilesLost ==
    ASSUME NEW m \in Document, NEW now, NEW p
    PROVE  Len(FirstOf(Fitted(m, now, p).files, Cap.files)) # Len(FirstOf(m.files, Cap.files))
              => Over(Booked(m, now, p))
<1> DEFINE f == Fitted(m, now, p)
           l == Lawful(m, now, p)
           t == Tidied(m, now, p)
<1>1. SUFFICES ASSUME ~Over(Booked(m, now, p))
               PROVE  Len(FirstOf(f.files, Cap.files)) = Len(FirstOf(m.files, Cap.files))
  OBVIOUS
<1>2. ~Over(l) /\ ~Over(Fewer(m, now, p))
  BY <1>1, OverAll
<1>3. l \in Document /\ l.files = m.files /\ m.files \in Seq(FileRecord) /\ Cap.files \in Nat
  <2>1. l \in Document
    BY TidyingIs
  <2>2. l.files = m.files
    BY TidiedParts
  <2>3. m.files \in Seq(FileRecord) /\ Cap.files \in Nat
    BY FieldsOf, DocumentAssumption
  <2> QED
    BY <2>1, <2>2, <2>3
<1>4. f.files = t.files /\ f.files \in Seq(FileRecord)
  BY <1>2, PressedParts, FittedFiles
<1>5. Len(t.files) <= Cap.files /\ Len(t.files) = Len(ShedFiles(l).files)
  BY TidiedFiles DEF Filed
<1>6. ShedFiles(l).files = FirstOf(NewestFirst(m.files), Cap.files)
  BY <1>2, <1>3, FilesEnds DEF FilesLeft
<1> HIDE DEF f, l, t
<1>7. /\ NewestFirst(m.files) \in Seq(FileRecord)
      /\ Len(NewestFirst(m.files)) = Len(m.files)
  BY <1>3, NewestFirstSorts DEF SortedBy
<1>8. Len(FirstOf(NewestFirst(m.files), Cap.files)) = Len(FirstOf(m.files, Cap.files))
  <2>1. Len(FirstOf(m.files, Cap.files)) = IF Len(m.files) > Cap.files THEN Cap.files
                                           ELSE Len(m.files)
    BY <1>3, FirstOfIs
  <2>2. Len(FirstOf(NewestFirst(m.files), Cap.files)) =
           IF Len(NewestFirst(m.files)) > Cap.files THEN Cap.files
           ELSE Len(NewestFirst(m.files))
    BY <1>3, <1>7, FirstOfIs
  <2> QED
    BY <1>7, <2>1, <2>2
<1>9. FirstOf(f.files, Cap.files) = f.files
  BY <1>3, <1>4, <1>5, FirstOfIs
<1> QED
  BY <1>4, <1>5, <1>6, <1>8, <1>9

\* The length of a list of texts after stage 8, and that a second cut leaves it.
LEMMA ShortListCount ==
    ASSUME NEW s \in Seq(Nat)
    PROVE  LET t == Mapped(LastOf(s, Cap.entries), Short)
           IN  Len(LastOf(t, Cap.entries)) = Len(LastOf(s, Cap.entries))
<1> DEFINE t == Mapped(LastOf(s, Cap.entries), Short)
<1>1. /\ t \in Seq(Nat) /\ Len(t) <= Cap.entries
      /\ Len(t) = Len(LastOf(s, Cap.entries)) /\ Cap.entries \in Nat
  BY ShortList, DocumentAssumption
<1> HIDE DEF t
<1>2. LastOf(t, Cap.entries) = t
  BY <1>1, LastOfIs
<1> QED
  BY <1>1, <1>2 DEF t

\* The texts are lost only when what is shed before them is (stage 10).
LEMMA TextsLost ==
    ASSUME NEW m \in Document, NEW now, NEW p
    PROVE  LET f == Fitted(m, now, p) IN
           /\ Len(LastOf(f.blockers, Cap.entries)) # Len(LastOf(m.blockers, Cap.entries))
                 => Over(Unfiled(m, now, p))
           /\ Len(LastOf(f.steps, Cap.entries)) # Len(LastOf(m.steps, Cap.entries))
                 => Over(Unblocked(m, now, p))
           /\ Cap.detail > 0 /\ m.task.text # 0 /\ f.task.text = 0
                 => Over(Unstepped(m, now, p))
<1> DEFINE f == Fitted(m, now, p)
           t == Tidied(m, now, p)
           x == Fewer(m, now, p)
           u == Unfiled(m, now, p)
           b == Unblocked(m, now, p)
           s == Unstepped(m, now, p)
<1>1. /\ u \in Document /\ b \in Document /\ s \in Document
  BY PressingIs
<1>2. /\ u.blockers = t.blockers /\ b.steps = t.steps /\ s.task = t.task
      /\ ~Over(x) => f.blockers = t.blockers /\ f.steps = t.steps /\ f.task = t.task
      /\ Over(x) => /\ f.blockers = b.blockers /\ f.steps = s.steps
                    /\ f.task = ShedTask(s).task
  BY PressedParts
<1>3. /\ Over(b) => Over(u)
      /\ Over(s) => Over(b)
  BY OverAll
<1>4. /\ m.blockers \in Seq(Nat) /\ m.steps \in Seq(Nat) /\ m.task.text \in Nat
  BY FieldsOf
<1>5. /\ t.blockers = Mapped(LastOf(m.blockers, Cap.entries), Short)
      /\ t.steps = Mapped(LastOf(m.steps, Cap.entries), Short)
      /\ t.task = [m.task EXCEPT !.text = Short(@)]
  <2>1. /\ Recent(m, now, p).blockers = m.blockers /\ Recent(m, now, p).steps = m.steps
        /\ Recent(m, now, p).task = m.task
    BY TidiedParts
  <2>2. Shortened(t, Recent(m, now, p))
    BY TidyingIs
  <2> QED
    BY <2>1, <2>2 DEF Shortened
<1>6. b = ShedBlockers(u) /\ s = ShedSteps(b)
  BY DEF Unblocked, Unstepped
<1> HIDE DEF f, t, x, u, b, s
<1>7. ~Over(u) => f.blockers = t.blockers
  BY <1>1, <1>2, <1>6, BlockersEnds DEF BlockersLeft
<1>8. ~Over(b) => f.steps = t.steps
  BY <1>1, <1>2, <1>6, StepsEnds DEF StepsLeft
<1>9. ~Over(s) => f.task = t.task
  BY <1>1, <1>2, TaskEnds
<1>10. ASSUME Cap.detail > 0, m.task.text # 0 PROVE t.task.text # 0
  <2>1. t.task.text = Short(m.task.text)
    <3>1. m.task = [text |-> m.task.text, by |-> m.task.by]
      BY FieldsOf
    <3> QED
      BY <1>5, <3>1
  <2>2. Cap.detail \in Nat
    BY DocumentAssumption
  <2> QED
    BY <1>4, <1>10, <2>1, <2>2 DEF Short, Truncated
<1>11. Len(LastOf(t.blockers, Cap.entries)) = Len(LastOf(m.blockers, Cap.entries))
  BY <1>4, <1>5, ShortListCount
<1>12. Len(LastOf(t.steps, Cap.entries)) = Len(LastOf(m.steps, Cap.entries))
  BY <1>4, <1>5, ShortListCount
<1> QED
  BY <1>7, <1>8, <1>9, <1>10, <1>11, <1>12 DEF f, u, b, s

\* The list is the beginning of another one.
IsBeginning(u, s) == \E c \in 0 .. Len(s) : u = FirstOf(s, c)

\* The first entries of the first entries.
LEMMA FirstOfTwice ==
    ASSUME NEW D, NEW s \in Seq(D), NEW a \in Nat, NEW b \in Nat
    PROVE  IsBeginning(FirstOf(FirstOf(s, a), b), s)
<1> DEFINE t == FirstOf(s, a)
           u == FirstOf(t, b)
           v == FirstOf(s, Len(u))
<1>1. /\ t \in Seq(D) /\ Len(t) = IF Len(s) > a THEN a ELSE Len(s)
      /\ \A i \in 1 .. Len(t) : t[i] = s[i]
  BY FirstOfIs
<1> HIDE DEF t
<1>2. /\ u \in Seq(D) /\ Len(u) = IF Len(t) > b THEN b ELSE Len(t)
      /\ \A i \in 1 .. Len(u) : u[i] = t[i]
  BY <1>1, FirstOfIs
<1>3. Len(s) \in Nat /\ Len(t) \in Nat /\ Len(u) \in Nat
  BY <1>1, <1>2, LenProperties
<1>4. Len(u) \in 0 .. Len(s) /\ Len(u) <= Len(t)
  BY <1>1, <1>2, <1>3
<1> HIDE DEF u
<1>5. /\ v \in Seq(D) /\ Len(v) = IF Len(s) > Len(u) THEN Len(u) ELSE Len(s)
      /\ \A i \in 1 .. Len(v) : v[i] = s[i]
  BY <1>3, FirstOfIs
<1>6. Len(v) = Len(u)
  BY <1>3, <1>4, <1>5
<1>7. \A i \in 1 .. Len(u) : u[i] = v[i]
  BY <1>1, <1>2, <1>3, <1>4, <1>5, <1>6
<1> HIDE DEF v
<1>8. u = v
  BY <1>2, <1>5, <1>6, <1>7, SeqEqual
<1> QED
  BY <1>4, <1>8 DEF u, v, t, IsBeginning

\* What the first entries lack comes after all of them.
LEMMA FirstOfLacks ==
    ASSUME NEW D, NEW s \in Seq(D), NEW n \in Nat, NEW x \in Range(s),
           x \notin Range(FirstOf(s, n)), NEW y \in Range(FirstOf(s, n))
    PROVE  \E a, b \in 1 .. Len(s) : s[a] = x /\ s[b] = y /\ b < a
<1> DEFINE t == FirstOf(s, n)
<1>1. /\ t \in Seq(D) /\ Len(t) = IF Len(s) > n THEN n ELSE Len(s)
      /\ \A i \in 1 .. Len(t) : t[i] = s[i]
  BY FirstOfIs
<1> HIDE DEF t
<1>2. Len(s) \in Nat /\ Len(t) \in Nat /\ DOMAIN s = 1 .. Len(s) /\ DOMAIN t = 1 .. Len(t)
  BY <1>1, LenProperties
<1>3. PICK a \in 1 .. Len(s) : s[a] = x
  BY <1>2 DEF Range
<1>4. PICK b \in 1 .. Len(t) : t[b] = y
  BY <1>2 DEF Range, t
<1>5. ~(a <= Len(t))
  <2> SUFFICES ASSUME a <= Len(t) PROVE FALSE
    OBVIOUS
  <2>1. a \in 1 .. Len(t)
    BY <1>2
  <2>2. t[a] = x
    BY <1>1, <1>3, <2>1
  <2>3. x \in Range(t)
    BY <1>2, <2>1, <2>2 DEF Range
  <2> QED
    BY <2>3 DEF t
<1>6. b \in 1 .. Len(s) /\ b < a /\ s[b] = y
  BY <1>1, <1>2, <1>4, <1>5
<1> QED
  BY <1>3, <1>6

\* What the last entries lack comes before all of them.
LEMMA LastOfLacks ==
    ASSUME NEW D, NEW s \in Seq(D), NEW n \in Nat, NEW x \in Range(s),
           x \notin Range(LastOf(s, n)), NEW y \in Range(LastOf(s, n))
    PROVE  \E a, b \in 1 .. Len(s) : s[a] = x /\ s[b] = y /\ a < b
<1> DEFINE t == LastOf(s, n)
           d == Len(s) - Len(t)
<1>1. /\ t \in Seq(D) /\ Len(t) = IF Len(s) > n THEN n ELSE Len(s)
      /\ \A i \in 1 .. Len(t) : t[i] = s[Len(s) - Len(t) + i]
  BY LastOfIs
<1> HIDE DEF t
<1>2. Len(s) \in Nat /\ Len(t) \in Nat /\ DOMAIN s = 1 .. Len(s) /\ DOMAIN t = 1 .. Len(t)
  BY <1>1, LenProperties
<1>3. PICK a \in 1 .. Len(s) : s[a] = x
  BY <1>2 DEF Range
<1>4. PICK i \in 1 .. Len(t) : t[i] = y
  BY <1>2 DEF Range, t
<1>5. d \in Nat /\ Len(s) = d + Len(t)
  BY <1>1, <1>2
<1>6. \A k \in 1 .. Len(t) : t[k] = s[d + k]
  BY <1>1
<1> HIDE DEF d
<1>7. ~(a > d)
  <2> SUFFICES ASSUME a > d PROVE FALSE
    OBVIOUS
  <2>1. a - d \in 1 .. Len(t) /\ d + (a - d) = a
    BY <1>2, <1>5
  <2>2. t[a - d] = x
    BY <1>3, <1>6, <2>1
  <2>3. x \in Range(t)
    BY <1>2, <2>1, <2>2 DEF Range
  <2> QED
    BY <2>3 DEF t
<1>8. d + i \in 1 .. Len(s) /\ a < d + i /\ s[d + i] = y
  BY <1>2, <1>4, <1>5, <1>6, <1>7
<1> QED
  BY <1>3, <1>8

\* Each entry of t comes from a place of s from which L does not put a later
\* one first.
Ordered(t, s, L) ==
    \A a, b \in 1 .. Len(t) : a < b =>
        \E p \in (DOMAIN s) \X (DOMAIN s) :
            t[a] = s[p[1]] /\ t[b] = s[p[2]] /\ (p \in L \/ <<p[2], p[1]>> \notin L)

\* Of two entries of a sorted list the later one is not less.
LEMMA SortedOrder ==
    ASSUME NEW D, NEW s \in Seq(D), NEW t, NEW L, SortedBy(t, s, L)
    PROVE  Ordered(t, s, L)
<1> SUFFICES ASSUME NEW a \in 1 .. Len(t), NEW b \in 1 .. Len(t), a < b
             PROVE  \E p \in (DOMAIN s) \X (DOMAIN s) :
                        /\ t[a] = s[p[1]] /\ t[b] = s[p[2]]
                        /\ (p \in L \/ <<p[2], p[1]>> \notin L)
  BY DEF Ordered
<1>1. PICK g : Arranges(g, t, s, Stable(L, DOMAIN s))
  BY DEF SortedBy
<1>2. Len(t) = Len(s) /\ DOMAIN s = 1 .. Len(s)
  BY LenProperties DEF SortedBy
<1>3. /\ g[a] \in DOMAIN s /\ g[b] \in DOMAIN s /\ t[a] = s[g[a]] /\ t[b] = s[g[b]]
      /\ <<g[a], g[b]>> \in Stable(L, DOMAIN s)
  BY <1>1, <1>2 DEF Arranges
<1>4. <<g[a], g[b]>> \in L \/ <<g[b], g[a]>> \notin L
  BY <1>3 DEF Stable
<1>5. <<g[a], g[b]>> \in (DOMAIN s) \X (DOMAIN s)
  BY <1>3
<1> QED
  BY <1>3, <1>4, <1>5

\* Of two files in stage 6 the first was touched no earlier.
LEMMA NewestOrder ==
    ASSUME NEW s \in Seq(FileRecord), NEW t, t = NewestFirst(s)
    PROVE  \A a, b \in 1 .. Len(t) : a < b => t[b].touched <= t[a].touched
<1> DEFINE L == LaterPlaces(s)
<1>1. SortedBy(t, s, L)
  BY NewestFirstSorts
<1>2. \A i \in DOMAIN s : s[i] \in FileRecord
  BY ElementOfSeq, LenProperties
<1>3. \A i \in DOMAIN s : s[i].touched \in Nat
  BY <1>2 DEF FileRecord
<1>4. \A i, j \in DOMAIN s : <<i, j>> \in L <=> s[i].touched > s[j].touched
  BY DEF LaterPlaces
<1> HIDE DEF L
<1>5. Ordered(t, s, L)
  BY <1>1, SortedOrder
<1> SUFFICES ASSUME NEW a \in 1 .. Len(t), NEW b \in 1 .. Len(t), a < b
             PROVE  t[b].touched <= t[a].touched
  OBVIOUS
<1>6. PICK p \in (DOMAIN s) \X (DOMAIN s) :
         t[a] = s[p[1]] /\ t[b] = s[p[2]] /\ (p \in L \/ <<p[2], p[1]>> \notin L)
  BY <1>5 DEF Ordered
<1> DEFINE i == p[1]
           j == p[2]
<1>7. i \in DOMAIN s /\ j \in DOMAIN s /\ p = <<i, j>>
  BY <1>6
<1>8. t[a] = s[i] /\ t[b] = s[j] /\ (<<i, j>> \in L \/ <<j, i>> \notin L)
  BY <1>6, <1>7
<1> HIDE DEF i, j
<1>9. s[j].touched <= s[i].touched
  BY <1>3, <1>4, <1>7, <1>8
<1> QED
  BY <1>8, <1>9

\* Of two files in stage 10 the first was touched no later.
LEMMA OldestOrder ==
    ASSUME NEW s \in Seq(FileRecord), NEW t, t = OldestFirst(s)
    PROVE  \A a, b \in 1 .. Len(t) : a < b => t[a].touched <= t[b].touched
<1> DEFINE L == EarlierPlaces(s)
<1>1. SortedBy(t, s, L)
  BY OldestFirstSorts
<1>2. \A i \in DOMAIN s : s[i] \in FileRecord
  BY ElementOfSeq, LenProperties
<1>3. \A i \in DOMAIN s : s[i].touched \in Nat
  BY <1>2 DEF FileRecord
<1>4. \A i, j \in DOMAIN s : <<i, j>> \in L <=> s[i].touched < s[j].touched
  BY DEF EarlierPlaces
<1> HIDE DEF L
<1>5. Ordered(t, s, L)
  BY <1>1, SortedOrder
<1> SUFFICES ASSUME NEW a \in 1 .. Len(t), NEW b \in 1 .. Len(t), a < b
             PROVE  t[a].touched <= t[b].touched
  OBVIOUS
<1>6. PICK p \in (DOMAIN s) \X (DOMAIN s) :
         t[a] = s[p[1]] /\ t[b] = s[p[2]] /\ (p \in L \/ <<p[2], p[1]>> \notin L)
  BY <1>5 DEF Ordered
<1> DEFINE i == p[1]
           j == p[2]
<1>7. i \in DOMAIN s /\ j \in DOMAIN s /\ p = <<i, j>>
  BY <1>6
<1>8. t[a] = s[i] /\ t[b] = s[j] /\ (<<i, j>> \in L \/ <<j, i>> \notin L)
  BY <1>6, <1>7
<1> HIDE DEF i, j
<1>9. s[i].touched <= s[j].touched
  BY <1>3, <1>4, <1>7, <1>8
<1> QED
  BY <1>8, <1>9

\* Of two rows in stage 9 the second is not the more useful.
LEMMA UsedOrder ==
    ASSUME NEW s \in Seq(Decision), NEW t, t = BestUsed(s)
    PROVE  \A a, b \in 1 .. Len(t) : a < b => ~MoreUsed(t[b], t[a])
<1> DEFINE L == UsedPlaces(s)
<1>1. SortedBy(t, s, L)
  BY BestUsedSorts
<1>2. \A i \in DOMAIN s : s[i] \in Decision
  BY ElementOfSeq, LenProperties
<1>3. \A i \in DOMAIN s : s[i].used \in Nat /\ s[i].stamp \in Nat
  BY <1>2 DEF Decision
<1>4. \A i, j \in DOMAIN s : <<i, j>> \in L <=> MoreUsed(s[i], s[j])
  BY DEF UsedPlaces
<1> HIDE DEF L
<1>5. Ordered(t, s, L)
  BY <1>1, SortedOrder
<1> SUFFICES ASSUME NEW a \in 1 .. Len(t), NEW b \in 1 .. Len(t), a < b
             PROVE  ~MoreUsed(t[b], t[a])
  OBVIOUS
<1>6. PICK p \in (DOMAIN s) \X (DOMAIN s) :
         t[a] = s[p[1]] /\ t[b] = s[p[2]] /\ (p \in L \/ <<p[2], p[1]>> \notin L)
  BY <1>5 DEF Ordered
<1> DEFINE i == p[1]
           j == p[2]
<1>7. i \in DOMAIN s /\ j \in DOMAIN s /\ p = <<i, j>>
  BY <1>6
<1>8. t[a] = s[i] /\ t[b] = s[j] /\ (<<i, j>> \in L \/ <<j, i>> \notin L)
  BY <1>6, <1>7
<1> HIDE DEF i, j
<1>9. ~MoreUsed(s[j], s[i])
  BY <1>3, <1>4, <1>7, <1>8 DEF MoreUsed
<1> QED
  BY <1>8, <1>9

\* A file that stage 6 leaves out was touched no later than one that it keeps.
LEMMA FiledInOrder ==
    ASSUME NEW m \in Document, NEW now, NEW p, NEW f \in Range(m.files),
           f \notin Range(Filed(m, now, p).files), NEW g \in Range(Filed(m, now, p).files)
    PROVE  f.touched <= g.touched
<1> DEFINE l == Lawful(m, now, p)
           s == NewestFirst(m.files)
           u == Filed(m, now, p).files
<1>1. m.files \in Seq(FileRecord) /\ Cap.files \in Nat
  BY FieldsOf, DocumentAssumption
<1>2. l \in Document
  BY TidyingIs
<1>3. l.files = m.files
  BY TidiedParts
<1>4. PICK k \in 0 .. Len(FilesLeft(l)) : u = FirstOf(FilesLeft(l), k)
  BY <1>2, FilesEnds DEF Filed
<1>5. FilesLeft(l) = FirstOf(s, Cap.files)
  BY <1>3 DEF FilesLeft
<1>6. s \in Seq(FileRecord) /\ Range(s) = Range(m.files)
  BY <1>1, NewestFirstSorts DEF SortedBy
<1> HIDE DEF l, s, u
<1>7. k \in Nat
  BY <1>2, <1>4, FilesCut, LenProperties
<1>8. PICK c \in 0 .. Len(s) : u = FirstOf(s, c)
  <2> DEFINE n == Cap.files
  <2>1. n \in Nat
    BY <1>1
  <2> HIDE DEF n
  <2>2. IsBeginning(FirstOf(FirstOf(s, n), k), s)
    BY <1>6, <1>7, <2>1, FirstOfTwice
  <2>3. u = FirstOf(FirstOf(s, n), k)
    BY <1>4, <1>5 DEF n
  <2> QED
    BY <2>2, <2>3 DEF IsBeginning
<1>9. c \in Nat /\ f \in Range(s) /\ f \notin Range(FirstOf(s, c))
      /\ g \in Range(FirstOf(s, c))
  BY <1>6, <1>8, LenProperties DEF u
<1>10. PICK a \in 1 .. Len(s), b \in 1 .. Len(s) : s[a] = f /\ s[b] = g /\ b < a
  BY <1>6, <1>9, FirstOfLacks
<1>11. s[a].touched <= s[b].touched
  BY <1>1, <1>10, NewestOrder DEF s
<1> QED
  BY <1>10, <1>11

\* One that stage 10 leaves out was touched no later than one that it keeps.
LEMMA UnfiledInOrder ==
    ASSUME NEW m \in Document, NEW now, NEW p, NEW f \in Range(Tidied(m, now, p).files),
           f \notin Range(Fitted(m, now, p).files), NEW g \in Range(Fitted(m, now, p).files)
    PROVE  f.touched <= g.touched
<1> DEFINE x == Fewer(m, now, p)
           s == OldestFirst(x.files)
           u == Fitted(m, now, p).files
<1>1. x \in Document
  BY PressingIs
<1>2. x.files = Tidied(m, now, p).files
  BY PressedParts
<1>3. Over(x) /\ u = ShedOldFiles(x).files
  BY PressedParts DEF Unfiled
<1>4. x.files \in Seq(FileRecord)
  BY <1>1, FieldsOf
<1>5. OldFilesLeft(x) = s
  BY DEF OldFilesLeft
<1> HIDE DEF x, s, u
<1>6. PICK c \in 0 .. Len(s) : u = LastOf(s, c)
  BY <1>1, <1>3, <1>5, OldFilesEnds
<1>7. s \in Seq(FileRecord) /\ Range(s) = Range(x.files)
  BY <1>4, OldestFirstSorts DEF SortedBy, s
<1>8. c \in Nat /\ f \in Range(s) /\ f \notin Range(LastOf(s, c))
      /\ g \in Range(LastOf(s, c))
  BY <1>2, <1>6, <1>7, LenProperties DEF u
<1>9. PICK a \in 1 .. Len(s), b \in 1 .. Len(s) : s[a] = f /\ s[b] = g /\ a < b
  BY <1>7, <1>8, LastOfLacks
<1>10. s[a].touched <= s[b].touched
  BY <1>4, <1>9, OldestOrder DEF s
<1> QED
  BY <1>9, <1>10

\* What is left of the files is what was touched last.
LEMMA FilesGoInOrder ==
    ASSUME NEW m \in Document, NEW now, NEW p, NEW f \in Range(m.files),
           NEW g \in Range(Fitted(m, now, p).files),
           f.path \notin {h.path : h \in Range(Fitted(m, now, p).files)}
    PROVE  f.touched <= g.touched
<1> DEFINE u == Filed(m, now, p).files
           t == Tidied(m, now, p).files
           r == Fitted(m, now, p).files
<1>1. /\ Range(t) = {ShortFile(h) : h \in Range(u)} /\ Range(u) \subseteq Range(m.files)
  <2>1. m \in Document
    OBVIOUS
  <2> QED
    BY ONLY <2>1, TidiedFiles
<1>2. Range(r) \subseteq Range(t)
  BY FittedFiles
<1>3. m.files \in Seq(FileRecord)
  BY FieldsOf
<1>4. \A h \in Range(m.files) : h \in FileRecord
  BY <1>3, RangeOfSeq
<1>5. PICK h \in Range(u) : g = ShortFile(h)
  BY <1>1, <1>2
<1>6. g.touched = h.touched
  BY <1>1, <1>4, <1>5, ShortFileIs
<1>7. CASE f \notin Range(u)
  BY <1>5, <1>6, <1>7, FiledInOrder
<1>8. CASE f \in Range(u)
  <2>1. ShortFile(f) \in Range(t)
    BY <1>1, <1>8
  <2>2. ShortFile(f).path = f.path /\ ShortFile(f).touched = f.touched
    BY <1>4, ShortFileIs
  <2>3. ShortFile(f) \notin Range(r)
    BY <2>2
  <2>4. ShortFile(f).touched <= g.touched
    BY <2>1, <2>3, UnfiledInOrder
  <2> QED
    BY <2>2, <2>4
<1> QED
  BY <1>7, <1>8

\* The current rows come through the stages that run whatever the size.
LEMMA CurrentShortened ==
    ASSUME NEW m \in Document, Unique(m.decisions), clock \in Nat, NEW x \in Current(m)
    PROVE  /\ x \in RowsOf(m) /\ x \in Decision
           /\ ShortRow(x) \in Current(Tidied(m, clock, pending.protection))
           /\ ShortRow(x).id = x.id
           /\ ShortRow(x).used = x.used /\ ShortRow(x).stamp = x.stamp
<1> DEFINE p == pending.protection
           t == Tidied(m, clock, p)
           q == ShortRow(x)
<1>1. /\ x \in RowsOf(m) /\ Has(x, "still_valid") /\ x.stamp # NoTime
      /\ clock - x.stamp <= Horizon /\ x \notin Kept(m)
  BY DEF Current
<1>2. m.decisions \in Seq(Decision)
  BY FieldsOf
<1>3. x \in Decision
  BY <1>1, <1>2, RangeOfSeq DEF RowsOf
<1>4. x.stamp \in Nat
  BY <1>3 DEF Decision
<1>5. clock <= x.stamp + Horizon
  BY <1>1, <1>4, BudgetAssumption
<1>6. PICK y \in RowsOf(t) : y.id = x.id
  BY <1>1, <1>5, CurrentStays
<1>7. RowsOf(t) = {ShortRow(r) : r \in RowsOf(Recent(m, clock, p))}
  BY TidiedRows
<1>8. PICK r \in RowsOf(Recent(m, clock, p)) : y = ShortRow(r)
  BY <1>6, <1>7
<1>9. r \in RowsOf(m)
  <2>1. Drawn(Recent(m, clock, p).decisions, m.decisions)
    BY RecentRows
  <2>2. Recent(m, clock, p).decisions \in Seq(Decision)
    BY TidyingIs, FieldsOf
  <2>3. Range(Recent(m, clock, p).decisions) \subseteq Range(m.decisions)
    BY <1>2, <2>1, <2>2, DrawnIsLess
  <2> QED
    BY <2>3 DEF RowsOf
<1>10. r \in Decision
  BY <1>2, <1>9, RangeOfSeq DEF RowsOf
<1>11. r.id = x.id
  BY <1>6, <1>8, <1>10, ShortRowIs
<1>12. r = x
  BY <1>1, <1>9, <1>11, UniqueRow DEF RowsOf
<1>13. /\ q.id = x.id /\ q.flags = x.flags /\ q.used = x.used /\ q.stamp = x.stamp
  BY <1>3, ShortRowIs
<1>14. q \in RowsOf(t)
  BY <1>6, <1>8, <1>12
<1> HIDE DEF q, t
<1>15. q \notin Kept(t)
  BY <1>1, <1>13 DEF Kept
<1>16. q \in Current(t)
  BY <1>1, <1>13, <1>14, <1>15 DEF Current, Has
<1> QED
  BY <1>1, <1>3, <1>13, <1>16 DEF q, t

\* Unless the document is still too large then, no current row is lost.
LEMMA CurrentLost ==
    ASSUME NEW m \in Document, Unique(m.decisions), clock \in Nat
    PROVE  Cardinality(Current(Fitted(m, clock, pending.protection)))
              < Cardinality(Current(m)) => Over(Tidied(m, clock, pending.protection))
<1> DEFINE p == pending.protection
           t == Tidied(m, clock, p)
           f == Fitted(m, clock, p)
           h == [x \in Current(m) |-> ShortRow(x)]
<1>1. SUFFICES ASSUME ~Over(t) PROVE ~(Cardinality(Current(f)) < Cardinality(Current(m)))
  OBVIOUS
<1>2. Fewer(m, clock, p) = t
  BY <1>1 DEF Fewer
<1>3. f = t
  BY <1>1, <1>2, PressingIs
<1>4. t \in Document
  BY TidyingIs
<1>5. \A x \in Current(m) : /\ h[x] \in Current(t) /\ h[x].id = x.id /\ x \in RowsOf(m)
  BY CurrentShortened
<1>6. h \in [Current(m) -> Current(t)]
  BY <1>5
<1> HIDE DEF h, t, f
<1>7. \A x, y \in Current(m) : h[x] = h[y] => x = y
  <2> SUFFICES ASSUME NEW x \in Current(m), NEW y \in Current(m), h[x] = h[y] PROVE x = y
    OBVIOUS
  <2>1. x.id = y.id /\ x \in Range(m.decisions) /\ y \in Range(m.decisions)
    BY <1>5 DEF RowsOf
  <2> QED
    BY <2>1, UniqueRow
<1>8. h \in Injection(Current(m), Current(t))
  BY <1>6, <1>7, Fun_IsInj
<1>9. IsFiniteSet(Current(t))
  <2>1. t.decisions \in Seq(Decision)
    BY <1>4, FieldsOf
  <2>2. IsFiniteSet(Range(t.decisions))
    <3>1. DOMAIN t.decisions = 1 .. Len(t.decisions) /\ Len(t.decisions) \in Nat
      BY <2>1, LenProperties
    <3>2. IsFiniteSet(DOMAIN t.decisions)
      BY <3>1, UpTo
    <3>3. Range(t.decisions) = {t.decisions[i] : i \in DOMAIN t.decisions}
      BY DEF Range
    <3>4. t.decisions \in Surjection(DOMAIN t.decisions, Range(t.decisions))
      BY <2>1, <3>1, <3>3, Fun_IsSurj
    <3> QED
      BY <3>2, <3>4, FS_Surjection
  <2>3. Current(t) \subseteq Range(t.decisions)
    BY DEF Current, RowsOf
  <2> QED
    BY <2>2, <2>3, FS_Subset
<1>10. IsFiniteSet(Current(m)) /\ Cardinality(Current(m)) <= Cardinality(Current(t))
  BY <1>8, <1>9, FS_Injection
<1>11. Cardinality(Current(m)) \in Nat /\ Cardinality(Current(t)) \in Nat
  BY <1>9, <1>10, FS_CardinalityType
<1> QED
  BY <1>3, <1>10, <1>11

\* When stage 9 has not been enough, no current row is left.
LEMMA CurrentGone ==
    ASSUME NEW m \in Document, Unique(m.decisions),
           Over(Fewer(m, clock, pending.protection))
    PROVE  Current(Fitted(m, clock, pending.protection)) = {}
<1> DEFINE p == pending.protection
           t == Tidied(m, clock, p)
           f == Fitted(m, clock, p)
<1>1. f.decisions = KeptRows(t, p)
  BY PressedBare, FittedRows
<1>2. t \in Document
  BY TidyingIs
<1>3. Unique(t.decisions)
  BY TidiedRows
<1>4. RowsOf(f) = MustStay(t, p)
  BY <1>1, <1>2, <1>3, RowsCut, ProtectedIs DEF RowsOf
<1> HIDE DEF t, f
<1>5. RowsOf(f) \subseteq Kept(f)
  BY <1>4 DEF MustStay, Kept
<1> QED
  BY <1>5 DEF Current, f

\* Of the rows that nothing protects stage 9 keeps the most useful ones.
LEMMA FewerInOrder ==
    ASSUME NEW t \in Document, NEW p, NEW x \in RowsOf(t), x \notin ProtectedRows(t, p),
           x \notin RowsOf(ShedRows(t, p)),
           NEW q \in RowsOf(ShedRows(t, p)), q \notin ProtectedRows(t, p)
    PROVE  ~MoreUsed(x, q)
<1> DEFINE kept == KeptRows(t, p)
           useful == UsefulRows(t, p)
           all == AllRows(t, p)
           u == ShedRows(t, p).decisions
<1>1. /\ kept \in Seq(Decision) /\ useful \in Seq(Decision) /\ all \in Seq(Decision)
      /\ all = kept \o useful /\ Range(kept) = ProtectedRows(t, p)
      /\ Range(useful) = Range(t.decisions) \ ProtectedRows(t, p)
  BY RowsCut DEF AllRows
<1>2. PICK n \in Len(kept) .. Len(all) : u = FirstOf(all, n)
  BY RowsEnds
<1>3. FreeRows(t, p) \in Seq(Decision) /\ useful = BestUsed(FreeRows(t, p))
  BY RowsCut DEF UsefulRows
<1> HIDE DEF kept, useful, all, u
<1>4. /\ Len(kept) \in Nat /\ Len(useful) \in Nat /\ Len(all) \in Nat /\ n \in Nat
      /\ DOMAIN useful = 1 .. Len(useful)
  BY <1>1, <1>2, LenProperties
<1>5. /\ Len(all) = Len(kept) + Len(useful)
      /\ \A i \in 1 .. Len(kept) : all[i] = kept[i]
      /\ \A i \in 1 .. Len(useful) : all[Len(kept) + i] = useful[i]
  BY <1>1, <1>4, ConcatProperties
<1>6. /\ u \in Seq(Decision) /\ Len(u) = (IF Len(all) > n THEN n ELSE Len(all))
      /\ \A i \in 1 .. Len(u) : u[i] = all[i]
  BY <1>1, <1>2, <1>4, FirstOfIs
<1>7. Len(u) = n /\ DOMAIN u = 1 .. n
  BY <1>2, <1>4, <1>6, LenProperties
<1>8. x \in Range(useful) /\ x \notin Range(u) /\ q \in Range(u) /\ q \notin Range(kept)
  BY <1>1 DEF u, RowsOf
<1>9. PICK a \in 1 .. Len(useful) : useful[a] = x
  BY <1>4, <1>8 DEF Range
<1>10. PICK k \in 1 .. n : u[k] = q
  BY <1>7, <1>8 DEF Range
<1>11. ~(Len(kept) + a <= n)
  <2> SUFFICES ASSUME Len(kept) + a <= n PROVE FALSE
    OBVIOUS
  <2>1. Len(kept) + a \in 1 .. n
    BY <1>4
  <2>2. u[Len(kept) + a] = x
    BY <1>5, <1>6, <1>7, <1>9, <2>1
  <2> QED
    BY <1>7, <1>8, <2>1, <2>2 DEF Range
<1>12. ~(k <= Len(kept))
  <2> SUFFICES ASSUME k <= Len(kept) PROVE FALSE
    OBVIOUS
  <2>1. k \in 1 .. Len(kept) /\ k \in 1 .. Len(u)
    BY <1>4, <1>7
  <2>2. kept[k] = q
    BY <1>5, <1>6, <1>10, <2>1
  <2>3. DOMAIN kept = 1 .. Len(kept)
    BY <1>1, LenProperties
  <2> QED
    BY <1>8, <2>1, <2>2, <2>3 DEF Range
<1> DEFINE b == k - Len(kept)
<1>13. b \in 1 .. Len(useful) /\ k = Len(kept) + b /\ b < a
  BY <1>2, <1>4, <1>5, <1>11, <1>12
<1> HIDE DEF b
<1>14. useful[b] = q
  <2>1. all[k] = q
    BY <1>6, <1>7, <1>10
  <2> QED
    BY <1>5, <1>13, <2>1
<1>15. ~MoreUsed(useful[a], useful[b])
  BY <1>3, <1>9, <1>13, UsedOrder
<1> QED
  BY <1>9, <1>14, <1>15

\* What is left of the rows is what was recalled last, then the newest.
LEMMA RowsGoInOrder ==
    ASSUME NEW m \in Document, Unique(m.decisions), clock \in Nat, NEW x \in Current(m),
           NEW q \in Current(Fitted(m, clock, pending.protection)),
           x.id \notin Ids(RowsOf(Fitted(m, clock, pending.protection)))
    PROVE  x.used < q.used \/ (x.used = q.used /\ x.stamp <= q.stamp)
<1> DEFINE p == pending.protection
           t == Tidied(m, clock, p)
           f == Fitted(m, clock, p)
           y == ShortRow(x)
<1>1. /\ x \in Decision /\ y \in Current(t) /\ y.id = x.id
      /\ y.used = x.used /\ y.stamp = x.stamp
  BY CurrentShortened
<1>2. t \in Document /\ f.decisions = Fewer(m, clock, p).decisions
  BY TidyingIs, FittedRows
<1>3. Unique(t.decisions)
  BY TidiedRows
<1>4. ProtectedRows(t, p) = MustStay(t, p)
  BY <1>3, ProtectedIs
<1>5. RowsOf(f) \subseteq RowsOf(t)
  BY FittedRows
<1>6. RowsOf(f) = RowsOf(Fewer(m, clock, p))
  BY <1>2 DEF RowsOf
<1>7. y \notin RowsOf(f)
  BY <1>1 DEF Ids
<1>8. y \in RowsOf(t) /\ y \notin Kept(t)
  BY <1>1 DEF Current
<1>9. q \in RowsOf(f) /\ q \notin Kept(f)
  BY DEF Current
<1>10. RowsOf(f) = RowsOf(ShedRows(t, p))
  BY <1>6, <1>7, <1>8 DEF Fewer
<1> HIDE DEF t, f, y
<1>11. y \notin MustStay(t, p)
  BY <1>8 DEF MustStay, Kept
<1>12. q \notin MustStay(t, p)
  BY <1>9 DEF MustStay, Kept
<1>13. ~MoreUsed(y, q)
  <2>1. y \in RowsOf(t) /\ y \notin ProtectedRows(t, p) /\ y \notin RowsOf(ShedRows(t, p))
    BY <1>4, <1>7, <1>8, <1>10, <1>11
  <2>2. q \in RowsOf(ShedRows(t, p)) /\ q \notin ProtectedRows(t, p)
    BY <1>4, <1>9, <1>10, <1>12
  <2> HIDE DEF p
  <2> QED
    BY <1>2, <2>1, <2>2, FewerInOrder
<1>14. q \in Decision
  <2>1. t.decisions \in Seq(Decision)
    BY <1>2, FieldsOf
  <2>2. q \in Range(t.decisions)
    BY <1>5, <1>9 DEF RowsOf
  <2> QED
    BY <2>1, <2>2, RangeOfSeq
<1>15. /\ x.used \in Nat /\ x.stamp \in Nat /\ q.used \in Nat /\ q.stamp \in Nat
  BY <1>1, <1>14 DEF Decision
<1> QED
  BY <1>1, <1>13, <1>15 DEF MoreUsed

\* The audits that stage 1 may shed: completed, or failed for want of an answer.
Shed(m) == Those(m.audits, LAMBDA a : a.state # "pending" \/ Stale(a))

\* The classes one by one.
LEMMA DisposableIs ==
    ASSUME NEW m
    PROVE  LET d == Disposable(m) IN
           /\ DOMAIN d = 1 .. 11
           /\ d[1] = Len(LastOf(Shed(m), Cap.audits))
           /\ d[2] = Len(m.cache) /\ d[3] = Len(m.health) /\ d[4] = m.quarantined
           /\ d[5] = Len(m.sessions)
           /\ d[6] = Cardinality(Range(m.sources) \ pending.protection.sources)
           /\ d[7] = Len(FirstOf(m.files, Cap.files)) /\ d[8] = Cardinality(Current(m))
           /\ d[9] = Len(LastOf(m.blockers, Cap.entries))
           /\ d[10] = Len(LastOf(m.steps, Cap.entries))
           /\ d[11] = IF m.task.text = 0 THEN 0 ELSE 1
  BY DEF Disposable, Shed

\* The guards that are left when stage 1 has shed all it may.
LEMMA GuardsAreNotShed ==
    ASSUME NEW m \in Document, NEW y, y.audits = Waiting(ExpireAudits(m, clock))
    PROVE  Shed(y) = <<>>
<1> DEFINE e == ExpireAudits(m, clock)
           S == {a \in Range(y.audits) : a.state # "pending" \/ Stale(a)}
<1>1. e \in Document
  BY ExpireIs DEF Lightened
<1>2. y.audits \in Seq(AuditRecord) /\ Range(y.audits) = {a \in Range(e.audits) : IsPending(a)}
  BY <1>1, AuditsCut
<1>3. ASSUME NEW a \in Range(y.audits) PROVE a.state = "pending" /\ ~Stale(a)
  <2>1. a \in Range(e.audits) /\ a.state = "pending"
    BY <1>2 DEF IsPending
  <2>2. PICK i \in DOMAIN e.audits : a = e.audits[i]
    BY <2>1 DEF Range
  <2>3. i \in DOMAIN m.audits /\ a = Expired(m.audits[i], clock)
    BY <2>2, ExpireIs
  <2>4. m.audits[i] \in AuditRecord
    BY <2>3, FieldsOf, ElementOfSeq, LenProperties
  <2>5. ~(IsPending(m.audits[i]) /\ clock - m.audits[i].stamp > AuditTimeout)
    BY <2>1, <2>3, <2>4 DEF Expired, AuditRecord
  <2>6. a = m.audits[i]
    BY <2>3, <2>5 DEF Expired
  <2> QED
    BY <2>1, <2>5, <2>6 DEF Stale, IsPending
<1>4. Shed(y) = Within(y.audits, S)
  BY DEF Shed, Those
<1>5. Range(y.audits) \cap S = {}
  BY <1>3
<1> HIDE DEF S
<1> QED
  BY <1>2, <1>4, <1>5, WithinDraws

\* What a stage must have emptied that has left the document too large.
LEMMA StagesEmpty ==
    ASSUME NEW m \in Document, Unique(m.decisions)
    PROVE  LET p == pending.protection
               f == Fitted(m, clock, p)
               has == Disposable(f)
           IN  /\ Over(Audited(m, clock)) => has[1] = 0
               /\ Over(Cached(m, clock)) => has[2] = 0
               /\ Over(Healthy(m, clock)) => has[3] = 0 /\ has[4] = 0
               /\ Over(Booked(m, clock, p)) => has[5] = 0 /\ has[6] = 0
               /\ Over(Tidied(m, clock, p)) => has[7] = 0
               /\ Over(Fewer(m, clock, p)) => has[8] = 0
               /\ Over(Unblocked(m, clock, p)) => has[9] = 0
               /\ Over(Unstepped(m, clock, p)) => has[10] = 0
<1> DEFINE p == pending.protection
           f == Fitted(m, clock, p)
           t == Tidied(m, clock, p)
           x == Fewer(m, clock, p)
           has == Disposable(f)
           own == OwnSources(m, p)
<1>1. Len(<<>>) = 0 /\ \A n \in Nat : LastOf(<<>>, n) = <<>> /\ FirstOf(<<>>, n) = <<>>
  <2>1. <<>> \in Seq(Nat) /\ Len(<<>>) = 0
    BY EmptySeq
  <2>2. \A n \in Nat : Len(<<>>) <= n
    BY <2>1
  <2> QED
    BY <2>1, <2>2, LastOfIs, FirstOfIs
<1>2. /\ Cap.audits \in Nat /\ Cap.files \in Nat /\ Cap.entries \in Nat
  BY DocumentAssumption
<1>3. /\ f.audits = Audited(m, clock).audits /\ f.cache = Cached(m, clock).cache
      /\ f.health = Healthy(m, clock).health
      /\ f.quarantined = Healthy(m, clock).quarantined
      /\ f.sessions = Booked(m, clock, p).sessions /\ f.sources = Booked(m, clock, p).sources
  <2>1. /\ f.audits = t.audits /\ f.cache = t.cache /\ f.health = t.health
        /\ f.quarantined = t.quarantined /\ f.sessions = t.sessions /\ f.sources = t.sources
    BY PressedParts
  <2>2. /\ t.audits = Audited(m, clock).audits /\ t.cache = Cached(m, clock).cache
        /\ t.health = Healthy(m, clock).health
        /\ t.quarantined = Healthy(m, clock).quarantined
        /\ t.sessions = Booked(m, clock, p).sessions
        /\ t.sources = Booked(m, clock, p).sources
    BY TidiedParts
  <2> QED
    BY <2>1, <2>2
<1>4. /\ Over(Audited(m, clock)) => f.audits = Waiting(ExpireAudits(m, clock))
      /\ Over(Cached(m, clock)) => f.cache = <<>>
      /\ Over(Healthy(m, clock)) => f.health = <<>> /\ f.quarantined = 0
      /\ Over(Booked(m, clock, p)) => f.sessions = <<>> /\ f.sources = own
  BY <1>3, TidiedBare DEF Bare
<1>5. Over(t) => t.files = <<>>
  BY TidiedBare DEF Bare
<1>6. Over(t) => f.files = <<>>
  <2>1. Over(x) => f.files = <<>>
    BY PressedBare, PressedParts
  <2>2. ~Over(x) => f.files = t.files
    BY PressedParts
  <2> QED
    BY <1>5, <2>1, <2>2
<1>7. /\ Over(Unblocked(m, clock, p)) => f.blockers = <<>>
      /\ Over(Unstepped(m, clock, p)) => f.steps = <<>>
  <2>1. /\ Over(Unblocked(m, clock, p)) => Over(x)
        /\ Over(Unstepped(m, clock, p)) => Over(x)
    BY OverAll
  <2>2. Over(x) => /\ f.blockers = Unblocked(m, clock, p).blockers
                   /\ f.steps = Unstepped(m, clock, p).steps
    BY PressedParts
  <2> QED
    BY <2>1, <2>2, PressedBare
<1>8. Over(x) => Current(f) = {}
  BY CurrentGone
<1>9. Range(own) \ p.sources = {}
  <2>1. m.sources \in Seq(Nat)
    BY FieldsOf
  <2>2. Range(own) = Range(m.sources) \cap p.sources
    BY <2>1, WithinDraws DEF OwnSources
  <2> QED
    BY <2>2
<1>10. Cardinality({}) = 0
  BY FS_EmptySet
<1>11. Over(Audited(m, clock)) => Shed(f) = <<>>
  BY <1>4, GuardsAreNotShed
<1> HIDE DEF f, t, x, own
<1>12. /\ has[1] = Len(LastOf(Shed(f), Cap.audits))
       /\ has[2] = Len(f.cache) /\ has[3] = Len(f.health) /\ has[4] = f.quarantined
       /\ has[5] = Len(f.sessions) /\ has[6] = Cardinality(Range(f.sources) \ p.sources)
       /\ has[7] = Len(FirstOf(f.files, Cap.files)) /\ has[8] = Cardinality(Current(f))
       /\ has[9] = Len(LastOf(f.blockers, Cap.entries))
       /\ has[10] = Len(LastOf(f.steps, Cap.entries))
  BY DisposableIs
<1> HIDE DEF has, p
<1>13. /\ Over(Audited(m, clock)) => has[1] = 0
       /\ Over(Cached(m, clock)) => has[2] = 0
       /\ Over(Healthy(m, clock)) => has[3] = 0 /\ has[4] = 0
  BY <1>1, <1>2, <1>4, <1>11, <1>12
<1>14. Over(Booked(m, clock, p)) => has[5] = 0 /\ has[6] = 0
  BY <1>1, <1>4, <1>9, <1>10, <1>12
<1>15. /\ Over(t) => has[7] = 0
       /\ Over(x) => has[8] = 0
  BY <1>1, <1>2, <1>6, <1>8, <1>10, <1>12
<1>16. /\ Over(Unblocked(m, clock, p)) => has[9] = 0
       /\ Over(Unstepped(m, clock, p)) => has[10] = 0
  BY <1>1, <1>2, <1>7, <1>12
<1> QED
  BY <1>13, <1>14, <1>15, <1>16 DEF has, f, t, x, p

\* Of which stage a class loses something for lack of room.
LEMMA StagesLost ==
    ASSUME NEW m, NEW n, Ready(m, n), clock \in Nat
    PROVE  LET p == pending.protection
               f == Fitted(m, clock, p)
               had == Disposable(m)
               has == Disposable(f)
           IN  /\ has[2] < had[2] => Over(Audited(m, clock))
               /\ has[3] < had[3] => Over(Cached(m, clock))
               /\ has[4] < had[4] => Over(Cached(m, clock)) /\ has[3] = 0
               /\ has[5] < had[5] => Over(Healthy(m, clock))
               /\ has[6] < had[6] => Over(Healthy(m, clock)) /\ has[5] = 0
               /\ has[7] < had[7] => Over(Booked(m, clock, p))
               /\ has[8] < had[8] => Over(Tidied(m, clock, p))
               /\ has[9] < had[9] => Over(Unfiled(m, clock, p))
               /\ has[10] < had[10] => Over(Unblocked(m, clock, p))
               /\ has[11] < had[11] => Over(Unstepped(m, clock, p))
<1> DEFINE p == pending.protection
           f == Fitted(m, clock, p)
           had == Disposable(m)
           has == Disposable(f)
<1>1. m \in Document /\ Unique(m.decisions)
  BY DEF Ready
<1>2. f \in Document
  BY FittedIsDocument
<1>3. /\ f.cache # m.cache => Over(Audited(m, clock))
      /\ f.health # m.health => Over(Cached(m, clock))
      /\ f.quarantined # m.quarantined => Over(Cached(m, clock)) /\ f.health = <<>>
  BY CacheLost
<1>4. /\ f.sessions # m.sessions => Over(Healthy(m, clock))
      /\ Range(f.sources) \ p.sources # Range(m.sources) \ p.sources =>
            Over(Healthy(m, clock)) /\ f.sessions = <<>>
  BY BooksLost
<1>5. Len(FirstOf(f.files, Cap.files)) # Len(FirstOf(m.files, Cap.files))
         => Over(Booked(m, clock, p))
  BY <1>1, FilesLost
<1>6. Cardinality(Current(f)) < Cardinality(Current(m)) => Over(Tidied(m, clock, p))
  BY <1>1, CurrentLost
<1>7. /\ Len(LastOf(f.blockers, Cap.entries)) # Len(LastOf(m.blockers, Cap.entries))
            => Over(Unfiled(m, clock, p))
      /\ Len(LastOf(f.steps, Cap.entries)) # Len(LastOf(m.steps, Cap.entries))
            => Over(Unblocked(m, clock, p))
      /\ m.task.text # 0 /\ f.task.text = 0 => Over(Unstepped(m, clock, p))
  BY <1>1, TextsLost, DetailAssumption
<1>8. Len(<<>>) = 0
  BY EmptySeq
<1> HIDE DEF f
<1>9. /\ had[2] = Len(m.cache) /\ had[3] = Len(m.health) /\ had[4] = m.quarantined
      /\ had[5] = Len(m.sessions) /\ had[6] = Cardinality(Range(m.sources) \ p.sources)
      /\ had[7] = Len(FirstOf(m.files, Cap.files)) /\ had[8] = Cardinality(Current(m))
      /\ had[9] = Len(LastOf(m.blockers, Cap.entries))
      /\ had[10] = Len(LastOf(m.steps, Cap.entries))
      /\ had[11] = IF m.task.text = 0 THEN 0 ELSE 1
  BY DisposableIs
<1>10. /\ has[2] = Len(f.cache) /\ has[3] = Len(f.health) /\ has[4] = f.quarantined
       /\ has[5] = Len(f.sessions) /\ has[6] = Cardinality(Range(f.sources) \ p.sources)
       /\ has[7] = Len(FirstOf(f.files, Cap.files)) /\ has[8] = Cardinality(Current(f))
       /\ has[9] = Len(LastOf(f.blockers, Cap.entries))
       /\ has[10] = Len(LastOf(f.steps, Cap.entries))
       /\ has[11] = IF f.task.text = 0 THEN 0 ELSE 1
  BY DisposableIs
<1> HIDE DEF has, had, p
<1>11. /\ Len(f.cache) \in Nat /\ Len(m.cache) \in Nat
       /\ Len(f.health) \in Nat /\ Len(m.health) \in Nat
       /\ Len(f.sessions) \in Nat /\ Len(m.sessions) \in Nat
       /\ f.quarantined \in Nat /\ m.quarantined \in Nat
  BY <1>1, <1>2, FieldsOf, LenProperties
<1>12. /\ has[2] < had[2] => Over(Audited(m, clock))
       /\ has[3] < had[3] => Over(Cached(m, clock))
       /\ has[4] < had[4] => Over(Cached(m, clock)) /\ has[3] = 0
       /\ has[5] < had[5] => Over(Healthy(m, clock))
  <2>1. /\ has[2] < had[2] => f.cache # m.cache
        /\ has[3] < had[3] => f.health # m.health
        /\ has[4] < had[4] => f.quarantined # m.quarantined
        /\ has[5] < had[5] => f.sessions # m.sessions
    <3>1. ASSUME has[2] < had[2], f.cache = m.cache PROVE FALSE
      <4>1. has[2] = had[2] /\ had[2] \in Nat
        BY <1>9, <1>10, <1>11, <3>1
      <4> QED
        BY <3>1, <4>1
    <3>2. ASSUME has[3] < had[3], f.health = m.health PROVE FALSE
      <4>1. has[3] = had[3] /\ had[3] \in Nat
        BY <1>9, <1>10, <1>11, <3>2
      <4> QED
        BY <3>2, <4>1
    <3>3. ASSUME has[4] < had[4], f.quarantined = m.quarantined PROVE FALSE
      <4>1. has[4] = had[4] /\ had[4] \in Nat
        BY <1>9, <1>10, <1>11, <3>3
      <4> QED
        BY <3>3, <4>1
    <3>4. ASSUME has[5] < had[5], f.sessions = m.sessions PROVE FALSE
      <4>1. has[5] = had[5] /\ had[5] \in Nat
        BY <1>9, <1>10, <1>11, <3>4
      <4> QED
        BY <3>4, <4>1
    <3> QED
      BY <3>1, <3>2, <3>3, <3>4
  <2>2. f.health = <<>> => has[3] = 0
    BY <1>8, <1>10
  <2> QED
    BY <1>3, <1>4, <2>1, <2>2
<1>13. \A S, T : IsFiniteSet(S) /\ Cardinality(T) < Cardinality(S) => T # S
  <2> SUFFICES ASSUME NEW S, NEW T, IsFiniteSet(S), Cardinality(T) < Cardinality(S), T = S
               PROVE  FALSE
    OBVIOUS
  <2>1. Cardinality(S) \in Nat
    BY FS_CardinalityType
  <2> QED
    BY <2>1
<1>14. IsFiniteSet(Range(m.sources) \ p.sources)
  <2>1. m.sources \in Seq(Nat)
    BY <1>1, FieldsOf
  <2>2. DOMAIN m.sources = 1 .. Len(m.sources) /\ Len(m.sources) \in Nat
    BY <2>1, LenProperties
  <2>3. IsFiniteSet(DOMAIN m.sources)
    BY <2>2, UpTo
  <2>4. Range(m.sources) = {m.sources[i] : i \in DOMAIN m.sources}
    BY DEF Range
  <2>5. m.sources \in Surjection(DOMAIN m.sources, Range(m.sources))
    BY <2>1, <2>2, <2>4, Fun_IsSurj
  <2>6. IsFiniteSet(Range(m.sources))
    BY <2>3, <2>5, FS_Surjection
  <2> QED
    BY <2>6, FS_Difference
<1>15. has[6] < had[6] => Over(Healthy(m, clock)) /\ has[5] = 0
  <2>1. has[6] < had[6] => Range(f.sources) \ p.sources # Range(m.sources) \ p.sources
    BY <1>9, <1>10, <1>13, <1>14
  <2> QED
    BY <1>4, <1>8, <1>10, <2>1
<1>16. \A T \in Seq(Nat) : Len(LastOf(T, Cap.entries)) \in Nat
  BY LastOfIs, LenProperties, DocumentAssumption
<1>17. \A T \in Seq(FileRecord) : Len(FirstOf(T, Cap.files)) \in Nat
  BY FirstOfIs, LenProperties, DocumentAssumption
<1>18. /\ m.files \in Seq(FileRecord) /\ f.files \in Seq(FileRecord)
       /\ m.blockers \in Seq(Nat) /\ f.blockers \in Seq(Nat)
       /\ m.steps \in Seq(Nat) /\ f.steps \in Seq(Nat)
  BY <1>1, <1>2, FieldsOf
<1>19. /\ has[7] < had[7] => Over(Booked(m, clock, p))
       /\ has[8] < had[8] => Over(Tidied(m, clock, p))
  BY <1>5, <1>6, <1>9, <1>10, <1>17, <1>18
<1>20. /\ has[9] < had[9] => Over(Unfiled(m, clock, p))
       /\ has[10] < had[10] => Over(Unblocked(m, clock, p))
  <2>1. has[9] < had[9] =>
           Len(LastOf(f.blockers, Cap.entries)) # Len(LastOf(m.blockers, Cap.entries))
    BY <1>9, <1>10, <1>16, <1>18
  <2>2. has[10] < had[10] =>
           Len(LastOf(f.steps, Cap.entries)) # Len(LastOf(m.steps, Cap.entries))
    BY <1>9, <1>10, <1>16, <1>18
  <2> QED
    BY <1>7, <2>1, <2>2
<1>21. has[11] < had[11] => Over(Unstepped(m, clock, p))
  <2>1. had[11] = (IF m.task.text = 0 THEN 0 ELSE 1)
        /\ has[11] = (IF f.task.text = 0 THEN 0 ELSE 1)
    BY <1>9, <1>10
  <2>2. has[11] < had[11] => m.task.text # 0 /\ f.task.text = 0
    BY <2>1
  <2> QED
    BY <1>7, <2>2
<1> QED
  BY <1>12, <1>15, <1>19, <1>20, <1>21 DEF has, had, f, p

\* The classes that matter less than the one at k are empty.
EmptyTo(has, k) == \A j \in 1 .. k - 1 : has[j] = 0

\* A stage that has left the document too large has emptied its class, and so
\* have the stages before it.
LEMMA StagesEmptyTo ==
    ASSUME NEW m \in Document, Unique(m.decisions)
    PROVE  LET p == pending.protection
               has == Disposable(Fitted(m, clock, p))
           IN  /\ Over(Audited(m, clock)) => EmptyTo(has, 2)
               /\ Over(Cached(m, clock)) => EmptyTo(has, 3)
               /\ Over(Healthy(m, clock)) => EmptyTo(has, 5)
               /\ Over(Booked(m, clock, p)) => EmptyTo(has, 7)
               /\ Over(Tidied(m, clock, p)) => EmptyTo(has, 8)
               /\ Over(Unfiled(m, clock, p)) => EmptyTo(has, 9)
               /\ Over(Unblocked(m, clock, p)) => EmptyTo(has, 10)
               /\ Over(Unstepped(m, clock, p)) => EmptyTo(has, 11)
<1> DEFINE p == pending.protection
           has == Disposable(Fitted(m, clock, p))
<1>1. /\ Over(Audited(m, clock)) => has[1] = 0
      /\ Over(Cached(m, clock)) => has[2] = 0
      /\ Over(Healthy(m, clock)) => has[3] = 0 /\ has[4] = 0
      /\ Over(Booked(m, clock, p)) => has[5] = 0 /\ has[6] = 0
      /\ Over(Tidied(m, clock, p)) => has[7] = 0
      /\ Over(Fewer(m, clock, p)) => has[8] = 0
      /\ Over(Unblocked(m, clock, p)) => has[9] = 0
      /\ Over(Unstepped(m, clock, p)) => has[10] = 0
  BY StagesEmpty
<1>2. /\ Over(Cached(m, clock)) => Over(Audited(m, clock))
      /\ Over(Healthy(m, clock)) => Over(Cached(m, clock))
      /\ Over(Booked(m, clock, p)) => Over(Healthy(m, clock))
      /\ Over(Tidied(m, clock, p)) => Over(Booked(m, clock, p))
      /\ Over(Fewer(m, clock, p)) => Over(Tidied(m, clock, p))
      /\ Over(Unfiled(m, clock, p)) => Over(Fewer(m, clock, p))
      /\ Over(Unblocked(m, clock, p)) => Over(Unfiled(m, clock, p))
      /\ Over(Unstepped(m, clock, p)) => Over(Unblocked(m, clock, p))
  BY OverAll
<1> HIDE DEF p, has
<1>3. Over(Audited(m, clock)) => EmptyTo(has, 2)
  BY <1>1 DEF EmptyTo
<1>4. Over(Cached(m, clock)) => EmptyTo(has, 3)
  BY <1>1, <1>2, <1>3 DEF EmptyTo
<1>5. Over(Healthy(m, clock)) => EmptyTo(has, 5)
  BY <1>1, <1>2, <1>4 DEF EmptyTo
<1>6. Over(Booked(m, clock, p)) => EmptyTo(has, 7)
  BY <1>1, <1>2, <1>5 DEF EmptyTo
<1>7. Over(Tidied(m, clock, p)) => EmptyTo(has, 8)
  BY <1>1, <1>2, <1>6 DEF EmptyTo
<1>8. Over(Unfiled(m, clock, p)) => EmptyTo(has, 9)
  BY <1>1, <1>2, <1>7 DEF EmptyTo
<1>9. Over(Unblocked(m, clock, p)) => EmptyTo(has, 10)
  BY <1>1, <1>2, <1>8 DEF EmptyTo
<1>10. Over(Unstepped(m, clock, p)) => EmptyTo(has, 11)
  <2> SUFFICES ASSUME Over(Unstepped(m, clock, p)), NEW j \in 1 .. 10 PROVE has[j] = 0
    BY DEF EmptyTo
  <2>1. has[10] = 0 /\ EmptyTo(has, 10)
    BY <1>1, <1>2, <1>9
  <2>2. j = 10 \/ j \in 1 .. 10 - 1
    OBVIOUS
  <2> QED
    BY <2>1, <2>2 DEF EmptyTo
<1> QED
  BY <1>3, <1>4, <1>5, <1>6, <1>7, <1>8, <1>9, <1>10 DEF has, p

\* The most disposable class goes first.
LEMMA ClassesGoInOrder ==
    ASSUME NEW m, NEW n, Ready(m, n), clock \in Nat
    PROVE  LET had == Disposable(m)
               has == Disposable(Fitted(m, clock, pending.protection))
           IN  \A k \in DOMAIN had : has[k] < had[k] => \A j \in 1 .. k - 1 : has[j] = 0
<1> DEFINE p == pending.protection
           had == Disposable(m)
           has == Disposable(Fitted(m, clock, p))
<1>1. m \in Document /\ Unique(m.decisions)
  BY DEF Ready
<1>2. DOMAIN had = 1 .. 11
  BY DisposableIs
<1>3. /\ has[2] < had[2] => Over(Audited(m, clock))
      /\ has[3] < had[3] => Over(Cached(m, clock))
      /\ has[4] < had[4] => Over(Cached(m, clock)) /\ has[3] = 0
      /\ has[5] < had[5] => Over(Healthy(m, clock))
      /\ has[6] < had[6] => Over(Healthy(m, clock)) /\ has[5] = 0
      /\ has[7] < had[7] => Over(Booked(m, clock, p))
      /\ has[8] < had[8] => Over(Tidied(m, clock, p))
      /\ has[9] < had[9] => Over(Unfiled(m, clock, p))
      /\ has[10] < had[10] => Over(Unblocked(m, clock, p))
      /\ has[11] < had[11] => Over(Unstepped(m, clock, p))
  BY StagesLost
<1>4. /\ Over(Audited(m, clock)) => EmptyTo(has, 2)
      /\ Over(Cached(m, clock)) => EmptyTo(has, 3)
      /\ Over(Healthy(m, clock)) => EmptyTo(has, 5)
      /\ Over(Booked(m, clock, p)) => EmptyTo(has, 7)
      /\ Over(Tidied(m, clock, p)) => EmptyTo(has, 8)
      /\ Over(Unfiled(m, clock, p)) => EmptyTo(has, 9)
      /\ Over(Unblocked(m, clock, p)) => EmptyTo(has, 10)
      /\ Over(Unstepped(m, clock, p)) => EmptyTo(has, 11)
  BY <1>1, StagesEmptyTo
<1> HIDE DEF p, had, has
<1>5. EmptyTo(has, 1)
  BY DEF EmptyTo
<1>6. has[2] < had[2] => EmptyTo(has, 2)
  BY <1>3, <1>4
<1>7. has[3] < had[3] => EmptyTo(has, 3)
  BY <1>3, <1>4
<1>8. has[4] < had[4] => EmptyTo(has, 4)
  BY <1>3, <1>4 DEF EmptyTo
<1>9. has[5] < had[5] => EmptyTo(has, 5)
  BY <1>3, <1>4
<1>10. has[6] < had[6] => EmptyTo(has, 6)
  BY <1>3, <1>4 DEF EmptyTo
<1>11. has[7] < had[7] => EmptyTo(has, 7)
  BY <1>3, <1>4
<1>12. has[8] < had[8] => EmptyTo(has, 8)
  BY <1>3, <1>4
<1>13. has[9] < had[9] => EmptyTo(has, 9)
  BY <1>3, <1>4
<1>14. has[10] < had[10] => EmptyTo(has, 10)
  BY <1>3, <1>4
<1>15. has[11] < had[11] => EmptyTo(has, 11)
  BY <1>3, <1>4
<1>16. ASSUME NEW k \in 1 .. 11, has[k] < had[k] PROVE EmptyTo(has, k)
  <2>1. k = 1 \/ k = 2 \/ k = 3 \/ k = 4 \/ k = 5 \/ k = 6 \/ k = 7 \/ k = 8
           \/ k = 9 \/ k = 10 \/ k = 11
    OBVIOUS
  <2> QED
    BY <1>16, <2>1, <1>5, <1>6, <1>7, <1>8, <1>9, <1>10,
       <1>11, <1>12, <1>13, <1>14, <1>15
<1> QED
  BY <1>2, <1>16 DEF EmptyTo, had, has, p

\* A class loses something for lack of room only when all that matter less are
\* empty, and files and rows go from the end of their orders (ShedInOrder).
THEOREM ShedInOrderHolds == Spec => []ShedInOrder
<1>1. BInv => ShedInOrder
  <2> DEFINE c == pending.memory
             p == pending.protection
             f == Fitted(c, clock, p)
             had == Disposable(c)
             has == Disposable(f)
  <2>1. SUFFICES ASSUME BInv, Judged, pending.verdict.fits
                 PROVE  InOrder(c, pending.verdict.memory)
    BY DEF ShedInOrder
  <2>2. /\ Ready(c, turns) /\ c \in Document /\ clock \in Nat
        /\ pending.verdict.memory = f
    BY <2>1, JudgedIs
  <2>3. Unique(c.decisions)
    BY <2>2 DEF Ready
  <2>4. \A k \in DOMAIN had : has[k] < had[k] => \A j \in 1 .. k - 1 : has[j] = 0
    BY <2>2, ClassesGoInOrder
  <2>5. \A x \in Range(c.files), g \in Range(f.files) :
           x.path \notin {h.path : h \in Range(f.files)} => x.touched <= g.touched
    <3> SUFFICES ASSUME NEW x \in Range(c.files), NEW g \in Range(f.files),
                        x.path \notin {h.path : h \in Range(f.files)}
                 PROVE  x.touched <= g.touched
      OBVIOUS
    <3> HIDE DEF c, p
    <3> QED
      BY <2>2, FilesGoInOrder
  <2>6. \A x \in Current(c), q \in Current(f) :
           x.id \notin Ids(RowsOf(f)) =>
              x.used < q.used \/ (x.used = q.used /\ x.stamp <= q.stamp)
    <3> SUFFICES ASSUME NEW x \in Current(c), NEW q \in Current(f),
                        x.id \notin Ids(RowsOf(f))
                 PROVE  x.used < q.used \/ (x.used = q.used /\ x.stamp <= q.stamp)
      OBVIOUS
    <3> HIDE DEF c
    <3> QED
      BY <2>2, <2>3, RowsGoInOrder
  <2> HIDE DEF c, f
  <2>7. InOrder(c, f)
    BY <2>4, <2>5, <2>6 DEF InOrder
  <2> QED
    BY <2>2, <2>7
<1> QED
  BY <1>1, CandidatesReady, PTL

-----------------------------------------------------------------------------
(* What was fitted is fitted                                               *)

\* A document is its fields.
LEMMA SameDocument ==
    ASSUME NEW x \in Document, NEW y \in Document, ButAudits(y, x), y.audits = x.audits
    PROVE  y = x
<1> DEFINE whole(m) ==
        [version |-> m.version, decisions |-> m.decisions, files |-> m.files,
         blockers |-> m.blockers, steps |-> m.steps, task |-> m.task, cache |-> m.cache,
         quarantined |-> m.quarantined, audits |-> m.audits, sources |-> m.sources,
         sessions |-> m.sessions, health |-> m.health]
<1>1. x = whole(x)
  BY DEF Document
<1>2. y = whole(y)
  BY DEF Document
<1>3. whole(y) = whole(x)
  BY DEF ButAudits
<1> QED
  BY <1>1, <1>2, <1>3

\* The fields of a document that a stage of the budget leaves alone, and the
\* one that it left as it was, are all of it.
LEMMA SameStage ==
    ASSUME NEW x \in Document, NEW y \in Document
    PROVE  /\ ButCache(y, x) /\ y.cache = x.cache => y = x
           /\ ButHealth(y, x) /\ y.health = x.health /\ y.quarantined = x.quarantined => y = x
           /\ ButBooks(y, x) /\ y.sessions = x.sessions /\ y.sources = x.sources => y = x
           /\ ButRows(y, x) /\ y.decisions = x.decisions => y = x
           /\ ButFiles(y, x) /\ y.files = x.files => y = x
<1>1. ButCache(y, x) /\ y.cache = x.cache => y = x
  BY SameDocument DEF ButCache, ButAudits
<1>2. ButHealth(y, x) /\ y.health = x.health /\ y.quarantined = x.quarantined => y = x
  BY SameDocument DEF ButHealth, ButAudits
<1>3. ButBooks(y, x) /\ y.sessions = x.sessions /\ y.sources = x.sources => y = x
  BY SameDocument DEF ButBooks, ButAudits
<1>4. ButRows(y, x) /\ y.decisions = x.decisions => y = x
  BY SameDocument DEF ButRows, ButAudits
<1>5. ButFiles(y, x) /\ y.files = x.files => y = x
  BY SameDocument DEF ButFiles, ButAudits
<1> QED
  BY <1>1, <1>2, <1>3, <1>4, <1>5

\* No guard is too old.
InTime(m, now) == \A a \in Range(m.audits) : ~(IsPending(a) /\ now - a.stamp > AuditTimeout)

\* Stage 0 finds nothing.
LEMMA NothingExpires ==
    ASSUME NEW m \in Document, NEW now, InTime(m, now)
    PROVE  ExpireAudits(m, now) = m
<1> DEFINE e == ExpireAudits(m, now)
<1>1. /\ e \in Document /\ ButAudits(e, m) /\ DOMAIN e.audits = DOMAIN m.audits
      /\ \A i \in DOMAIN m.audits : e.audits[i] = Expired(m.audits[i], now)
  BY ExpireIs, StagesKeep DEF Lightened
<1>2. \A i \in DOMAIN m.audits : Expired(m.audits[i], now) = m.audits[i]
  BY DEF Expired, InTime, Range
<1> HIDE DEF e
<1>3. e.audits \in Seq(AuditRecord) /\ m.audits \in Seq(AuditRecord)
  BY <1>1, FieldsOf
<1>4. e.audits = m.audits
  <2>1. /\ e.audits = [i \in DOMAIN e.audits |-> e.audits[i]]
        /\ m.audits = [i \in DOMAIN m.audits |-> m.audits[i]]
    BY <1>3, LenProperties
  <2> QED
    BY <1>1, <1>2, <2>1
<1>5. e = m
  BY <1>1, <1>4, SameDocument
<1> QED
  BY <1>5 DEF e

\* The settled audits are first, and not too many.
Arranged(s) ==
    \E t, w \in Seq(AuditRecord) :
        /\ s = t \o w /\ Len(t) <= Cap.audits
        /\ \A a \in Range(t) : IsCompleted(a)
        /\ \A a \in Range(w) : IsPending(a)

\* Stage 1 finds nothing.
LEMMA NoAuditGoes ==
    ASSUME NEW m \in Document, Arranged(m.audits), ~Over(m)
    PROVE  ShedAudits(m) = m
<1>1. PICK t, w \in Seq(AuditRecord) :
          /\ m.audits = t \o w /\ Len(t) <= Cap.audits
          /\ \A a \in Range(t) : IsCompleted(a)
          /\ \A a \in Range(w) : IsPending(a)
  BY DEF Arranged
<1> DEFINE S == {a \in Range(m.audits) : IsCompleted(a)}
           T == {a \in Range(m.audits) : IsPending(a)}
<1>2. Range(m.audits) = Range(t) \cup Range(w)
  BY <1>1, RangeConcatenation
<1>3. Apart(t, w, S, T)
  BY <1>1, <1>2 DEF IsCompleted, IsPending, Apart
<1>4. Done(m) = Within(m.audits, S) /\ Waiting(m) = Within(m.audits, T)
  BY DEF Done, Waiting, Those
<1> HIDE DEF S, T
<1>5. Done(m) = t /\ Waiting(m) = w
  BY <1>1, <1>3, <1>4, PartsAgain
<1>6. AuditsLeft(m) = t
  <2>1. Cap.audits \in Nat
    BY DocumentAssumption
  <2> QED
    BY <1>1, <1>5, <2>1, LastOfIs DEF AuditsLeft
<1>7. ShedAudits(m).audits = m.audits
  BY <1>1, <1>5, <1>6, AuditsEnds
<1> QED
  BY <1>7, AuditsCut, StagesKeep, SameDocument DEF Lightened

\* Stages 2 and 3 find nothing.
LEMMA NoCacheGoes ==
    ASSUME NEW m \in Document, ~Over(m), Len(m.cache) <= Cap.cache, Len(m.health) <= Cap.health
    PROVE  ShedCache(m) = m /\ ShedHealth(m) = m
<1>1. /\ Cap.cache \in Nat /\ Cap.health \in Nat
      /\ m.cache \in Seq(CacheRecord) /\ m.health \in Seq(Nat)
  BY DocumentAssumption, FieldsOf
<1>2. CacheLeft(m) = m.cache
  BY <1>1, LastOfIs DEF CacheLeft
<1>3. HealthLeft(m) = m.health
  BY <1>1, LastOfIs DEF HealthLeft
<1>4. ShedCache(m) = m
  <2>1. ShedCache(m) \in Document /\ ButCache(ShedCache(m), m)
    BY CacheCut, StagesKeep DEF Lightened
  <2>2. ShedCache(m).cache = m.cache
    BY <1>2, CacheEnds
  <2> QED
    BY <2>1, <2>2, SameStage
<1>5. ShedHealth(m) = m
  <2>1. ShedHealth(m) \in Document /\ ButHealth(ShedHealth(m), m)
    BY HealthCut, StagesKeep DEF Lightened
  <2>2. ShedHealth(m).health = m.health /\ ShedHealth(m).quarantined = m.quarantined
    BY <1>3, HealthEnds
  <2> QED
    BY <2>1, <2>2, SameStage
<1> QED
  BY <1>4, <1>5

\* Stage 4 finds nothing.
LEMMA NoBookGoes ==
    ASSUME NEW m \in Document, NEW p, ~Over(m), OwnLast(m.sources, p.sources),
           Len(m.sources) <= Cap.sources, Len(m.sessions) <= Cap.sessions
    PROVE  ShedBookkeeping(m, p) = m
<1> DEFINE y == ShedBookkeeping(m, p)
<1>1. /\ Cap.sources \in Nat /\ Cap.sessions \in Nat
      /\ m.sources \in Seq(Nat) /\ m.sessions \in Seq(Nat)
  BY DocumentAssumption, FieldsOf
<1>2. SessionsLeft(m) = m.sessions
  BY <1>1, LastOfIs DEF SessionsLeft
<1>3. FreeSources(m, p) \in Seq(Nat) /\ Len(FreeSources(m, p)) <= Len(m.sources)
  BY <1>1, WithinDraws DEF FreeSources
<1>4. SourcesLeft(m, p) = FreeSources(m, p)
  <2>1. Len(FreeSources(m, p)) <= Cap.sources
    BY <1>1, <1>3, LenProperties
  <2> QED
    BY <1>1, <1>3, <2>1, LastOfIs DEF SourcesLeft
<1>5. y.sources = FreeSources(m, p) \o OwnSources(m, p) /\ y.sessions = m.sessions
  BY <1>2, <1>4, BooksEnds
<1>6. y.sources = m.sources
  BY <1>5 DEF OwnLast, FreeSources, OwnSources
<1>7. y \in Document /\ ButBooks(y, m)
  BY BooksCut, StagesKeep DEF Lightened
<1> HIDE DEF y
<1>8. y = m
  BY <1>5, <1>6, <1>7, SameStage
<1> QED
  BY <1>8 DEF y

\* Each row is protected, or valid and recent.
Deserved(m, now, p) ==
    \A r \in RowsOf(m) :
        r.id \in ProtectedIds(m, p) \/ (/\ Has(r, "still_valid") /\ r.stamp # NoTime
                                        /\ now <= r.stamp + Horizon)

\* Stages 5 and 7 find nothing.
LEMMA NoRowGoes ==
    ASSUME NEW m \in Document, NEW now, NEW p, Deserved(m, now, p)
    PROVE  DropInvalid(m, p) = m /\ DropOld(m, now, p) = m
<1>1. m.decisions \in Seq(Decision) /\ RowsOf(m) = Range(m.decisions)
  BY FieldsOf DEF RowsOf
<1> DEFINE ids == ProtectedIds(m, p)
           S == {r \in Range(m.decisions) : Has(r, "still_valid") \/ r.id \in ids}
           T == {r \in Range(m.decisions) :
                    r.id \in ids \/ (r.stamp # NoTime /\ now <= r.stamp + Horizon)}
<1>2. DropInvalid(m, p).decisions = Within(m.decisions, S)
  BY DEF DropInvalid, KeepRows, Document
<1>3. DropOld(m, now, p).decisions = Within(m.decisions, T)
  BY DEF DropOld, KeepRows, Document
<1>4. Range(m.decisions) \subseteq S
  BY <1>1 DEF Deserved
<1>5. Range(m.decisions) \subseteq T
  BY <1>1 DEF Deserved
<1> HIDE DEF ids, S, T
<1>6. DropInvalid(m, p).decisions = m.decisions
  BY <1>1, <1>2, <1>4, WithinDraws
<1>7. DropOld(m, now, p).decisions = m.decisions
  BY <1>1, <1>3, <1>5, WithinDraws
<1>8. /\ DropInvalid(m, p) \in Document /\ ButRows(DropInvalid(m, p), m)
      /\ DropOld(m, now, p) \in Document /\ ButRows(DropOld(m, now, p), m)
  BY DropsLighten, StagesKeep DEF Lightened
<1> QED
  BY <1>6, <1>7, <1>8, SameStage

\* The file touched last is first.
Descending(s) == \A a, b \in 1 .. Len(s) : a < b => s[b].touched <= s[a].touched

\* Stage 6 finds nothing.
LEMMA NoFileGoes ==
    ASSUME NEW m \in Document, ~Over(m), Descending(m.files), Len(m.files) <= Cap.files
    PROVE  ShedFiles(m) = m
<1> DEFINE s == m.files
<1>1. s \in Seq(FileRecord) /\ Cap.files \in Nat /\ DOMAIN s = 1 .. Len(s)
  BY FieldsOf, DocumentAssumption, LenProperties
<1>2. \A i, j \in DOMAIN s : i < j => <<j, i>> \notin LaterPlaces(s)
  <2> SUFFICES ASSUME NEW i \in DOMAIN s, NEW j \in DOMAIN s, i < j,
                      <<j, i>> \in LaterPlaces(s)
               PROVE  FALSE
    OBVIOUS
  <2>1. s[j].touched > s[i].touched
    BY DEF LaterPlaces
  <2>2. s[i].touched \in Nat /\ s[j].touched \in Nat
    <3>1. s[i] \in FileRecord /\ s[j] \in FileRecord
      BY <1>1, ElementOfSeq
    <3> QED
      BY <3>1 DEF FileRecord
  <2>3. s[j].touched <= s[i].touched
    BY <1>1 DEF Descending
  <2> QED
    BY <2>1, <2>2, <2>3
<1>3. NewestFirst(s) = s
  BY <1>1, <1>2, NewestFirstSorts DEF SortedBy
<1>4. FilesLeft(m) = s
  BY <1>1, <1>3, FirstOfIs DEF FilesLeft
<1>5. ShedFiles(m).files = m.files
  BY <1>4, FilesEnds
<1> QED
  BY <1>5, FilesCut, StagesKeep, SameStage DEF Lightened

\* No text is longer than the detail, and no list than its limit.
Brief(m) ==
    /\ \A r \in RowsOf(m) : r.text <= Cap.detail
    /\ \A f \in Range(m.files) : f.reason <= Cap.detail
    /\ \A t \in Range(m.blockers) \cup Range(m.steps) : t <= Cap.detail
    /\ Len(m.blockers) <= Cap.entries /\ Len(m.steps) <= Cap.entries
    /\ m.task.text <= Cap.detail

\* A list of brief texts stays.
LEMMA BriefList ==
    ASSUME NEW s \in Seq(Nat), Len(s) <= Cap.entries, \A t \in Range(s) : t <= Cap.detail
    PROVE  Mapped(LastOf(s, Cap.entries), Short) = s
<1>1. Cap.entries \in Nat
  BY DocumentAssumption
<1>2. LastOf(s, Cap.entries) = s
  BY <1>1, LastOfIs
<1>3. s = [i \in DOMAIN s |-> s[i]]
  BY LenProperties
<1>4. ASSUME NEW i \in DOMAIN s PROVE Short(s[i]) = s[i]
  <2>1. s[i] \in Nat /\ s[i] \in Range(s)
    BY ElementOfSeq, LenProperties DEF Range
  <2>2. s[i] <= Cap.detail
    BY <2>1
  <2> QED
    BY <2>1, <2>2, ShortIs
<1>5. Mapped(s, Short) = [i \in DOMAIN s |-> Short(s[i])]
  BY DEF Mapped
<1> QED
  BY <1>2, <1>3, <1>4, <1>5

\* Stage 8 finds nothing.
LEMMA NothingShortened ==
    ASSUME NEW m \in Document, Brief(m)
    PROVE  Shorten(m) = m
<1> DEFINE y == Shorten(m)
<1>1. Shortened(y, m) /\ y \in Document
  BY ShortenIs DEF Lightened
<1> HIDE DEF y
<1>2. /\ m.decisions \in Seq(Decision) /\ m.files \in Seq(FileRecord)
      /\ y.decisions \in Seq(Decision) /\ y.files \in Seq(FileRecord)
      /\ m.blockers \in Seq(Nat) /\ m.steps \in Seq(Nat)
      /\ m.task \in [text : Nat, by : Authors \cup {"none"}]
      /\ RowsOf(m) = Range(m.decisions)
  BY <1>1, FieldsOf DEF RowsOf
<1>3. y.decisions = m.decisions
  <2>1. ASSUME NEW i \in DOMAIN m.decisions PROVE y.decisions[i] = m.decisions[i]
    <3>1. m.decisions[i] \in Decision /\ m.decisions[i] \in RowsOf(m)
      BY <1>2, ElementOfSeq, LenProperties DEF Range
    <3>2. m.decisions[i].text \in Nat /\ m.decisions[i].text <= Cap.detail
      BY <3>1 DEF Brief, Decision
    <3>3. Short(m.decisions[i].text) = m.decisions[i].text
      BY <3>2, ShortIs
    <3>4. ShortRow(m.decisions[i]) = m.decisions[i]
      BY <3>1, <3>3 DEF ShortRow, Decision
    <3> QED
      BY <1>1, <3>4 DEF Shortened
  <2>2. /\ y.decisions = [i \in DOMAIN y.decisions |-> y.decisions[i]]
        /\ m.decisions = [i \in DOMAIN m.decisions |-> m.decisions[i]]
    BY <1>2, LenProperties
  <2> QED
    BY <1>1, <2>1, <2>2 DEF Shortened
<1>4. y.files = m.files
  <2>1. ASSUME NEW i \in DOMAIN m.files PROVE y.files[i] = m.files[i]
    <3>1. m.files[i] \in FileRecord /\ m.files[i] \in Range(m.files)
      BY <1>2, ElementOfSeq, LenProperties DEF Range
    <3>2. m.files[i].reason \in Nat /\ m.files[i].reason <= Cap.detail
      BY <3>1 DEF Brief, FileRecord
    <3>3. Short(m.files[i].reason) = m.files[i].reason
      BY <3>2, ShortIs
    <3>4. ShortFile(m.files[i]) = m.files[i]
      BY <3>1, <3>3 DEF ShortFile, FileRecord
    <3> QED
      BY <1>1, <3>4 DEF Shortened
  <2>2. /\ y.files = [i \in DOMAIN y.files |-> y.files[i]]
        /\ m.files = [i \in DOMAIN m.files |-> m.files[i]]
    BY <1>2, LenProperties
  <2> QED
    BY <1>1, <2>1, <2>2 DEF Shortened
<1>5. y.blockers = m.blockers /\ y.steps = m.steps
  <2>1. y.blockers = Mapped(LastOf(m.blockers, Cap.entries), Short)
    BY <1>1 DEF Shortened
  <2>2. y.steps = Mapped(LastOf(m.steps, Cap.entries), Short)
    BY <1>1 DEF Shortened
  <2>3. Mapped(LastOf(m.blockers, Cap.entries), Short) = m.blockers
    BY <1>2, BriefList DEF Brief
  <2>4. Mapped(LastOf(m.steps, Cap.entries), Short) = m.steps
    BY <1>2, BriefList DEF Brief
  <2> QED
    BY <2>1, <2>2, <2>3, <2>4
<1>6. y.task = m.task
  <2>1. m.task.text \in Nat /\ m.task.text <= Cap.detail
    BY <1>2 DEF Brief
  <2>2. Short(m.task.text) = m.task.text
    BY <2>1, ShortIs
  <2>3. y.task = [m.task EXCEPT !.text = Short(m.task.text)]
    BY <1>1 DEF Shortened
  <2> QED
    BY <1>2, <2>2, <2>3
<1>7. ButAudits(y, m) /\ y.audits = m.audits
  BY <1>1, <1>3, <1>4, <1>5, <1>6 DEF Shortened, ButAudits
<1>8. y = m
  BY <1>1, <1>7, SameDocument
<1> QED
  BY <1>8 DEF y

\* A document that the budget has nothing to do in, if it is small enough.
AtRest(m, now, p) ==
    /\ InTime(m, now) /\ Arranged(m.audits)
    /\ Len(m.cache) <= Cap.cache /\ Len(m.health) <= Cap.health
    /\ Len(m.sessions) <= Cap.sessions /\ Len(m.sources) <= Cap.sources
    /\ OwnLast(m.sources, p.sources)
    /\ Deserved(m, now, p)
    /\ Descending(m.files) /\ Len(m.files) <= Cap.files
    /\ Brief(m)

\* The budget leaves such a document as it is.
LEMMA NothingGoes ==
    ASSUME NEW m \in Document, NEW now, NEW p, ~Over(m), AtRest(m, now, p)
    PROVE  Fitted(m, now, p) = m
<1>1. ExpireAudits(m, now) = m /\ ShedAudits(m) = m
  BY NothingExpires, NoAuditGoes DEF AtRest
<1>2. ShedCache(m) = m /\ ShedHealth(m) = m
  BY NoCacheGoes DEF AtRest
<1>3. ShedBookkeeping(m, p) = m
  BY NoBookGoes DEF AtRest
<1>4. DropInvalid(m, p) = m /\ DropOld(m, now, p) = m
  BY NoRowGoes DEF AtRest
<1>5. ShedFiles(m) = m
  BY NoFileGoes DEF AtRest
<1>6. Shorten(m) = m
  BY NothingShortened DEF AtRest
<1>7. Tidied(m, now, p) = m
  BY <1>1, <1>2, <1>3, <1>4, <1>5, <1>6 DEF Tidied
<1>8. Pressed(m, p) = m
  BY PressedLightens
<1> QED
  BY <1>7, <1>8 DEF Fitted

\* What stages 0 and 1 leave of the audits.
LEMMA FittedAudits ==
    ASSUME NEW m \in Document, NEW now, NEW p
    PROVE  InTime(Fitted(m, now, p), now) /\ Arranged(Fitted(m, now, p).audits)
<1> DEFINE e == ExpireAudits(m, now)
           f == Fitted(m, now, p)
           w == Waiting(e)
<1>1. f.audits = ShedAudits(e).audits
  BY FittedLightens
<1>2. /\ e \in Document /\ DOMAIN e.audits = DOMAIN m.audits
      /\ \A i \in DOMAIN m.audits : e.audits[i] = Expired(m.audits[i], now)
  BY ExpireIs DEF Lightened
<1> HIDE DEF e, f
<1>3. PICK t \in Seq(AuditRecord) :
          /\ ShedAudits(e).audits = t \o w
          /\ \E n \in 0 .. Len(AuditsLeft(e)) : t = LastOf(AuditsLeft(e), n)
  BY <1>2, AuditsEnds
<1>4. PICK n \in 0 .. Len(AuditsLeft(e)) : t = LastOf(AuditsLeft(e), n)
  BY <1>3
<1>5. /\ AuditsLeft(e) \in Seq(AuditRecord) /\ Done(e) \in Seq(AuditRecord)
      /\ w \in Seq(AuditRecord) /\ Range(w) = {a \in Range(e.audits) : IsPending(a)}
      /\ e.audits \in Seq(AuditRecord) /\ Cap.audits \in Nat
  BY <1>2, AuditsCut, FieldsOf, DocumentAssumption
<1>6. Len(t) <= Len(AuditsLeft(e)) /\ Range(t) \subseteq Range(AuditsLeft(e))
  BY <1>4, <1>5, CutHas
<1>7. Len(AuditsLeft(e)) <= Cap.audits /\ Range(AuditsLeft(e)) \subseteq Range(Done(e))
  BY <1>5, LimitHas DEF AuditsLeft
<1>8. Len(t) <= Cap.audits
  <2>1. Len(t) \in Nat /\ Len(AuditsLeft(e)) \in Nat
    BY <1>3, <1>5, LenProperties
  <2> QED
    BY <1>5, <1>6, <1>7, <2>1
<1>9. \A a \in Range(Done(e)) : IsCompleted(a)
  <2> DEFINE S == {a \in Range(e.audits) : IsCompleted(a)}
  <2>1. Done(e) = Within(e.audits, S)
    BY DEF Done, Those
  <2>2. \A a \in S : IsCompleted(a)
    OBVIOUS
  <2> HIDE DEF S
  <2> QED
    BY <1>5, <2>1, <2>2, WithinDraws
<1>10. \A a \in Range(t) : IsCompleted(a)
  BY <1>6, <1>7, <1>9
<1>11. \A a \in Range(w) : IsPending(a)
  BY <1>5
<1>12. Arranged(f.audits)
  BY <1>1, <1>3, <1>5, <1>8, <1>10, <1>11 DEF Arranged
<1>13. InTime(f, now)
  <2> SUFFICES ASSUME NEW a \in Range(f.audits), IsPending(a), now - a.stamp > AuditTimeout
               PROVE  FALSE
    BY DEF InTime
  <2>1. Range(f.audits) = Range(t) \cup Range(w)
    BY <1>1, <1>3, <1>5, RangeConcatenation
  <2>2. a \notin Range(t)
    BY <1>10 DEF IsCompleted, IsPending
  <2>3. a \in Range(e.audits)
    BY <1>5, <2>1, <2>2
  <2>4. PICK i \in DOMAIN m.audits : a = Expired(m.audits[i], now)
    BY <1>2, <2>3 DEF Range
  <2>5. m.audits[i] \in AuditRecord
    BY FieldsOf, ElementOfSeq, LenProperties
  <2> QED
    BY <2>4, <2>5 DEF Expired, IsPending, AuditRecord
<1> QED
  BY <1>12, <1>13 DEF f

\* What stage 4 leaves has the transaction's own completions last.
LEMMA FittedSources ==
    ASSUME NEW m \in Document, NEW now, NEW p
    PROVE  OwnLast(Fitted(m, now, p).sources, p.sources)
<1> DEFINE f == Fitted(m, now, p)
           own == OwnSources(m, p)
<1>1. f.sources = Booked(m, now, p).sources
  BY FittedLightens
<1>2. PICK n \in 0 .. Len(FreeSources(m, p)) :
          Booked(m, now, p).sources = LastOf(FreeSources(m, p), n) \o own
  BY BookedSources
<1> DEFINE t == LastOf(FreeSources(m, p), n)
<1>3. m.sources \in Seq(Nat)
  BY FieldsOf
<1>4. /\ FreeSources(m, p) \in Seq(Nat)
      /\ Range(FreeSources(m, p)) = Range(m.sources) \cap (Range(m.sources) \ p.sources)
  BY <1>3, WithinDraws DEF FreeSources
<1>5. own \in Seq(Nat) /\ Range(own) = Range(m.sources) \cap p.sources
  BY <1>3, WithinDraws DEF OwnSources
<1>6. t \in Seq(Nat) /\ Range(t) \subseteq Range(FreeSources(m, p))
  BY <1>4, CutHas
<1>7. f.sources = t \o own
  BY <1>1, <1>2
<1> HIDE DEF f, own, t
<1>8. Range(own) \subseteq p.sources /\ Range(t) \cap p.sources = {}
  BY <1>4, <1>5, <1>6
<1>9. OwnLast(t \o own, p.sources)
  BY <1>5, <1>6, <1>8, OwnAgain
<1> QED
  BY <1>7, <1>9 DEF f

\* What is left of the rows deserves to stay.
LEMMA FittedDeserved ==
    ASSUME NEW m \in Document, Unique(m.decisions), NEW now, NEW p
    PROVE  Deserved(Fitted(m, now, p), now, p)
<1> DEFINE f == Fitted(m, now, p)
<1>1. /\ HasRows(m) /\ m.decisions \in Seq(Decision)
      /\ f \in Document /\ RowsOf(m) = Range(m.decisions) /\ RowsOf(f) = Range(f.decisions)
  BY FieldsOf, FittedLightens DEF Lightened, RowsOf
<1>2. \A r \in RowsOf(f) : Lasting(r, ProtectedIds(m, p), now)
  BY <1>1, FittedReduces
<1>3. {ShortRow(x) : x \in MustStay(m, p)} \subseteq RowsOf(f)
  BY FittedRows
<1> HIDE DEF f
<1>4. ProtectedIds(m, p) \subseteq ProtectedIds(f, p)
  <2> SUFFICES ASSUME NEW id \in ProtectedIds(m, p), id \notin p.rows
               PROVE  id \in ProtectedIds(f, p)
    BY DEF ProtectedIds
  <2>1. PICK x \in Range(m.decisions) :
            /\ x.id = id
            /\ Has(x, "foundational") \/ Has(x, "human_conflict_quarantined")
    BY DEF ProtectedIds
  <2>2. x \in MustStay(m, p)
    BY <1>1, <2>1 DEF MustStay, Has
  <2>3. x \in Decision
    BY <1>1, <2>1, RangeOfSeq
  <2>4. ShortRow(x).id = id /\ ShortRow(x).flags = x.flags
    BY <2>1, <2>3, ShortRowIs
  <2>5. ShortRow(x) \in Range(f.decisions)
    BY <1>1, <1>3, <2>2
  <2> QED
    BY <2>1, <2>4, <2>5 DEF ProtectedIds, Has
<1>5. Deserved(f, now, p)
  BY <1>2, <1>4 DEF Deserved, Lasting
<1> QED
  BY <1>5 DEF f

\* The files that stage 6 leaves are in its order.
LEMMA FiledDescending ==
    ASSUME NEW m \in Document, NEW now, NEW p
    PROVE  Descending(Filed(m, now, p).files)
<1> DEFINE l == Lawful(m, now, p)
           s == NewestFirst(l.files)
           u == Filed(m, now, p).files
           n == Cap.files
<1>1. l \in Document /\ n \in Nat
  BY TidyingIs, DocumentAssumption
<1>2. PICK k \in 0 .. Len(FilesLeft(l)) : u = FirstOf(FilesLeft(l), k)
  BY <1>1, FilesEnds DEF Filed
<1>3. l.files \in Seq(FileRecord)
  BY <1>1, FieldsOf
<1>4. s \in Seq(FileRecord) /\ \A a, b \in 1 .. Len(s) : a < b => s[b].touched <= s[a].touched
  BY <1>3, NewestFirstSorts, NewestOrder
<1>5. k \in Nat
  BY <1>1, <1>2, FilesCut, LenProperties
<1>6. FilesLeft(l) = FirstOf(s, n)
  BY DEF FilesLeft
<1> HIDE DEF l, s, u, n
<1>7. IsBeginning(FirstOf(FirstOf(s, n), k), s)
  BY <1>1, <1>4, <1>5, FirstOfTwice
<1>8. PICK c \in 0 .. Len(s) : u = FirstOf(s, c)
  BY <1>2, <1>6, <1>7 DEF IsBeginning
<1>9. c \in Nat /\ c <= Len(s) /\ Len(s) \in Nat
  BY <1>4, LenProperties
<1>10. Len(u) <= Len(s) /\ Len(u) \in Nat /\ \A i \in 1 .. Len(u) : u[i] = s[i]
  <2>1. /\ Len(FirstOf(s, c)) = c
        /\ \A i \in 1 .. Len(FirstOf(s, c)) : FirstOf(s, c)[i] = s[i]
    <3>1. Len(FirstOf(s, c)) = c
      BY ONLY <1>4, <1>8, CutHas
    <3>2. \A i \in 1 .. Len(FirstOf(s, c)) : FirstOf(s, c)[i] = s[i]
      BY ONLY <1>4, <1>9, FirstOfIs
    <3> QED
      BY <3>1, <3>2
  <2> QED
    BY <1>8, <1>9, <2>1
<1>11. Descending(u)
  <2> SUFFICES ASSUME NEW a \in 1 .. Len(u), NEW b \in 1 .. Len(u), a < b
               PROVE  u[b].touched <= u[a].touched
    BY DEF Descending
  <2>1. a \in 1 .. Len(s) /\ b \in 1 .. Len(s) /\ u[a] = s[a] /\ u[b] = s[b]
    BY <1>9, <1>10
  <2> QED
    BY <1>4, <2>1
<1> QED
  BY <1>11 DEF u

\* So are those that are left in the end: all of them, or none.
LEMMA FittedDescending ==
    ASSUME NEW m \in Document, NEW now, NEW p
    PROVE  Descending(Fitted(m, now, p).files) /\ Len(Fitted(m, now, p).files) <= Cap.files
<1> DEFINE f == Fitted(m, now, p)
           h == Tidied(m, now, p)
           g == Recent(m, now, p)
           x == Fewer(m, now, p)
<1>1. /\ f \in Document /\ h \in Document /\ g \in Document
      /\ Shortened(h, g) /\ g.files = Filed(m, now, p).files
  BY FittedLightens, TidyingIs, TidiedParts DEF Lightened
<1>2. Len(f.files) <= Len(h.files) /\ Len(h.files) <= Cap.files
  BY FittedFiles, TidiedFiles
<1>3. ~Over(x) => f.files = h.files
  BY PressedParts
<1>4. Over(x) => h.files = <<>>
  <2>1. Over(x) => Over(h)
    BY OverAll
  <2> QED
    BY <2>1, TidiedBare DEF Bare
<1>5. Descending(g.files)
  BY <1>1, FiledDescending
<1> HIDE DEF f, h, g, x
<1>6. /\ f.files \in Seq(FileRecord) /\ h.files \in Seq(FileRecord)
      /\ g.files \in Seq(FileRecord)
      /\ Len(f.files) \in Nat /\ Len(h.files) \in Nat /\ Cap.files \in Nat
      /\ DOMAIN h.files = 1 .. Len(h.files) /\ DOMAIN g.files = 1 .. Len(g.files)
      /\ Len(g.files) \in Nat
  BY <1>1, FieldsOf, LenProperties, DocumentAssumption
<1>7. Len(f.files) <= Cap.files
  BY <1>2, <1>6
<1>8. DOMAIN h.files = DOMAIN g.files
      /\ \A i \in DOMAIN g.files : h.files[i].touched = g.files[i].touched
  <2>1. ASSUME NEW i \in DOMAIN g.files PROVE h.files[i].touched = g.files[i].touched
    <3>1. g.files[i] \in FileRecord
      BY <1>6, ElementOfSeq
    <3> QED
      BY <1>1, <3>1, ShortFileIs DEF Shortened
  <2> QED
    BY <1>1, <2>1 DEF Shortened
<1>9. Descending(h.files)
  <2> SUFFICES ASSUME NEW a \in 1 .. Len(h.files), NEW b \in 1 .. Len(h.files), a < b
               PROVE  h.files[b].touched <= h.files[a].touched
    BY DEF Descending
  <2>1. Len(h.files) = Len(g.files)
    BY <1>6, <1>8
  <2>2. a \in 1 .. Len(g.files) /\ b \in 1 .. Len(g.files)
    BY <2>1
  <2>3. g.files[b].touched <= g.files[a].touched
    BY <1>5, <2>2 DEF Descending
  <2>4. h.files[a].touched = g.files[a].touched /\ h.files[b].touched = g.files[b].touched
    BY <1>6, <1>8, <2>2
  <2> QED
    BY <2>3, <2>4
<1>10. Descending(f.files)
  <2>1. CASE ~Over(x)
    BY <1>3, <1>9, <2>1
  <2>2. CASE Over(x)
    <3>1. Len(f.files) = 0
      BY <1>2, <1>4, <1>6, <2>2
    <3> QED
      BY <3>1 DEF Descending
  <2> QED
    BY <2>1, <2>2
<1> QED
  BY <1>7, <1>10 DEF f

\* The result is brief.
LEMMA FittedBrief ==
    ASSUME NEW m \in Document, Unique(m.decisions), NEW now, NEW p
    PROVE  Brief(Fitted(m, now, p))
<1> DEFINE f == Fitted(m, now, p)
<1>1. \A r \in RowsOf(f) : r.text <= Cap.detail
  <2>1. /\ RowsOf(f) \subseteq RowsOf(Tidied(m, now, p))
        /\ RowsOf(Tidied(m, now, p)) = {ShortRow(r) : r \in RowsOf(Recent(m, now, p))}
    BY TidiedRows, FittedRows
  <2>2. RowsOf(Recent(m, now, p)) \subseteq Decision
    <3>1. Recent(m, now, p) \in Document
      BY TidyingIs
    <3>2. Recent(m, now, p).decisions \in Seq(Decision)
      BY <3>1, FieldsOf
    <3> QED
      BY <3>2, RangeOfSeq DEF RowsOf
  <2> SUFFICES ASSUME NEW r \in RowsOf(f) PROVE r.text <= Cap.detail
    OBVIOUS
  <2>3. PICK q \in RowsOf(Recent(m, now, p)) : r = ShortRow(q)
    BY <2>1
  <2>4. q \in Decision /\ q.text \in Nat
    BY <2>2 DEF Decision
  <2>5. r.text = Short(q.text)
    BY <2>3, <2>4, ShortRowIs
  <2> QED
    BY <2>4, <2>5, ShortIs
<1>2. \A x \in Range(f.files) : x.reason <= Cap.detail
  <2>1. /\ Range(f.files) \subseteq Range(Tidied(m, now, p).files)
        /\ Range(Tidied(m, now, p).files) =
              {ShortFile(x) : x \in Range(Filed(m, now, p).files)}
    BY TidiedFiles, FittedFiles
  <2>2. Range(Filed(m, now, p).files) \subseteq FileRecord
    <3>1. Filed(m, now, p) \in Document
      BY TidyingIs
    <3>2. Filed(m, now, p).files \in Seq(FileRecord)
      BY <3>1, FieldsOf
    <3> QED
      BY <3>2, RangeOfSeq
  <2> SUFFICES ASSUME NEW x \in Range(f.files) PROVE x.reason <= Cap.detail
    OBVIOUS
  <2>3. PICK q \in Range(Filed(m, now, p).files) : x = ShortFile(q)
    BY <2>1
  <2>4. q \in FileRecord /\ q.reason \in Nat
    BY <2>2 DEF FileRecord
  <2>5. x.reason = Short(q.reason)
    BY <2>3, <2>4, ShortFileIs
  <2> QED
    BY <2>4, <2>5, ShortIs
<1>3. /\ Len(f.blockers) <= Cap.entries /\ \A i \in Range(f.blockers) : i <= Cap.detail
      /\ Len(f.steps) <= Cap.entries /\ \A i \in Range(f.steps) : i <= Cap.detail
      /\ f.task.text <= Cap.detail
  BY BriefTexts
<1> HIDE DEF f
<1>4. Brief(f)
  BY <1>1, <1>2, <1>3 DEF Brief
<1> QED
  BY <1>4 DEF f

\* The budget has nothing to do in its own result.
LEMMA FittedRests ==
    ASSUME NEW m, NEW n, Ready(m, n), NEW now, NEW p, OwnLast(m.sources, p.sources)
    PROVE  AtRest(Fitted(m, now, p), now, p)
<1> DEFINE f == Fitted(m, now, p)
<1>1. m \in Document /\ Unique(m.decisions)
  BY DEF Ready
<1>2. InTime(f, now) /\ Arranged(f.audits)
  BY <1>1, FittedAudits
<1>3. /\ Len(f.cache) <= Cap.cache /\ Len(f.health) <= Cap.health
      /\ Len(f.sessions) <= Cap.sessions /\ Len(f.sources) <= Cap.sources
  BY LegalBooks
<1>4. OwnLast(f.sources, p.sources)
  BY <1>1, FittedSources
<1>5. Deserved(f, now, p) /\ Brief(f)
  BY <1>1, FittedDeserved, FittedBrief
<1>6. Descending(f.files) /\ Len(f.files) <= Cap.files
  BY <1>1, FittedDescending
<1> HIDE DEF f
<1>7. AtRest(f, now, p)
  BY <1>2, <1>3, <1>4, <1>5, <1>6 DEF AtRest
<1> QED
  BY <1>7 DEF f

\* Fitting twice is fitting once.
LEMMA FittedTwice ==
    ASSUME NEW m, NEW n, Ready(m, n), NEW now, NEW p, OwnLast(m.sources, p.sources)
    PROVE  ~Over(Fitted(m, now, p)) =>
               Fitted(Fitted(m, now, p), now, p) = Fitted(m, now, p)
<1>1. Fitted(m, now, p) \in Document
  BY FittedIsDocument
<1> QED
  BY <1>1, FittedRests, NothingGoes

\* Reading quarantines nothing of a cache that has entries of this contract only.
LEMMA CacheStays ==
    ASSUME NEW m \in Document, \A e \in Range(m.cache) : e.kind = "current"
    PROVE  QuarantineStaleCache(m) = m
<1> DEFINE S == {e \in Range(m.cache) : e.kind # "old"}
<1>1. m.cache \in Seq(CacheRecord)
  BY FieldsOf
<1>2. Range(m.cache) \subseteq S
  OBVIOUS
<1> HIDE DEF S
<1>3. Within(m.cache, S) = m.cache
  BY <1>1, <1>2, WithinDraws
<1>4. Len(m.cache) - Len(Within(m.cache, S)) = 0
  BY <1>1, <1>3, LenProperties
<1>5. QuarantineStaleCache(m) =
          IF Len(m.cache) - Len(Within(m.cache, S)) = 0 THEN m
          ELSE [Counted(m, Len(m.cache) - Len(Within(m.cache, S)))
                   EXCEPT !.cache = Within(m.cache, S)]
  BY DEF QuarantineStaleCache, KeepCache, Those, S
<1> QED
  BY <1>4, <1>5

\* Nor does it take back a claim of the session.
LEMMA StateStays ==
    ASSUME NEW m \in Document, \A f \in Range(m.files) : f.by \in {"heuristic", "legacy"},
           m.task.by \in {"none", "heuristic", "legacy"}
    PROVE  RepairState(m) = m
<1> DEFINE files == Mapped(m.files, LAMBDA f :
                        IF FromLLM(f.by) THEN [f EXCEPT !.by = "legacy"] ELSE f)
           task == IF FromLLM(m.task.by) THEN [m.task EXCEPT !.by = "legacy"] ELSE m.task
<1>1. m.files \in Seq(FileRecord)
  BY FieldsOf
<1>2. files = m.files
  <2>1. ASSUME NEW i \in DOMAIN m.files
        PROVE  (IF FromLLM(m.files[i].by) THEN [m.files[i] EXCEPT !.by = "legacy"]
                ELSE m.files[i]) = m.files[i]
    <3>1. m.files[i].by \in {"heuristic", "legacy"}
      BY DEF Range
    <3> QED
      BY <3>1 DEF FromLLM
  <2>2. m.files = [i \in DOMAIN m.files |-> m.files[i]]
    BY <1>1, LenProperties
  <2>3. files = [i \in DOMAIN m.files |->
                    IF FromLLM(m.files[i].by) THEN [m.files[i] EXCEPT !.by = "legacy"]
                    ELSE m.files[i]]
    BY DEF Mapped
  <2> QED
    BY <2>1, <2>2, <2>3
<1>3. task = m.task
  BY DEF FromLLM
<1>4. RepairState(m) = [m EXCEPT !.files = files, !.task = task]
  BY DEF RepairState
<1> HIDE DEF files, task
<1>5. RepairState(m) = [m EXCEPT !.files = m.files, !.task = m.task]
  BY <1>2, <1>3, <1>4
<1> QED
  BY <1>5 DEF Document

\* Nor does it cut a list.
LEMMA ListsStay ==
    ASSUME NEW m \in Document, Len(m.files) <= Cap.array, Len(m.blockers) <= Cap.array,
           Len(m.steps) <= Cap.array
    PROVE  RepairOversized(m) = m
<1>1. /\ m.files \in Seq(FileRecord) /\ m.blockers \in Seq(Nat) /\ m.steps \in Seq(Nat)
      /\ Cap.array \in Nat /\ Len(m.files) \in Nat
  BY FieldsOf, DocumentAssumption, LenProperties
<1>2. FirstOf(m.blockers, Cap.array) = m.blockers /\ FirstOf(m.steps, Cap.array) = m.steps
  BY <1>1, FirstOfIs
<1>3. ~(Len(m.files) > Cap.array)
  BY <1>1
<1>4. RepairOversized(m) =
          [m EXCEPT !.files = m.files, !.blockers = m.blockers, !.steps = m.steps]
  BY <1>2, <1>3 DEF RepairOversized
<1> QED
  BY <1>4 DEF Document

\* A legal document with a cache of this contract is read as it is.
LEMMA ReadAgain ==
    ASSUME NEW m \in Document, Legal(m), \A e \in Range(m.cache) : e.kind = "current"
    PROVE  Load(m) = m
<1>1. Upgraded(m) = m /\ m.version = CurrentVersion
  BY DEF Upgraded, Legal, CurrentVersion
<1>2. QuarantineStaleCache(m) = m
  BY CacheStays
<1>3. RepairDecisions(m.decisions) = m.decisions
  <2>1. m.decisions \in Seq(Decision)
    BY FieldsOf
  <2> QED
    BY <2>1, LegalStays DEF Legal
<1>4. [m EXCEPT !.decisions = RepairDecisions(m.decisions)] = m
  BY <1>3 DEF Document
<1>5. RepairState(m) = m
  BY StateStays DEF Legal
<1>6. RepairOversized(m) = m
  BY ListsStay DEF Legal
<1>7. Repaired(m) = RepairOversized(RepairState(
          [QuarantineStaleCache(m) EXCEPT !.decisions = RepairDecisions(@)]))
  BY DEF Repaired
<1>8. Repaired(m) = m
  BY <1>2, <1>4, <1>5, <1>6, <1>7
<1> QED
  BY <1>1, <1>8 DEF Load

\* What a commit writes is read unchanged, and a commit of it changes nothing.
LEMMA CommitSettles ==
    ASSUME BInv, Judged, Accepted(pending.verdict)
    PROVE  LET f == pending.verdict.memory IN
           Load(f) = f /\ Fit(f, clock, pending.protection).memory = f
<1> DEFINE m == pending.memory
           p == pending.protection
           f == Fitted(m, clock, p)
<1>1. /\ Ready(m, turns) /\ OwnLast(m.sources, p.sources)
      /\ ~Over(f) /\ pending.verdict.memory = f
  BY JudgedIs DEF Accepted
<1>2. f \in Document /\ Legal(f)
  BY <1>1, FittedIsDocument DEF Accepted
<1>3. \A e \in Range(f.cache) : e.kind = "current"
  BY <1>1, LegalBooks
<1>4. Fitted(f, clock, p) = f
  BY <1>1, FittedTwice
<1> HIDE DEF f, m, p
<1>5. Load(f) = f
  BY <1>2, <1>3, ReadAgain
<1>6. Fit(f, clock, p).memory = f
  BY <1>1, <1>4 DEF Fit
<1> QED
  BY <1>1, <1>5, <1>6 DEF p

\* Every commit settles the document: what is written is read as it was
\* written, without a repair, and fitting it again at that time changes
\* nothing (migrate.ts and budget.ts agree on what they leave).
THEOREM SettledHolds == Spec => Settled
<1>1. BInv /\ [Next]_vars =>
          [file' # file =>
              /\ Load(file') = file'
              /\ Fit(file', clock, pending.protection).memory = file']_vars
  <2> SUFFICES ASSUME BInv, Next, file' # file
               PROVE  /\ Load(file') = file'
                      /\ Fit(file', clock, pending.protection).memory = file'
    BY DEF vars
  <2>1. Commit
    BY DEF Next, Observe, Learn, PersistAuditGuard, PersistTerminal, PersistModelHealth,
           RecallPromote, Show, Confirm, Begin, LookAway, FitToBudget, Refuse, Tick
  <2>2. Judged /\ Accepted(pending.verdict) /\ file' = pending.verdict.memory
    BY <2>1 DEF Commit
  <2> QED
    BY <2>2, CommitSettles
<1> QED
  BY <1>1, CandidatesReady, PTL DEF Spec, Settled
=============================================================================
