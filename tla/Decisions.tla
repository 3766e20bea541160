----------------------------- MODULE Decisions -----------------------------
(***************************************************************************)
(* The decisions of a project's memory and who may change them: which row  *)
(* is the authority of its topic (memory/decision-authority.ts), how the   *)
(* heuristic and the LLM extraction merge what they claim                  *)
(* (memory/merge.ts), what a human reviews, promotes and supersedes        *)
(* (memory/decision-review.ts, cli.ts) and which rows the budget drops in  *)
(* the same transaction (memory/budget.ts).                                *)
(*                                                                         *)
(* Every change is one transaction of mutateMemory (module MemoryStore),   *)
(* so transactions do not overlap; a human looks at the memory before the  *)
(* transaction and confirms in it, so anything may be committed between.   *)
(* The loop of mergeDecisions over the incoming claims is a step for each  *)
(* claim, from BeginMerge to CommitMerge.                                  *)
(***************************************************************************)
EXTENDS Naturals, FiniteSets

CONSTANTS
    Id,          \* decision ids: naturals, which order as ids compare
    Topic,       \* normalized topics
    Text,        \* normalized decision texts
    Human,       \* interactive CLI sessions
    NoId,
    InitialRows, \* the memories that behaviours start from
    Rooms,       \* how many rows the budget may leave room for
    Horizon,     \* ticks in the 30 days after which a row is old
    MaxClock     \* bound: ticks of the clock

ASSUME DecisionsAssumption ==
    /\ Id \subseteq Nat
    /\ NoId \notin Id
    /\ Rooms \subseteq Nat
    /\ Horizon \in Nat
    /\ MaxClock \in Nat

VARIABLES
    rows,    \* the decisions of the committed memory
    issued,  \* every id ever given out (randomUUID does not repeat itself)
    clock,
    txn,     \* the merge that holds the lock: "none", "heuristic" or "llm"
    draft,   \* the result that mergeDecisions has built so far
    prior,   \* ids of the rows valid in the memory the merge started from
    review   \* what each human is looking at

mergeVars == <<txn, draft, prior>>
vars == <<rows, issued, clock, mergeVars, review>>

Flag == {"still_valid", "foundational", "foundational_requested",
         "human_review", "human_conflict_quarantined"}
Confidence == {"legacy", "heuristic", "llm-corroborated", "human-reviewed"}

\* The extractor of a row always goes with its confidence.
Decision == [topic : Topic, decision : Text, timestamp : Nat,
             flags : SUBSET Flag, confidence : Confidence,
             conflicts_with : SUBSET Id, superseded_by : Id \cup {NoId},
             derived_from : Id \cup {NoId}]

\* An incoming decision.  A heuristic one may be marked foundational, one of
\* the LLM has its evidence resolved or not.
Mark(origin) == IF origin = "llm" THEN "evidenced" ELSE "foundational"
Claim(origin) == [topic : Topic, decision : Text, marks : SUBSET {Mark(origin)}]

Look == [kind : {"none", "promote", "supersede"}, target : Id \cup {NoId},
         candidate : Id \cup {NoId}, shown : Text \cup {NoId}]
NoLook == [kind |-> "none", target |-> NoId, candidate |-> NoId, shown |-> NoId]

IsMemory(m) == /\ m = [i \in DOMAIN m |-> m[i]]
               /\ DOMAIN m \subseteq Id /\ IsFiniteSet(DOMAIN m)
               /\ \A i \in DOMAIN m : m[i] \in Decision
None == [i \in {} |-> NoId]

\* The trust flags of a row that claims a human's trust are complete, and no
\* row supersedes or contradicts itself: schema.ts accepts no other memory.
HumanTrust(r) == /\ r.confidence = "human-reviewed"
                 /\ {"foundational", "human_review"} \subseteq r.flags

SchemaSound(m) == \A i \in DOMAIN m :
    /\ (m[i].confidence = "human-reviewed" \/ "human_review" \in m[i].flags)
          => HumanTrust(m[i])
    /\ i # m[i].superseded_by /\ i \notin m[i].conflicts_with

ASSUME InitialRowsAssumption ==
    \A m \in InitialRows : IsMemory(m) /\ SchemaSound(m)

-----------------------------------------------------------------------------
(* decision-authority.ts                                                   *)

Valid(r) == "still_valid" \in r.flags

TrustedHuman(r) == Valid(r) /\ HumanTrust(r)

TrustRank(r) == CASE r.confidence = "human-reviewed"   -> 4
                  [] r.confidence = "llm-corroborated" -> 3
                  [] r.confidence = "heuristic"        -> 2
                  [] OTHER                             -> 1

RowsOf(m, t) == {i \in DOMAIN m : m[i].topic = t}
ValidRows(m, t) == {i \in RowsOf(m, t) : Valid(m[i])}
Humans(m, t) == {i \in ValidRows(m, t) : TrustedHuman(m[i])}
HumanRows(m, t) == {i \in RowsOf(m, t) : HumanTrust(m[i])}

Before(m, i, j) == \/ m[i].timestamp < m[j].timestamp
                   \/ m[i].timestamp = m[j].timestamp /\ i < j

Oldest(m, S) == CHOOSE i \in S : \A j \in S \ {i} : Before(m, i, j)

\* The newest, then the most trusted, then the smallest id.
Outranks(m, i, j) ==
    \/ m[i].timestamp > m[j].timestamp
    \/ /\ m[i].timestamp = m[j].timestamp
       /\ \/ TrustRank(m[i]) > TrustRank(m[j])
          \/ TrustRank(m[i]) = TrustRank(m[j]) /\ i < j

Newest(m, S) == CHOOSE i \in S : \A j \in S \ {i} : Outranks(m, i, j)

\* What a row becomes when it loses: to an equivalent or newer row, to a
\* human's, or in a conflict of humans that nobody may decide but a human.
Superseded(r, w) == [r EXCEPT !.flags = @ \ {"still_valid"}, !.superseded_by = w]

Contested(r, humans) ==
    [r EXCEPT !.flags = @ \ {"still_valid", "foundational"},
              !.conflicts_with = humans]

Quarantined(r, others) ==
    [r EXCEPT !.flags = (@ \ {"still_valid"}) \cup {"human_conflict_quarantined"},
              !.conflicts_with = others]

SameText(m, S) == \A i, j \in S : m[i].decision = m[j].decision

Settled(m, t) == Cardinality(ValidRows(m, t)) <= 1
Equivalent(m, t) == ~Settled(m, t) /\ SameText(m, ValidRows(m, t))
HumansConflict(m, t) ==
    ~Settled(m, t) /\ ~Equivalent(m, t) /\ Cardinality(Humans(m, t)) > 1

\* The row the first pass selects, where it selects one.
Winner(m, t) ==
    LET valid == ValidRows(m, t)  humans == Humans(m, t)
    IN  IF Equivalent(m, t)
        THEN Oldest(m, IF humans # {} THEN humans ELSE valid)
        ELSE IF humans # {} THEN Oldest(m, humans) ELSE Newest(m, valid)

\* The first pass: every valid row but the winner loses.
AfterValidPass(m, i) ==
    LET r == m[i]  t == m[i].topic  humans == Humans(m, m[i].topic)
    IN  CASE ~Valid(r) \/ Settled(m, t) -> r
          [] Valid(r) /\ HumansConflict(m, t) ->
                IF i \in humans THEN Quarantined(r, humans \ {i}) ELSE Contested(r, humans)
          [] OTHER -> IF i = Winner(m, t) THEN r
                      ELSE IF Equivalent(m, t) \/ humans = {}
                           THEN Superseded(r, Winner(m, t))
                           ELSE Contested(r, humans)

ValidPass(m) == [i \in DOMAIN m |-> AfterValidPass(m, i)]

\* Human rows that show, valid or not, that their topic was in conflict.
Partners(m, t) ==
    {i \in HumanRows(m, t) :
        \/ "human_conflict_quarantined" \in m[i].flags
        \/ Valid(m[i])
        \/ m[i].conflicts_with \cap HumanRows(m, t) # {}}

AtLeastTwo(S) == IF Cardinality(S) >= 2 THEN S ELSE {}

\* A bug: the quarantine is reconstructed for the humans' rows only.
AfterDurablePassPartly(r, i, partners) ==
    IF partners # {} /\ HumanTrust(r) THEN Quarantined(r, partners \ {i}) ELSE r

\* The second pass reconstructs the conflict of a topic that the first (with
\* result v) left without one: a conflict already persisted.
DurableConflict(m, v, t) ==
    IF HumansConflict(m, t) THEN {} ELSE AtLeastTwo(Partners(v, t))

AfterDurablePass(r, i, partners) ==
    IF partners = {} THEN r
    ELSE IF HumanTrust(r) THEN Quarantined(r, partners \ {i})
                          ELSE Contested(r, partners)

Reconciled(m) ==
    LET v == ValidPass(m)
        c == [t \in Topic |-> DurableConflict(m, v, t)]
    IN  [i \in DOMAIN m |-> AfterDurablePass(v[i], i, c[m[i].topic])]

\* The humans' rows in conflict over a topic; {} when there is no conflict.
Conflict(m, t) ==
    IF HumansConflict(m, t) THEN Humans(m, t)
    ELSE DurableConflict(m, ValidPass(m), t)

\* The authority of a topic, if it has one.
Authorities(m, t) ==
    {i \in ValidRows(Reconciled(m), t) : Conflict(m, t) = {}}

-----------------------------------------------------------------------------
(* budget.ts: fitMemoryToBudget on the rows                                *)

\* A bug: only the operation's own rows are protected.
ProtectedByCaller(m, preserve) == DOMAIN m \cap preserve

Protected(m, preserve) ==
    {i \in DOMAIN m : \/ i \in preserve
                      \/ m[i].flags \cap {"foundational",
                                          "human_conflict_quarantined"} # {}}

\* Stages 5 and 7: invalid rows, then old ones, whatever the size.
Kept(m, preserve) ==
    {i \in DOMAIN m :
        \/ i \in Protected(m, preserve)
        \/ Valid(m[i]) /\ clock - m[i].timestamp <= Horizon}

OnlyRows(m, S) == [i \in S |-> m[i]]

\* The memories that may be committed for m: stage 9 drops unprotected rows
\* while there is no room.  None if the protected rows alone do not fit.
Fits(m, preserve) ==
    LET kept == Kept(m, preserve)
        must == kept \cap Protected(m, preserve)
    IN  {OnlyRows(m, must \cup S) :
            S \in {S \in SUBSET (kept \ must) :
                      \E room \in Rooms :
                         \/ Cardinality(kept) <= room /\ S = kept \ must
                         \/ /\ Cardinality(kept) > room
                            /\ Cardinality(must \cup S) = room}}

\* The end of a transaction that commits m: the budget fits or refuses it.
Commit(m, preserve) ==
    \/ rows' \in Fits(m, preserve)
    \/ /\ \E room \in Rooms : room < Cardinality(Protected(m, preserve))
       /\ UNCHANGED rows

-----------------------------------------------------------------------------
(* merge.ts                                                                *)

Init ==
    /\ rows \in InitialRows
    /\ issued = DOMAIN rows
    /\ clock = 0
    /\ txn = "none" /\ draft = None /\ prior = {}
    /\ review = [h \in Human |-> NoLook]

Idle == txn = "none"

\* A bug: the merge starts from the rows as they are.
BeginMergeRaw(origin) ==
    /\ Idle
    /\ txn' = origin
    /\ draft' = rows
    /\ prior' = {i \in DOMAIN rows : Valid(rows[i])}
    /\ UNCHANGED <<rows, issued, clock, review>>

BeginMerge(origin) ==
    /\ Idle
    /\ txn' = origin
    /\ draft' = Reconciled(rows)
    /\ prior' = {i \in DOMAIN rows : Valid(rows[i])}
    /\ UNCHANGED <<rows, issued, clock, review>>

\* The conflict mergeDecisions goes by: the quarantined human rows, or else
\* the one that reconciliation finds.
MergeConflict(m, t) ==
    LET marked == AtLeastTwo({i \in HumanRows(m, t) :
                                "human_conflict_quarantined" \in m[i].flags})
    IN  IF marked # {} THEN marked ELSE Conflict(m, t)

With(m, i, r) == [j \in DOMAIN m \cup {i} |-> IF j = i THEN r ELSE m[j]]

\* The id of the next new row.  The order of ids only decides between valid
\* rows of one topic and one timestamp, of which only the initial memory may
\* have several; so it is no loss to give new ids in order.
Fresh == CHOOSE n \in Id \ issued : \A k \in Id \ issued : n <= k

Issue == Id # issued /\ issued' = issued \cup {Fresh}

AddRow(r) == Issue /\ draft' = With(draft, Fresh, r)

\* What asks for a human's review: the mark of a heuristic claim.
Requested(c) ==
    IF "foundational" \in c.marks THEN {"foundational_requested"} ELSE {}

NewRow(c, flags, conflicts) ==
    [topic |-> c.topic, decision |-> c.decision, timestamp |-> clock,
     flags |-> flags \cup Requested(c),
     confidence |-> IF txn = "llm" THEN "llm-corroborated" ELSE "heuristic",
     conflicts_with |-> conflicts, superseded_by |-> NoId, derived_from |-> NoId]

\* The claim becomes a candidate that contradicts the rows "with".
Contest(c, with) == AddRow(NewRow(c, {}, with))

\* A bug: the provenance of a human's row is overwritten too.
EnrichedAlways(r, c) ==
    [r EXCEPT !.flags = @ \cup Requested(c),
              !.confidence = IF txn = "llm" THEN "llm-corroborated" ELSE @]

\* The same text again: an authority that no human reviewed is enriched.
Enriched(r, c) ==
    IF TrustedHuman(r) THEN r
    ELSE [r EXCEPT !.flags = @ \cup Requested(c),
                   !.confidence = IF txn = "llm" THEN "llm-corroborated" ELSE @]

Repeat(c, i) == draft' = [draft EXCEPT ![i] = Enriched(@, c)] /\ UNCHANGED issued

\* Which authorities give way to a claim of another text.
Yields(r) == \/ txn = "heuristic" /\ ~TrustedHuman(r)
             \/ txn = "llm" /\ r.confidence = "legacy"

Replaced(i) == /\ ~HumanTrust(draft[i])
               /\ Valid(draft[i]) \/ i \in prior

\* A bug: rows of other topics are replaced as well.
ReplaceEverywhere(c) ==
    /\ Issue
    /\ draft' = With([j \in DOMAIN draft |->
                         IF Replaced(j)
                         THEN Superseded(draft[j], Fresh) ELSE draft[j]],
                     Fresh, NewRow(c, {"still_valid"}, {}))

Replace(c) ==
    /\ Issue
    /\ draft' = With([j \in DOMAIN draft |->
                         IF draft[j].topic = c.topic /\ Replaced(j)
                         THEN Superseded(draft[j], Fresh) ELSE draft[j]],
                     Fresh, NewRow(c, {"still_valid"}, {}))

\* A claim meets the conflict of its topic, no authority, or authority i.
MeetAuthority(c, i) ==
    \/ c.decision = draft[i].decision /\ Repeat(c, i)
    \/ c.decision # draft[i].decision /\ Yields(draft[i]) /\ Replace(c)
    \/ c.decision # draft[i].decision /\ ~Yields(draft[i]) /\ Contest(c, {i})

\* An LLM claim without resolved evidence never gets this far.
Admitted(c) == txn = "llm" => "evidenced" \in c.marks

MergeClaim(c) ==
    /\ Admitted(c)
    /\ LET conflict == MergeConflict(draft, c.topic)
           found == Authorities(draft, c.topic)
       IN  \/ conflict # {} /\ Contest(c, conflict)
           \/ conflict = {} /\ found = {} /\ AddRow(NewRow(c, {"still_valid"}, {}))
           \/ conflict = {} /\ \E i \in found : MeetAuthority(c, i)
    /\ UNCHANGED <<rows, clock, txn, prior, review>>

\* Neither transaction of the writer protects a decision by its id.
CommitMerge ==
    /\ txn # "none"
    /\ Commit(draft, {})
    /\ txn' = "none" /\ draft' = None /\ prior' = {}
    /\ UNCHANGED <<issued, clock, review>>

-----------------------------------------------------------------------------
(* decision-review.ts, recall_promote and the CLI                          *)

\* The row a request by topic means: the only valid one.
SoleValid(t) == IF Cardinality(ValidRows(rows, t)) = 1 THEN ValidRows(rows, t) ELSE {}

Requestable(i) == /\ i \in DOMAIN rows
                  /\ i \in Authorities(rows, rows[i].topic)
                  /\ ~TrustedHuman(Reconciled(rows)[i])

Request(i) ==
    /\ Idle /\ Requestable(i)
    /\ Commit([rows EXCEPT ![i].flags = @ \cup {"foundational_requested"}], {i})
    /\ UNCHANGED <<issued, clock, mergeVars, review>>

RequestFoundationalReview ==
    \/ \E i \in Id : Request(i)
    \/ \E t \in Topic : \E i \in SoleValid(t) : Request(i)

\* A bug: what the human saw before the lock is not looked at again.
PromotableStill(i) == i \in DOMAIN rows /\ "foundational_requested" \in rows[i].flags

Promotable(i) == /\ i \in DOMAIN rows
                 /\ i \in Authorities(rows, rows[i].topic)
                 /\ "foundational_requested" \in rows[i].flags

LookAt(h, look) ==
    /\ review[h].kind = "none"
    /\ review' = [review EXCEPT ![h] = look]
    /\ UNCHANGED <<rows, issued, clock, mergeVars>>

\* The CLI reads the memory and prints what is to be confirmed.
LookToPromote(h, i) ==
    /\ i \in DOMAIN rows /\ i \in Authorities(rows, rows[i].topic)
    /\ "foundational_requested" \in rows[i].flags
    /\ LookAt(h, [kind |-> "promote", target |-> i, candidate |-> NoId,
                  shown |-> rows[i].decision])

\* The human leaves, or the transaction finds the memory changed.
LookAway(h) ==
    /\ review[h].kind # "none"
    /\ review' = [review EXCEPT ![h] = NoLook]
    /\ UNCHANGED <<rows, issued, clock, mergeVars>>

Confirmed(r) ==
    [r EXCEPT !.flags = (@ \ {"foundational_requested"})
                           \cup {"foundational", "human_review"},
              !.confidence = "human-reviewed"]

Promote(h) ==
    LET i == review[h].target IN
    /\ Idle /\ review[h].kind = "promote" /\ Promotable(i) /\ ~TrustedHuman(rows[i])
    /\ Commit([rows EXCEPT ![i] = Confirmed(@)], {i})
    /\ review' = [review EXCEPT ![h] = NoLook]
    /\ UNCHANGED <<issued, clock, mergeVars>>

Linked(a, c) == /\ {a, c} \subseteq DOMAIN rows
                /\ TrustedHuman(rows[a])
                /\ rows[c].topic = rows[a].topic
                /\ a \in rows[c].conflicts_with

LookToSupersede(h, a, c) ==
    /\ Linked(a, c)
    /\ LookAt(h, [kind |-> "supersede", target |-> a, candidate |-> c,
                  shown |-> rows[c].decision])

\* A bug: the review record stays on the row.
DemotedPartly(r, n) ==
    [r EXCEPT !.flags = @ \ {"still_valid", "foundational"},
              !.superseded_by = n, !.confidence = "legacy"]

\* The authority a human gave up keeps no claim to human trust.
Demoted(r, n) ==
    [r EXCEPT !.flags = @ \ {"still_valid", "foundational", "human_review"},
              !.superseded_by = n, !.confidence = "legacy"]

\* A bug: the candidate's validity is copied with the rest of it.
SuccessorOfInvalid(c, r) ==
    [r EXCEPT !.flags = @ \cup {"foundational", "human_review"},
              !.confidence = "human-reviewed", !.conflicts_with = {},
              !.superseded_by = NoId, !.derived_from = c]

Successor(c, r) ==
    [r EXCEPT !.flags = {"still_valid", "foundational", "human_review"},
              !.confidence = "human-reviewed", !.conflicts_with = {},
              !.superseded_by = NoId, !.derived_from = c]

Supersede(h) ==
    LET a == review[h].target  c == review[h].candidate IN
    /\ Idle /\ review[h].kind = "supersede"
    /\ Linked(a, c) /\ ~Valid(rows[c])
    /\ Issue
    /\ Commit(With([rows EXCEPT ![a] = Demoted(@, Fresh), ![c].superseded_by = Fresh],
                   Fresh, Successor(c, rows[c])),
              {Fresh, a, c})
    /\ review' = [review EXCEPT ![h] = NoLook]
    /\ UNCHANGED <<clock, mergeVars>>

Tick ==
    /\ Idle /\ clock < MaxClock
    /\ clock' = clock + 1
    /\ UNCHANGED <<rows, issued, mergeVars, review>>

Next ==
    \/ \E origin \in {"heuristic", "llm"} : BeginMerge(origin)
    \/ txn # "none" /\ \E c \in Claim(txn) : MergeClaim(c)
    \/ CommitMerge
    \/ RequestFoundationalReview
    \/ \E h \in Human :
          \/ \E i \in Id : LookToPromote(h, i)
          \/ \E a, c \in Id : LookToSupersede(h, a, c)
          \/ LookAway(h) \/ Promote(h) \/ Supersede(h)
    \/ Tick

Spec == Init /\ [][Next]_vars

-----------------------------------------------------------------------------
(* Properties                                                              *)

\* The schema refuses a memory in which a row claims human trust without the
\* whole tuple of it, or supersedes or contradicts itself; a memory committed
\* in such a state could never be read again (schema.ts 449-500).
RowsReadable == IsMemory(rows) /\ SchemaSound(rows)

\* Read after read, a topic has one authority, or none while the humans' own
\* decisions contradict each other (the reader invariant of
\* resolveDecisionAuthorities).
OneVoice == \A t \in Topic :
    /\ Cardinality(ValidRows(Reconciled(rows), t)) <= 1
    /\ Conflict(rows, t) # {} => ValidRows(Reconciled(rows), t) = {}

HumanAuthorities ==
    {i \in DOMAIN rows : HumanTrust(rows[i]) /\ i \in Authorities(rows, rows[i].topic)}

Superseding == \E h \in Human :
    review[h].kind = "supersede" /\ review'[h].kind = "none" /\ issued' # issued

\* Automation has no veto over humans: whatever the two extractions claim, in
\* any batches, and whatever the budget drops, a decision that a human
\* reviewed stays its topic's authority, word for word, until a human
\* supersedes it.
HumanDecisionsStand == [][
    ~Superseding =>
        \A i \in HumanAuthorities :
            /\ i \in DOMAIN rows' /\ rows'[i].decision = rows[i].decision
            /\ i \in HumanAuthorities']_rows

\* Humans who agree are in a conflict only by a row of another text that an
\* earlier release left valid; reading ends it when the budget drops that row.
HumansAgree(m, t) == HumansConflict(m, t) /\ SameText(m, Humans(m, t))

\* Two human decisions that contradict each other stay in conflict, with all
\* the rows that show it, until a human acts (the quarantine of
\* resolveConflictingHumans survives every merge, prune and re-read).
QuarantineHolds == [][
    ~Superseding =>
        \A t \in Topic :
            Conflict(rows, t) \subseteq Conflict(rows, t)' \/ HumansAgree(rows, t)]_rows

\* A row comes to be trusted as human only in the transaction of a human who
\* was shown its very words, and promotion only makes the current authority
\* of the topic trusted (the re-validation inside cmdPromote's and
\* cmdSupersede's transactions).
OnlyReviewedIsTrusted == [][
    \A i \in {j \in DOMAIN rows' : HumanTrust(rows'[j])} :
        \/ i \in DOMAIN rows /\ HumanTrust(rows[i])
        \/ \E h \in Human :
              /\ review[h].kind = "promote" /\ review[h].target = i
              /\ review[h].shown = rows'[i].decision
              /\ i \in Authorities(rows, rows[i].topic)
        \/ \E h \in Human :
              /\ review[h].kind = "supersede"
              /\ review[h].candidate = rows'[i].derived_from
              /\ review[h].shown = rows'[i].decision]_rows

\* What the CLI reports done is done: a row that comes to be trusted is the
\* authority of its topic from then on ("Promotion confirmed", "Supersession
\* complete. New human authority"), unless another human's row that is valid
\* or marked by a conflict stands against it: nothing in the CLI resolves that.
HumanActsTakeEffect == [][
    \A i \in DOMAIN rows' :
        HumanTrust(rows'[i]) /\ ~(i \in DOMAIN rows /\ HumanTrust(rows[i]))
        => i \in HumanAuthorities' \/ Partners(rows', rows'[i].topic) \ {i} # {}]_rows

Merged == txn # "none" /\ txn' = "none"

\* What a merge commits is what the next reader sees: of the committed rows
\* reading takes none to be invalid (mergeDecisions starts from the reconciled
\* view so that its result persists the repair).
MergesSettle == [][Merged =>
    \A i \in DOMAIN rows' : Valid(rows'[i]) <=> Valid(Reconciled(rows')[i])]_rows

\* A merge never leaves a topic without the authority it had: there is the
\* same or another, unless the budget dropped the one that the merge chose.
TopicsStaySettled == [][
    Merged => \A t \in Topic :
        Authorities(rows, t) # {} =>
            \/ Authorities(rows, t)' # {}
            \/ \E i \in Authorities(draft, t) : i \notin DOMAIN rows']_rows

\* merge.ts:415: the claim that a human's authority outranks becomes a
\* candidate "available to the human CLI".
CandidatesReachTheHuman == [][
    Merged => \A i \in DOMAIN draft \ DOMAIN rows :
                  draft[i].conflicts_with # {} => i \in DOMAIN rows']_vars
=============================================================================
