---------------------------- MODULE MemoryDocument ----------------------------
(***************************************************************************)
(* The document that STATE.json holds (memory/schema.ts): its fields, the  *)
(* size of its serialization (memory/memory-size.ts) and what the schema   *)
(* lets a reader accept or a commit write.                                 *)
(*                                                                         *)
(* A text is its length and a file path, a model or a session is a key.    *)
(* A row of the decisions carries the key of the decision it is about,     *)
(* which the code does not see: several rows may have got one id, but no   *)
(* two rows are about one key.  Its lineage (superseded_by and             *)
(* conflicts_with) names ids; each reference carries the key it was about. *)
(***************************************************************************)
EXTENDS Naturals, Sequences, FiniteSets, Functions

CONSTANTS
    Cap,      \* how many entries each collection may keep
    Cost,     \* the bytes of an entry of each collection, without its texts
    Name,     \* what an id begins with
    Overlong  \* legacy ids of more than MAX_IDENTIFIER characters

ASSUME DocumentAssumption ==
    /\ \A c \in {"audits", "cache", "health", "sessions", "sources", "files",
                 "entries", "array", "detail", "text", "quarantined"} : Cap[c] \in Nat
    /\ \A c \in {"audit", "cache", "health", "session", "source", "file",
                 "row", "quarantine"} : Cost[c] \in Nat \ {0}
    /\ Cap.detail <= Cap.text /\ Cap.files <= Cap.array /\ Cap.entries <= Cap.array
    /\ Overlong \subseteq {<<name>> : name \in Name}

\* A text that is shortened is not emptied.
ASSUME DetailAssumption == Cap.detail > 0

CurrentVersion == 3
Unreadable == [version |-> 0]
NoTime == 0      \* a timestamp that Date.parse does not understand

Flags == {"still_valid", "foundational", "foundational_requested",
          "human_review", "human_conflict_quarantined"}

\* "unproven-llm" claims the LLM's authority without an audit session or
\* without one to three pointers into a transcript.
Authors == {"heuristic", "llm", "unproven-llm", "human", "legacy"}

\* An id is a name, which digests and numbers may follow.
Id == Seq(Name \cup Nat)

Decision ==
    [id : Id, key : Nat, by : Authors, flags : SUBSET Flags, stamp : Nat, used : Nat,
     text : Nat, lineage : SUBSET [id : Id, key : Nat]]

\* The fields of a document, whatever the release.
Document ==
    [version : Nat, decisions : Seq(Decision),
     files : Seq([path : Nat, touched : Nat, by : Authors, reason : Nat]),
     blockers : Seq(Nat), steps : Seq(Nat),
     task : [text : Nat, by : Authors \cup {"none"}],
     cache : Seq([key : Nat, kind : {"current", "old", "unproven"}]), quarantined : Nat,
     audits : Seq([id : Nat, state : {"pending", "completed"}, stamp : Nat]),
     sources : Seq(Nat), sessions : Seq(Nat), health : Seq(Nat)]

-----------------------------------------------------------------------------
LastOf(s, n) == SubSeq(s, IF Len(s) > n THEN Len(s) - n + 1 ELSE 1, Len(s))
FirstOf(s, n) == SubSeq(s, 1, IF Len(s) > n THEN n ELSE Len(s))
Mapped(s, Op(_)) == [i \in DOMAIN s |-> Op(s[i])]

\* The entries of s at some of its places: a filter to prove about.
At(s, at) ==
    LET place == [i \in at |-> Cardinality({j \in at : j <= i})]
    IN  [k \in 1 .. Cardinality(at) |-> s[CHOOSE i \in at : place[i] = k]]

Within(s, S) == At(s, {i \in DOMAIN s : s[i] \in S})

Those(s, Test(_)) == Within(s, {x \in Range(s) : Test(x)})

\* A stable sort: Less is a strict weak order.
Sorted(s, Less(_, _)) ==
    LET before(j, i) == Less(s[j], s[i]) \/ (~Less(s[i], s[j]) /\ j < i)
        rank == [i \in DOMAIN s |-> Cardinality({j \in DOMAIN s : before(j, i)}) + 1]
    IN  [k \in DOMAIN s |-> s[CHOOSE i \in DOMAIN s : rank[i] = k]]

\* The sum of a list, as the number of its bytes: each has a place.
Total(s) == Cardinality(UNION {{i} \X (1 .. s[i]) : i \in DOMAIN s})

\* What the serialization grows with; the braces and names around it are
\* not counted.
Size(m) ==
    Total(Mapped(m.decisions, LAMBDA r : Cost.row + r.text))
    + Total(Mapped(m.files, LAMBDA f : Cost.file + f.reason))
    + Total(m.blockers) + Total(m.steps)
    + m.task.text
    + Cost.audit * Len(m.audits) + Cost.cache * Len(m.cache)
    + Cost.health * Len(m.health) + Cost.session * Len(m.sessions)
    + Cost.source * Len(m.sources)
    + (IF m.quarantined > 0 THEN Cost.quarantine ELSE 0)

-----------------------------------------------------------------------------
Has(r, flag) == flag \in r.flags

ClaimsHuman(r) == r.by = "human" \/ Has(r, "human_review")
ClaimHolds(r) == r.by = "human" /\ {"human_review", "foundational"} \subseteq r.flags

NamedIn(r) == {l.id : l \in r.lineage}

LegalRow(r) ==
    /\ r.id \notin Overlong /\ NamedIn(r) \cap Overlong = {}
    /\ r.text <= Cap.text
    /\ r.by # "unproven-llm"
    /\ ClaimsHuman(r) => ClaimHolds(r)
    /\ r.id \notin NamedIn(r)

Unique(rows) == \A i, j \in DOMAIN rows : rows[i].id = rows[j].id => i = j

\* MemoryFileSchema: what is parsed from the file, and what is written to it.
Legal(m) ==
    /\ m.version = CurrentVersion
    /\ Unique(m.decisions)
    /\ \A r \in Range(m.decisions) : LegalRow(r)
    /\ \A f \in Range(m.files) : f.by \in {"heuristic", "legacy"} /\ f.reason <= Cap.text
    /\ m.task.by \in {"none", "heuristic", "legacy"} /\ m.task.text <= Cap.text
    /\ \A t \in Range(m.blockers) \cup Range(m.steps) : t <= Cap.text
    /\ \A e \in Range(m.cache) : e.kind # "unproven"
    /\ Len(m.files) <= Cap.array /\ Len(m.blockers) <= Cap.array
    /\ Len(m.steps) <= Cap.array
    /\ Len(m.audits) <= Cap.audits /\ Len(m.cache) <= Cap.cache
    /\ Len(m.health) <= Cap.health /\ Len(m.sessions) <= Cap.sessions
    /\ Len(m.sources) <= Cap.sources
    /\ m.quarantined <= Cap.quarantined
=============================================================================
