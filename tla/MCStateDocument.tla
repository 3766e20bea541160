---------------------------- MODULE MCStateDocument ----------------------------
(***************************************************************************)
(* Instances of StateDocument for TLC: documents that earlier releases     *)
(* left behind, and full documents of this one.                            *)
(***************************************************************************)
EXTENDS StateDocument, TLC

SmallCap == [audits |-> 2, cache |-> 2, health |-> 2, sessions |-> 2, sources |-> 2,
             files |-> 3, entries |-> 1, array |-> 4, detail |-> 1, text |-> 3,
             quarantined |-> 2]

UnitCost == [audit |-> 1, cache |-> 1, health |-> 1, session |-> 1, source |-> 1,
             file |-> 1, row |-> 1, quarantine |-> 1]

Names == {"a", "b", "c", "d", "long", "new"}
LongIds == {<<"long">>}

Empty == [version |-> 3, decisions |-> <<>>, files |-> <<>>, blockers |-> <<>>,
          steps |-> <<>>, task |-> [text |-> 0, by |-> "none"], cache |-> <<>>,
          quarantined |-> 0, audits |-> <<>>, sources |-> <<>>, sessions |-> <<>>,
          health |-> <<>>]

Row(id, key, by, flags, stamp) ==
    [id |-> <<id>>, key |-> key, by |-> by, flags |-> flags \cup {"still_valid"},
     stamp |-> stamp, used |-> 0, text |-> 1, lineage |-> {}]

Ref(id, key) == [id |-> <<id>>, key |-> key]

Reviewed == {"foundational", "human_review"}
Wanted == {"foundational_requested"}

\* Rows of one id: two that a review may have meant, one without a time, and
\* rows that refer to the oldest.
Duplicates == [Empty EXCEPT !.decisions =
    <<Row("a", 2, "llm", Wanted, 2),
      Row("a", 1, "heuristic", Wanted, 1),
      [Row("b", 4, "heuristic", {"foundational"}, 1) EXCEPT !.lineage = {Ref("a", 1)},
          !.flags = @ \ {"still_valid"}]>>]

ReviewedTwice == [Empty EXCEPT !.decisions =
    <<Row("a", 2, "heuristic", Wanted, 0), Row("a", 1, "human", Reviewed, 1)>>]

\* An id too long to be kept, shared as well, and a reference to it.
LongNames == [Empty EXCEPT !.decisions =
    <<Row("long", 2, "heuristic", {}, 0), Row("long", 1, "llm", {}, 1),
      [Row("b", 3, "heuristic", {"foundational"}, 1) EXCEPT !.lineage = {Ref("long", 1)},
          !.flags = @ \ {"still_valid"}]>>]

\* A review claimed without a record, an LLM claim without evidence, a cache
\* of an earlier contract.
Claims == [Empty EXCEPT
    !.decisions = <<Row("a", 1, "human", {"foundational"}, 1),
                    Row("b", 2, "unproven-llm", {}, 1)>>,
    !.files = <<[path |-> 1, touched |-> 1, by |-> "llm", reason |-> 2],
                [path |-> 2, touched |-> 0, by |-> "heuristic", reason |-> 0],
                [path |-> 3, touched |-> 1, by |-> "heuristic", reason |-> 0],
                [path |-> 4, touched |-> 2, by |-> "legacy", reason |-> 0],
                [path |-> 5, touched |-> 0, by |-> "legacy", reason |-> 0]>>,
    !.blockers = <<1, 2, 3, 1, 2>>, !.steps = <<1, 2, 3, 1, 2>>,
    !.task = [text |-> 2, by |-> "llm"],
    !.cache = <<[key |-> 101, kind |-> "old"], [key |-> 102, kind |-> "current"]>>,
    !.quarantined = 2]

\* Documents of the first releases.
Version1 == [Claims EXCEPT !.version = 1, !.decisions = <<Row("a", 1, "llm", {"foundational"}, 1)>>]
Version2 == [Version1 EXCEPT !.version = 2, !.quarantined = 0,
                !.cache = <<[key |-> 101, kind |-> "unproven"]>> \o @]

\* What cannot be read: of a later release, with a cache entry that proves
\* nothing.
Version4 == [Empty EXCEPT !.version = 4]
Unproven == [Empty EXCEPT !.cache = <<[key |-> 101, kind |-> "unproven"]>>]

\* Everything up to its count.
Full == [Empty EXCEPT
    !.decisions = <<[Row("a", 1, "human", Reviewed, 1) EXCEPT !.text = 3],
                    [Row("b", 2, "heuristic", Wanted, 1) EXCEPT !.used = 1],
                    Row("c", 3, "llm", {}, 2)>>,
    !.files = <<[path |-> 1, touched |-> 0, by |-> "heuristic", reason |-> 2],
                [path |-> 2, touched |-> 1, by |-> "heuristic", reason |-> 0]>>,
    !.blockers = <<1, 2>>, !.steps = <<2>>, !.task = [text |-> 2, by |-> "heuristic"],
    !.cache = <<[key |-> 101, kind |-> "current"], [key |-> 102, kind |-> "current"]>>,
    !.quarantined = 1,
    !.audits = <<[id |-> 101, state |-> "completed", stamp |-> 1],
                 [id |-> 102, state |-> "pending", stamp |-> 1]>>,
    !.sources = <<101, 102>>, !.sessions = <<1>>, !.health = <<1>>]

\* Humans in conflict, and guards that nobody will settle.
Protected == [Empty EXCEPT
    !.decisions = <<[Row("a", 1, "human", Reviewed, 1) EXCEPT
                         !.flags = (@ \ {"still_valid"}) \cup {"human_conflict_quarantined"},
                         !.lineage = {Ref("b", 2)}],
                    [Row("b", 2, "human", Reviewed, 1) EXCEPT
                         !.flags = (@ \ {"still_valid"}) \cup {"human_conflict_quarantined"},
                         !.lineage = {Ref("a", 1)}],
                    Row("c", 3, "legacy", Wanted, 1)>>,
    !.audits = <<[id |-> 101, state |-> "pending", stamp |-> 0],
                 [id |-> 102, state |-> "pending", stamp |-> 1]>>]

\* Verbose reviews: their detail may go, they may not.
Verbose == [Protected EXCEPT !.decisions = Mapped(@, LAMBDA r : [r EXCEPT !.text = 3])]

\* Files of three times, beside reviews that leave room for no more.
Touched == [Empty EXCEPT
    !.decisions = <<Row("a", 1, "human", Reviewed, 1), Row("b", 2, "human", Reviewed, 1)>>,
    !.files = [k \in 1 .. 3 |-> [path |-> k, touched |-> k - 1, by |-> "heuristic",
                                 reason |-> 0]]]

\* Nothing but bookkeeping.
Bookkeeping == [Full EXCEPT !.decisions = <<[Row("c", 3, "legacy", {}, 1) EXCEPT !.text = 3],
                                    [Row("d", 4, "llm", {}, 1) EXCEPT !.text = 0]>>,
                  !.files = <<>>,
                  !.blockers = <<>>, !.steps = <<>>, !.task = [text |-> 0, by |-> "none"],
                  !.audits = <<>>, !.health = <<>>, !.quarantined = 0, !.sessions = <<>>]

\* An audit that ended, and one that a new guard will join.
Guarding == [Empty EXCEPT !.audits = Full.audits]

Inherited == {Empty, Guarding, Duplicates, ReviewedTwice, LongNames, Claims, Version1, Version2,
              Version4, Unproven, Full, Verbose, Bookkeeping,
              Touched}
=============================================================================
