---------------------------- MODULE MCDecisions ----------------------------
(***************************************************************************)
(* Instances of Decisions for TLC.  The memories that behaviours start     *)
(* from are made of the rows that earlier releases, other authors and the  *)
(* program itself leave behind.                                            *)
(***************************************************************************)
EXTENDS Decisions, TLC

CONSTANTS nobody, db, ui, pg, lite

Row(text, flags, confidence, conflicts) ==
    [topic |-> db, decision |-> text, timestamp |-> 0, flags |-> flags,
     confidence |-> confidence, conflicts_with |-> conflicts,
     superseded_by |-> nobody, derived_from |-> nobody]

HumanFlags == {"foundational", "human_review"}

\* The rows of one text that may be valid, and those that a conflict with the
\* rows "others" left invalid.
ValidKinds(text) == {
    Row(text, {"still_valid"}, "heuristic", {}),
    Row(text, {"still_valid", "foundational_requested"}, "llm-corroborated", {}),
    Row(text, {"still_valid", "foundational", "foundational_requested"}, "legacy", {}),
    Row(text, HumanFlags \cup {"still_valid"}, "human-reviewed", {})}

Candidate(text, others) == Row(text, {}, "llm-corroborated", others)

\* A human's row in conflict, as releases without the marker left it and with it.
UnmarkedHuman(text, others) == Row(text, HumanFlags, "human-reviewed", others)

QuarantinedHuman(text, others) ==
    Row(text, HumanFlags \cup {"human_conflict_quarantined"}, "human-reviewed", others)

Pair(r, s) == (1 :> r) @@ (2 :> s)

\* Memories of up to two rows: any two valid ones, a candidate of the first,
\* two humans' in conflict; and such a conflict beside a valid row.
AnyTwoRows ==
    {None}
    \cup {1 :> r : r \in ValidKinds(pg)}
    \cup {Pair(r, s) : r \in ValidKinds(pg),
                       s \in ValidKinds(pg) \cup ValidKinds(lite) \cup {Candidate(lite, {1})}}
    \cup {Pair(QuarantinedHuman(pg, {2}), QuarantinedHuman(lite, {1})),
          Pair(UnmarkedHuman(pg, {2}), UnmarkedHuman(lite, {1}))}
    \cup {Pair(UnmarkedHuman(pg, {2}), UnmarkedHuman(lite, {1})) @@ (3 :> r) :
              r \in ValidKinds(pg)}

OneHuman == {1 :> Row(pg, HumanFlags \cup {"still_valid"}, "human-reviewed", {})}

\* Two topics, each with an authority of any kind.
TwoTopics == {Pair(r, [s EXCEPT !.topic = ui]) :
                 r \in ValidKinds(pg), s \in ValidKinds(lite)}

\* Three rows of one topic: humans who agree against a row of another text, a
\* conflict that grows by one already marked, and a human's row that alone
\* bears the mark of one, beside a row that may be promoted.
ValidHuman(text) == Row(text, HumanFlags \cup {"still_valid"}, "human-reviewed", {})

HumanCrowds ==
    {Pair(ValidHuman(pg), ValidHuman(text)) @@ (3 :> r) :
        text \in {pg, lite},
        r \in {Row(lite, {"still_valid"}, "heuristic", {}),
               QuarantinedHuman(pg, {2})}}
    \cup {Pair(r, QuarantinedHuman(pg, {})) : r \in ValidKinds(lite)}

AnyMemory == AnyTwoRows \cup TwoTopics \cup HumanCrowds
=============================================================================
